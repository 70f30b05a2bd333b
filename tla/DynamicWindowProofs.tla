------------------------ MODULE DynamicWindowProofs ------------------------
(***************************************************************************)
(* DynamicWindow for any processes, regions, nodes and numbers of changes: *)
(* Invariant is inductive and gives the properties of the attached memory, *)
(* of its list, and of the copies operations look it up in.                *)
(*                                                                         *)
(* List is a recursive function.  That it gives back the list the pointers *)
(* form is proved from its definition, by the least step at which it would *)
(* not.                                                                    *)
(***************************************************************************)
EXTENDS DynamicWindow, TLAPS, Lemmas

(* The pointers from the head on lead through L and end there.             *)
Chain(L) ==
  /\ L = << >> => win_dynamic_mem_regions = NULL
  /\ L # << >> => win_dynamic_mem_regions = L[1] /\ next[L[Len(L)]] = NULL
  /\ \A k \in 1 .. Len(L) - 1 : next[L[k]] = L[k + 1]

\* the first k elements of L, all of L if it has fewer
Prefix(L, k) == [i \in 1 .. (IF k <= Len(L) THEN k ELSE Len(L)) |-> L[i]]

\* what List takes for the first k nodes, if G has the ones before
WalkStep(G, k) ==
  IF k = 0 \/ win_dynamic_mem_regions = NULL THEN << >>
  ELSE IF k = 1 THEN <<win_dynamic_mem_regions>>
  ELSE LET before == G[k - 1]
       IN IF next[Last(before)] = NULL THEN before ELSE Append(before, next[Last(before)])

(* What a prefix is made of.                                               *)
LEMMA PrefixFacts ==
  ASSUME NEW L \in Seq(Node), NEW k \in Nat
  PROVE  /\ Prefix(L, k) \in Seq(Node)
         /\ Len(Prefix(L, k)) = IF k <= Len(L) THEN k ELSE Len(L)
         /\ \A i \in 1 .. (IF k <= Len(L) THEN k ELSE Len(L)) : Prefix(L, k)[i] = L[i]
<1>1. L \in [1 .. Len(L) -> Node] /\ Len(L) \in Nat
  BY LenProperties
<1>. DEFINE m == IF k <= Len(L) THEN k ELSE Len(L)
<1>2. m \in Nat /\ m <= Len(L)
  BY <1>1
<1>3. Prefix(L, k) \in [1 .. m -> Node]
  BY <1>1, <1>2 DEF Prefix
<1>4. Prefix(L, k) \in Seq(Node) 
  BY <1>2, <1>3, SeqDef
<1>5. DOMAIN Prefix(L, k) = 1 .. m
  BY DEF Prefix
<1>6. Len(Prefix(L, k)) = m
  BY <1>2, <1>4, <1>5, LenProperties
<1>. QED BY <1>4, <1>6 DEF Prefix

(* A step of the walk adds the next node, until the list ends.             *)
LEMMA PrefixStep ==
  ASSUME NEW L \in Seq(Node), Chain(L), NEW k \in Nat, NEW G,
         k > 0 => G[k - 1] = Prefix(L, k - 1)
  PROVE  WalkStep(G, k) = Prefix(L, k)
<1>1. L \in [1 .. Len(L) -> Node] /\ Len(L) \in Nat /\ (L = << >> <=> Len(L) = 0)
  BY LenProperties, EmptySeq
<1>2. CASE L = << >>
  <2>1. WalkStep(G, k) = << >>
    BY <1>2 DEF WalkStep, Chain
  <2>2. Prefix(L, k) \in Seq(Node) /\ Len(Prefix(L, k)) = IF k <= Len(L) THEN k ELSE Len(L)
    BY PrefixFacts
  <2>3. Len(Prefix(L, k)) = 0
    BY <1>1, <1>2, <2>2
  <2>. QED BY <2>1, <2>2, <2>3, EmptySeq
<1>3. CASE L # << >>
  <2>1. win_dynamic_mem_regions = L[1] /\ L[1] \in Node /\ L[1] # NULL
    BY <1>1, <1>3, NamesAssumption DEF Chain
  <2>2. CASE k = 0
    <3>1. WalkStep(G, k) = << >>
      BY <2>2 DEF WalkStep
    <3>2. Prefix(L, k) \in Seq(Node) /\ Len(Prefix(L, k)) = 0
      BY PrefixFacts, <1>1, <2>2
    <3>. QED BY <3>1, <3>2, EmptySeq
  <2>3. CASE k = 1
    <3>1. WalkStep(G, k) = <<L[1]>>
      BY <2>3, <2>1 DEF WalkStep
    <3>2. /\ Prefix(L, k) \in Seq(Node) /\ Len(Prefix(L, k)) = (IF k <= Len(L) THEN k ELSE Len(L))
          /\ \A i \in 1 .. (IF k <= Len(L) THEN k ELSE Len(L)) : Prefix(L, k)[i] = L[i]
      BY PrefixFacts
    <3>4. Len(Prefix(L, k)) = 1 /\ Prefix(L, k)[1] = L[1]
      BY <1>1, <1>3, <2>3, <3>2
    <3>3. <<L[1]>> \in Seq(Node) /\ Len(<<L[1]>>) = 1 /\ <<L[1]>>[1] = L[1]
      BY <2>1
    <3>. QED BY <3>1, <3>2, <3>3, <3>4, SeqEqual
  <2>4. CASE k > 1
    <3>. DEFINE w == Prefix(L, k - 1)
    <3>1. G[k - 1] = w /\ k - 1 \in Nat
      BY <2>4
    <3>2. WalkStep(G, k) = IF next[Last(w)] = NULL THEN w ELSE Append(w, next[Last(w)])
      BY <2>1, <2>4, <3>1 DEF WalkStep
    <3>3. /\ w \in Seq(Node) /\ Len(w) = (IF k - 1 <= Len(L) THEN k - 1 ELSE Len(L))
          /\ \A i \in 1 .. Len(w) : w[i] = L[i]
      BY <3>1, PrefixFacts
    <3>. HIDE DEF w
    <3>4. Last(w) = L[Len(w)] /\ Len(w) \in 1 .. Len(L)
      BY <1>1, <1>3, <2>4, <3>3 DEF Last
    <3>5. /\ Prefix(L, k) \in Seq(Node) /\ Len(Prefix(L, k)) = (IF k <= Len(L) THEN k ELSE Len(L))
          /\ \A i \in 1 .. Len(Prefix(L, k)) : Prefix(L, k)[i] = L[i]
      BY PrefixFacts
    <3>6. CASE k <= Len(L)
      <4>1. Len(w) = k - 1 /\ next[Last(w)] = L[k] /\ L[k] \in Node /\ L[k] # NULL
        BY <1>1, <2>4, <3>3, <3>4, <3>6, NamesAssumption DEF Chain
      <4>2. WalkStep(G, k) = Append(w, L[k])
        BY <3>2, <4>1
      <4>3. /\ Append(w, L[k]) \in Seq(Node) /\ Len(Append(w, L[k])) = k
            /\ \A i \in 1 .. k : Append(w, L[k])[i] = L[i]
        BY <3>3, <4>1, AppendProperties
      <4>. QED BY <3>5, <3>6, <4>2, <4>3, SeqEqual
    <3>7. CASE ~ (k <= Len(L))
      <4>1. Len(w) = Len(L) /\ next[Last(w)] = NULL
        BY <1>1, <1>3, <2>4, <3>3, <3>4, <3>7 DEF Chain
      <4>. QED BY <1>1, <3>2, <3>3, <3>5, <3>7, <4>1, SeqEqual
    <3>. QED BY <3>6, <3>7
  <2>. QED BY <2>2, <2>3, <2>4
<1>. QED BY <1>2, <1>3

(* The walk over the pointers visits the nodes of a list in its order.     *)
LEMMA ListIsChain ==
  ASSUME NEW L \in Seq(Node), Len(L) <= Cardinality(Node), Chain(L)
  PROVE  List = L
<1>. DEFINE N == Cardinality(Node)
            P(G) == G = [k \in 0 .. N |-> WalkStep(G, k)]
            V == [k \in 0 .. N |-> Prefix(L, k)]
<1>1. N \in Nat
  BY BoundsAssumption, FS_CardinalityType
<1>2. List = (CHOOSE G : P(G))[N]
  BY DEF List, WalkStep
<1>3. P(V)
  <2>1. ASSUME NEW k \in 0 .. N PROVE WalkStep(V, k) = Prefix(L, k)
    <3>1. k > 0 => V[k - 1] = Prefix(L, k - 1)
      BY <1>1
    <3>2. k \in Nat
      BY <1>1
    <3>. HIDE DEF V
    <3>. QED BY <3>1, <3>2, PrefixStep
  <2>. QED BY <2>1
<1>4. ASSUME NEW G, P(G), NEW j \in 0 .. N PROVE G[j] = Prefix(L, j)
  <2>. DEFINE Bad == {k \in 0 .. N : G[k] # Prefix(L, k)}
  <2>. SUFFICES ASSUME Bad # {} PROVE FALSE
    OBVIOUS
  <2>1. PICK m \in Bad : \A k \in Bad : m <= k
    <3>1. Bad \in SUBSET Nat
      BY <1>1
    <3>. HIDE DEF Bad
    <3>. QED BY <3>1, LeastElement
  <2>2. m \in 0 .. N /\ m \in Nat /\ G[m] # Prefix(L, m)
    BY <1>1, <2>1
  <2>3. m > 0 => G[m - 1] = Prefix(L, m - 1)
    BY <1>1, <2>1, <2>2
  <2>4. G[m] = WalkStep(G, m)
    <3>1. G = [k \in 0 .. N |-> WalkStep(G, k)]
      BY <1>4
    <3>2. PICK GG : GG = [k \in 0 .. N |-> WalkStep(G, k)]
      OBVIOUS
    <3>3. GG[m] = WalkStep(G, m)
      BY <2>2, <3>2
    <3>. QED BY <3>1, <3>2, <3>3
  <2>5. WalkStep(G, m) = Prefix(L, m)
    BY <2>2, <2>3, PrefixStep
  <2>. QED BY <2>2, <2>4, <2>5
<1>5. Prefix(L, N) = L
  <2>1. /\ Prefix(L, N) \in Seq(Node) /\ Len(Prefix(L, N)) = Len(L)
        /\ \A i \in 1 .. Len(L) : Prefix(L, N)[i] = L[i]
    BY <1>1, PrefixFacts, LenProperties
  <2>. QED BY <2>1, SeqEqual
<1>6. P(CHOOSE G : P(G))
  <2>. HIDE DEF P, V
  <2>. QED BY <1>3
<1>7. (CHOOSE G : P(G))[N] = Prefix(L, N)
  <2>1. N \in 0 .. N
    BY <1>1
  <2>. HIDE DEF P, N
  <2>. QED BY <1>4, <1>6, <2>1
<1>. QED BY <1>2, <1>5, <1>7
---------------------------------------------------------------------------
(* The inductive invariant.  Its last part speaks of the sequence L of the *)
(* nodes that are linked.                                                  *)

\* an operation is looking its region up
Accesses == {"access", "id", "head", "element", "copied", "find"}

\* copies are not from the future, and the next change has an id
Ids ==
  /\ \A p \in Proc : copy_id[p] <= dynamic_id
  /\ pc[Owner] \in {"attach", "link", "fill", "detach", "search", "unlink"} => dynamic_id < MaxId

\* only the owner changes the list
OwnerPlaces == \A p \in Proc : pc[p] \in Changing => p = Owner

\* what is being attached is not attached yet
Attaching == pc[Owner] \in {"attach", "link", "fill"} => memory[region[Owner]] = 0

\* what is being accessed stays attached
Accessing ==
  \A p \in Proc :
    pc[p] \in Accesses => /\ memory[region[p]] # 0
                          /\ ~(pc[Owner] \in Changing /\ region[Owner] = region[p])

\* and is in the copy, with its present registration
Found ==
  \A p \in Proc :
    pc[p] \in {"copied", "find"} =>
      LET copy == remote_mem_regions[p] IN
      /\ \E k \in DOMAIN copy : copy[k][1] = region[p]
      /\ \A k \in DOMAIN copy : copy[k][1] = region[p] => copy[k][2] = memory[region[p]]

\* the nodes of L are the allocated ones, each once, and linked in its order
Linked(L) ==
  /\ \A j, k \in DOMAIN L : L[j] = L[k] => j = k
  /\ allocated = {L[k] : k \in DOMAIN L} /\ registered = allocated
  /\ L = << >> => win_dynamic_mem_regions = NULL /\ dynamic_last = NULL
  /\ L # << >> => /\ win_dynamic_mem_regions = L[1] /\ win_dynamic_mem_regions_seg = L[1]
                  /\ dynamic_last = L[Len(L)]
  /\ \A k \in 1 .. Len(L) - 1 : next[L[k]] = L[k + 1] /\ next_seg[L[k]] = L[k + 1]

\* the last node ends the list, once it is filled
Ended(L) ==
  /\ pc[Owner] = "fill" => L # << >>
  /\ pc[Owner] # "fill" /\ L # << >> => next[L[Len(L)]] = NULL

\* the places of nodes that are filled
Filled(L) == IF pc[Owner] = "fill" THEN 1 .. Len(L) - 1 ELSE 1 .. Len(L)

\* they hold the attached regions, each once, with their registrations
Contents(L) ==
  /\ \A k \in Filled(L) : memory[base[L[k]]] # 0 /\ seg[L[k]] = memory[base[L[k]]]
  /\ \A j, k \in Filled(L) : base[L[j]] = base[L[k]] => j = k
  /\ \A r \in Region : memory[r] # 0 => \E k \in Filled(L) : base[L[k]] = r

\* a copy of the first m nodes
CopyOf(L, m) == [k \in 1 .. m |-> <<base[L[k]], seg[L[k]]>>]

\* who copies has copied a part, at this dynamic_id, and is at the next node
Walks(L) ==
  \A p \in Proc :
    /\ pc[p] \in {"head", "element"} => copy_id[p] = dynamic_id
    /\ pc[p] = "head" => remote_mem_regions[p] = << >>
    /\ pc[p] = "element" =>
         \E m \in 0 .. Len(L) - 1 :
           /\ remote_mem_regions[p] = CopyOf(L, m)
           /\ current[p] = L[m + 1] /\ current_seg[p] = L[m + 1]

\* a copy that was finished at this dynamic_id is the list
Fresh(L) ==
  \A p \in Proc :
    pc[Owner] # "fill" /\ pc[p] \notin {"head", "element"} /\ copy_id[p] = dynamic_id
    => remote_mem_regions[p] = CopyOf(L, Len(L))

Good(L) == Linked(L) /\ Ended(L) /\ Contents(L) /\ Walks(L) /\ Fresh(L)

Invariant ==
  /\ OneInside /\ Ids /\ OwnerPlaces /\ Attaching /\ Accessing /\ Found
  /\ \E L \in Seq(Node) : Good(L)

---------------------------------------------------------------------------
(* List is L while no node is half linked: L is finite, as its nodes are   *)
(* different.                                                              *)
LEMMA ListIsL ==
  ASSUME NEW L \in Seq(Node), Linked(L), Ended(L), pc[Owner] # "fill"
  PROVE  List = L
<1>1. /\ Len(L) \in Nat /\ DOMAIN L = 1 .. Len(L)
      /\ L \in [1 .. Len(L) -> Node]
  BY LenProperties
<1>2. Len(L) <= Cardinality(Node)
  <2>1. IsFiniteSet(1 .. Len(L)) /\ Cardinality(1 .. Len(L)) = Len(L)
    BY <1>1, FS_Interval
  <2>2. L \in Injection(1 .. Len(L), Node)
    BY <1>1 DEF Linked, Injection, IsInjective
  <2>3. \E f \in [1 .. Len(L) -> Node] : f \in Injection(1 .. Len(L), Node)
    BY <1>1, <2>2
  <2>. QED BY <2>1, <2>2, BoundsAssumption, FS_Injection
<1>3. Chain(L)
  BY DEF Chain, Linked, Ended
<1>. QED BY <1>2, <1>3, ListIsChain

(* At the start there is the empty list.                                   *)
LEMMA InitInvariant == Init => Invariant
<1>. SUFFICES ASSUME Init PROVE Invariant
  OBVIOUS
<1>. USE NamesAssumption, BoundsAssumption
<1>1. /\ \A p \in Proc : pc[p] = "idle" /\ copy_id[p] = 0 /\ remote_mem_regions[p] = << >>
      /\ pc[Owner] = "idle" /\ dynamic_id = 0 /\ \A r \in Region : memory[r] = 0
      /\ allocated = {} /\ registered = {} /\ dynamic_last = NULL
      /\ win_dynamic_mem_regions = NULL
  BY DEF Init
<1>2. TypeOK
  <2>1. PICK r \in Region : base = [n \in Node |-> r] /\ region = [p \in Proc |-> r]
    BY DEF Init
  <2>2. remote_mem_regions \in [Proc -> Seq(Region \X (0 .. MaxId))]
    BY EmptySeq DEF Init
  <2>. QED BY <2>1, <2>2 DEF Init, TypeOK, Pointer, Waiting, Inside
<1>3. OneInside /\ Ids /\ OwnerPlaces /\ Attaching /\ Accessing /\ Found
  BY <1>1, <1>2 DEF OneInside, Ids, OwnerPlaces, Attaching, Accessing, Found, Inside, Changing,
     Accesses
<1>4. << >> \in Seq(Node) /\ Len(<< >>) = 0 /\ DOMAIN << >> = {}
  BY EmptySeq
<1>5. Linked(<< >>) /\ Ended(<< >>) /\ Contents(<< >>) /\ Walks(<< >>) /\ Fresh(<< >>)
  <2>1. CopyOf(<< >>, 0) = << >>
    BY DEF CopyOf
  <2>. QED BY <1>1, <1>4, <2>1 DEF Linked, Ended, Contents, Walks, Fresh, Filled
<1>. QED BY <1>3, <1>4, <1>5 DEF Invariant, Good
---------------------------------------------------------------------------
(* What an action that leaves the list alone leaves true of it.            *)
LEMMA Quiet ==
  ASSUME NEW L \in Seq(Node), Linked(L), Ended(L), Contents(L), UNCHANGED listVars,
         pc'[Owner] = "fill" <=> pc[Owner] = "fill"
  PROVE  Linked(L)' /\ Ended(L)' /\ Contents(L)'
<1>1. Filled(L)' = Filled(L)
  BY DEF Filled
<1>. QED BY <1>1 DEF Linked, Ended, Contents, listVars

(* And of the copies, if it leaves these alone, too.                       *)
LEMMA QuietCopies ==
  ASSUME NEW L, Walks(L), Fresh(L), UNCHANGED <<dynamic_id, listVars, copyVars, walkVars>>,
         pc'[Owner] = "fill" <=> pc[Owner] = "fill",
         \A x \in Proc : /\ pc'[x] = "head" <=> pc[x] = "head"
                         /\ pc'[x] = "element" <=> pc[x] = "element"
  PROVE  Walks(L)' /\ Fresh(L)'
<1>. USE DEF listVars, copyVars, walkVars
<1>1. \A m : CopyOf(L, m)' = CopyOf(L, m)
  BY DEF CopyOf
<1>2. Walks(L)'
  <2>. SUFFICES ASSUME NEW p \in Proc
                PROVE  /\ pc'[p] \in {"head", "element"} => copy_id'[p] = dynamic_id'
                       /\ pc'[p] = "head" => remote_mem_regions'[p] = << >>
                       /\ pc'[p] = "element" =>
                            \E m \in 0 .. Len(L) - 1 :
                              /\ remote_mem_regions'[p] = CopyOf(L, m)'
                              /\ current'[p] = L[m + 1] /\ current_seg'[p] = L[m + 1]
    BY DEF Walks
  <2>. QED BY <1>1 DEF Walks
<1>3. Fresh(L)'
  <2>. SUFFICES ASSUME NEW p \in Proc, pc'[Owner] # "fill", pc'[p] \notin {"head", "element"},
                       copy_id'[p] = dynamic_id'
                PROVE  remote_mem_regions'[p] = CopyOf(L, Len(L))'
    BY DEF Fresh
  <2>. QED BY <1>1 DEF Fresh
<1>. QED BY <1>2, <1>3

(* A step of one process moves no other.                                   *)
LEMMA PcStep ==
  ASSUME TypeOK, NEW p \in Proc, NEW w, Goto(p, w)
  PROVE  pc'[p] = w /\ \A x \in Proc : x # p => pc'[x] = pc[x]
BY DEF TypeOK, Goto

(* A call starts, for the owner's changes or for an access.                *)
LEMMA CallStep ==
  ASSUME Invariant, NEW p \in Proc, NEW what \in Waiting, NEW r \in Region, Call(p, what, r),
         what = "access" => /\ memory[r] # 0
                            /\ ~(pc[Owner] \in Changing /\ region[Owner] = r),
         what # "access" => /\ p = Owner /\ dynamic_id < MaxId
                            /\ \A x \in Proc : pc[x] \in Accesses => region[x] # r,
         what = "attach" => memory[r] = 0
  PROVE  Invariant'
<1>. USE NamesAssumption, BoundsAssumption
<1>1. PICK L \in Seq(Node) : Good(L)
  BY DEF Invariant
<1>2. /\ UNCHANGED <<dynamic_mutex, dynamic_id, listVars, copyVars, walkVars>>
      /\ pc[p] = "idle" /\ pc'[p] = what /\ (\A x \in Proc : x # p => pc'[x] = pc[x])
      /\ region'[p] = r /\ (\A x \in Proc : x # p => region'[x] = region[x])
      /\ TypeOK
  BY PcStep DEF Call, Invariant, OneInside, TypeOK
<1>3. what \in {"attach", "detach", "access"}
  BY DEF Waiting
<1>4. TypeOK'
  <2>1. pc' \in [Proc -> {"idle", "find"} \cup Waiting \cup Inside] /\ region' \in [Proc -> Region]
    BY <1>2 DEF Call, Goto, TypeOK
  <2>2. \A x \in Proc : pc'[x] = "element" => current'[x] \in Node
    BY <1>2, <1>3 DEF TypeOK, walkVars
  <2>. QED BY <1>2, <2>1, <2>2 DEF TypeOK, listVars, copyVars, walkVars
<1>5. OneInside'
  BY <1>2, <1>3, <1>4 DEF Invariant, OneInside, Inside
<1>6. Ids' /\ OwnerPlaces' /\ Attaching'
  BY <1>2, <1>3 DEF Invariant, Ids, OwnerPlaces, Attaching, Changing, listVars, copyVars
<1>7. Accessing'
  <2>. SUFFICES ASSUME NEW x \in Proc, pc'[x] \in Accesses
                PROVE  /\ memory[region'[x]] # 0
                       /\ ~(pc'[Owner] \in Changing /\ region'[Owner] = region'[x])
    BY <1>2 DEF Accessing, listVars
  <2>1. CASE what = "access"
    BY <1>2, <2>1 DEF Invariant, Accessing, Changing
  <2>2. CASE what # "access"
    <3>1. x # p /\ pc'[x] = pc[x] /\ region'[x] = region[x]
      BY <1>2, <1>3, <2>2 DEF Accesses
    <3>. QED BY <1>2, <2>2, <3>1 DEF Invariant, Accessing
  <2>. QED BY <2>1, <2>2
<1>8. Found'
  BY <1>2, <1>3 DEF Invariant, Found, listVars, copyVars
<1>9. Linked(L)' /\ Ended(L)' /\ Contents(L)'
  BY <1>1, <1>2, <1>3, Quiet DEF Good
<1>10. Walks(L)' /\ Fresh(L)'
  BY <1>1, <1>2, <1>3, QuietCopies DEF Good
<1>. QED BY <1>5, <1>6, <1>7, <1>8, <1>9, <1>10 DEF Invariant, Good

(* The mutex is taken.                                                     *)
LEMMA LockStep ==
  ASSUME Invariant, NEW p \in Proc, Lock(p)
  PROVE  Invariant'
<1>. USE NamesAssumption, BoundsAssumption
<1>1. PICK L \in Seq(Node) : Good(L)
  BY DEF Invariant
<1>2. PICK w : w = CASE pc[p] = "attach" -> "link" [] pc[p] = "detach" -> "search"
                     [] pc[p] = "access" -> "id"
  OBVIOUS
<1>3. /\ UNCHANGED <<dynamic_id, listVars, copyVars, region, walkVars>>
      /\ pc[p] \in Waiting /\ pc'[p] = w /\ (\A x \in Proc : x # p => pc'[x] = pc[x])
      /\ dynamic_mutex = MUTEX_NONE /\ dynamic_mutex' = p /\ TypeOK
      /\ pc' = [pc EXCEPT ![p] = w]
  BY <1>2, PcStep DEF Lock, Invariant, OneInside, Goto
<1>4. \/ pc[p] = "attach" /\ w = "link"
      \/ pc[p] = "detach" /\ w = "search"
      \/ pc[p] = "access" /\ w = "id"
  BY <1>2, <1>3 DEF Waiting
<1>5. TypeOK'
  <2>1. pc' \in [Proc -> {"idle", "find"} \cup Waiting \cup Inside]
    BY <1>3, <1>4 DEF TypeOK, Inside
  <2>2. \A x \in Proc : pc'[x] = "element" => current'[x] \in Node
    BY <1>3, <1>4 DEF TypeOK, walkVars
  <2>. QED BY <1>3, <2>1, <2>2 DEF TypeOK, listVars, copyVars, walkVars
<1>6. OneInside'
  <2>1. \A x \in Proc : pc[x] \notin Inside
    BY <1>3 DEF Invariant, OneInside
  <2>. QED BY <1>3, <1>5, <2>1 DEF OneInside
<1>7. Ids' /\ OwnerPlaces' /\ Attaching'
  BY <1>3, <1>4 DEF Invariant, Ids, OwnerPlaces, Attaching, Changing, listVars, copyVars
<1>8. \A x \in Proc : /\ pc'[x] \in Accesses <=> pc[x] \in Accesses
                      /\ pc'[x] \in Changing <=> pc[x] \in Changing
  BY <1>3, <1>4 DEF Accesses, Changing
<1>9. Accessing'
  BY <1>3, <1>8 DEF Invariant, Accessing, listVars
<1>10. Found'
  BY <1>3, <1>4 DEF Invariant, Found, listVars, copyVars
<1>11. Linked(L)' /\ Ended(L)' /\ Contents(L)'
  BY <1>1, <1>3, <1>4, Quiet DEF Good
<1>12. Walks(L)' /\ Fresh(L)'
  BY <1>1, <1>3, <1>4, QuietCopies DEF Good
<1>. QED BY <1>6, <1>7, <1>9, <1>10, <1>11, <1>12 DEF Invariant, Good

(* The mutex is given back.                                                *)
LEMMA ReleaseStep ==
  ASSUME Invariant, NEW p \in Proc, Release(p)
  PROVE  Invariant'
<1>. USE NamesAssumption, BoundsAssumption
<1>1. PICK L \in Seq(Node) : Good(L)
  BY DEF Invariant
<1>2. PICK w : w = IF pc[p] = "copied" THEN "find" ELSE "idle"
  OBVIOUS
<1>3. /\ UNCHANGED <<dynamic_id, listVars, copyVars, region, walkVars>>
      /\ pc[p] \in {"release", "copied"} /\ pc'[p] = w
      /\ (\A x \in Proc : x # p => pc'[x] = pc[x])
      /\ TypeOK /\ pc' = [pc EXCEPT ![p] = w]
      /\ dynamic_mutex' = MUTEX_NONE /\ dynamic_mutex = p
  BY <1>2, PcStep DEF Release, Invariant, OneInside, Goto, Inside
<1>4. \/ pc[p] = "copied" /\ w = "find"
      \/ pc[p] = "release" /\ w = "idle"
  BY <1>2, <1>3
<1>5. TypeOK'
  <2>1. pc' \in [Proc -> {"idle", "find"} \cup Waiting \cup Inside]
    BY <1>3, <1>4 DEF TypeOK
  <2>2. \A x \in Proc : pc'[x] = "element" => current'[x] \in Node
    BY <1>3, <1>4 DEF TypeOK, walkVars
  <2>. QED BY <1>3, <2>1, <2>2 DEF TypeOK, listVars, copyVars, walkVars
<1>6. OneInside'
  <2>1. \A x \in Proc : x # p => pc[x] \notin Inside
    BY <1>3 DEF Invariant, OneInside
  <2>2. \A x \in Proc : pc'[x] \notin Inside
    BY <1>3, <1>4, <2>1 DEF Inside
  <2>. QED BY <1>5, <2>2 DEF OneInside
<1>7. Ids' /\ OwnerPlaces' /\ Attaching'
  BY <1>3, <1>4 DEF Invariant, Ids, OwnerPlaces, Attaching, Changing, listVars, copyVars
<1>8. \A x \in Proc : /\ pc'[x] \in Accesses <=> pc[x] \in Accesses
                      /\ pc'[x] \in Changing => pc[x] \in Changing
  BY <1>3, <1>4 DEF Accesses, Changing
<1>9. Accessing'
  BY <1>3, <1>8 DEF Invariant, Accessing, listVars
<1>10. Found'
  BY <1>3, <1>4 DEF Invariant, Found, listVars, copyVars
<1>11. Linked(L)' /\ Ended(L)' /\ Contents(L)'
  BY <1>1, <1>3, <1>4, Quiet DEF Good
<1>12. Walks(L)' /\ Fresh(L)'
  BY <1>1, <1>3, <1>4, QuietCopies DEF Good
<1>. QED BY <1>6, <1>7, <1>9, <1>10, <1>11, <1>12 DEF Invariant, Good

(* An operation looks its region up.                                       *)
LEMMA FindStep ==
  ASSUME Invariant, NEW p \in Proc, Find(p)
  PROVE  Invariant'
<1>. USE NamesAssumption, BoundsAssumption
<1>1. PICK L \in Seq(Node) : Good(L)
  BY DEF Invariant
<1>2. /\ UNCHANGED <<dynamic_mutex, dynamic_id, listVars, copyVars, region, current, current_seg>>
      /\ pc[p] = "find" /\ pc'[p] = "idle" /\ (\A x \in Proc : x # p => pc'[x] = pc[x])
      /\ TypeOK /\ pc' = [pc EXCEPT ![p] = "idle"]
  BY PcStep DEF Find, Invariant, OneInside, Goto
<1>3. used' \in [Proc -> 0 .. MaxId]
  <2>. DEFINE copy == remote_mem_regions[p]
  <2>1. copy \in Seq(Region \X (0 .. MaxId))
    BY <1>2 DEF TypeOK
  <2>2. \A k \in DOMAIN copy : copy[k][2] \in 0 .. MaxId
    BY <2>1, ElementOfSeq, LenProperties
  <2>3. \E v \in 0 .. MaxId : used' = [used EXCEPT ![p] = v]
    BY <2>2 DEF Find
  <2>. QED BY <1>2, <2>3 DEF TypeOK
<1>4. TypeOK'
  <2>1. pc' \in [Proc -> {"idle", "find"} \cup Waiting \cup Inside]
    BY <1>2 DEF TypeOK
  <2>2. \A x \in Proc : pc'[x] = "element" => current'[x] \in Node
    BY <1>2 DEF TypeOK
  <2>. QED BY <1>2, <1>3, <2>1, <2>2 DEF TypeOK, listVars, copyVars
<1>5. OneInside'
  BY <1>2, <1>4 DEF Invariant, OneInside, Inside
<1>6. Ids' /\ OwnerPlaces' /\ Attaching'
  BY <1>2 DEF Invariant, Ids, OwnerPlaces, Attaching, Changing, listVars, copyVars
<1>7. \A x \in Proc : /\ pc'[x] \in Accesses => pc[x] \in Accesses
                      /\ pc'[x] \in Changing => pc[x] \in Changing
  BY <1>2 DEF Accesses, Changing
<1>8. Accessing'
  BY <1>2, <1>7 DEF Invariant, Accessing, listVars
<1>9. Found'
  BY <1>2 DEF Invariant, Found, listVars, copyVars
<1>10. Linked(L)' /\ Ended(L)' /\ Contents(L)'
  BY <1>1, <1>2, Quiet DEF Good
<1>11. Walks(L)' /\ Fresh(L)'
  <2>1. \A m : CopyOf(L, m)' = CopyOf(L, m)
    BY <1>2 DEF CopyOf, listVars
  <2>2. Walks(L)'
    <3>. SUFFICES ASSUME NEW x \in Proc
                  PROVE  /\ pc'[x] \in {"head", "element"} => copy_id'[x] = dynamic_id'
                         /\ pc'[x] = "head" => remote_mem_regions'[x] = << >>
                         /\ pc'[x] = "element" =>
                              \E m \in 0 .. Len(L) - 1 :
                                /\ remote_mem_regions'[x] = CopyOf(L, m)'
                                /\ current'[x] = L[m + 1] /\ current_seg'[x] = L[m + 1]
      BY DEF Walks
    <3>. QED BY <1>1, <1>2, <2>1 DEF Good, Walks, copyVars
  <2>3. Fresh(L)'
    <3>. SUFFICES ASSUME NEW x \in Proc, pc'[Owner] # "fill", pc'[x] \notin {"head", "element"},
                         copy_id'[x] = dynamic_id'
                  PROVE  remote_mem_regions'[x] = CopyOf(L, Len(L))'
      BY DEF Fresh
    <3>. QED BY <1>1, <1>2, <2>1 DEF Good, Fresh, copyVars
  <2>. QED BY <2>2, <2>3
<1>. QED BY <1>5, <1>6, <1>8, <1>9, <1>10, <1>11 DEF Invariant, Good

(* The owner looks for the node to unlink.                                 *)
LEMMA SearchStep ==
  ASSUME Invariant, Search
  PROVE  Invariant'
<1>. USE NamesAssumption, BoundsAssumption
<1>1. PICK L \in Seq(Node) : Good(L)
  BY DEF Invariant
<1>2. PICK w : w = IF Positions(region[Owner]) = {} THEN "idle" ELSE "unlink"
  OBVIOUS
<1>3. /\ UNCHANGED <<dynamic_mutex, dynamic_id, listVars, copyVars, region, walkVars>>
      /\ pc[Owner] = "search" /\ pc'[Owner] = w
      /\ (\A x \in Proc : x # Owner => pc'[x] = pc[x])
      /\ TypeOK /\ pc' = [pc EXCEPT ![Owner] = w]
  BY <1>2, PcStep DEF Search, Invariant, OneInside, Goto
<1>4. w \in {"idle", "unlink"}
  BY <1>2
<1>5. TypeOK'
  <2>1. pc' \in [Proc -> {"idle", "find"} \cup Waiting \cup Inside]
    BY <1>3, <1>4 DEF TypeOK, Inside
  <2>2. \A x \in Proc : pc'[x] = "element" => current'[x] \in Node
    BY <1>3, <1>4 DEF TypeOK, walkVars
  <2>. QED BY <1>3, <2>1, <2>2 DEF TypeOK, listVars, copyVars, walkVars
<1>6. OneInside'
  BY <1>3, <1>4, <1>5 DEF Invariant, OneInside, Inside
<1>7. Ids' /\ OwnerPlaces' /\ Attaching'
  BY <1>3, <1>4 DEF Invariant, Ids, OwnerPlaces, Attaching, Changing, listVars, copyVars
<1>8. \A x \in Proc : /\ pc'[x] \in Accesses => pc[x] \in Accesses
                      /\ pc'[x] \in Changing => pc[x] \in Changing
  BY <1>3, <1>4 DEF Accesses, Changing
<1>9. Accessing'
  BY <1>3, <1>8 DEF Invariant, Accessing, listVars
<1>10. Found'
  BY <1>3, <1>4 DEF Invariant, Found, listVars, copyVars
<1>11. Linked(L)' /\ Ended(L)' /\ Contents(L)'
  BY <1>1, <1>3, <1>4, Quiet DEF Good
<1>12. Walks(L)' /\ Fresh(L)'
  BY <1>1, <1>3, <1>4, QuietCopies DEF Good
<1>. QED BY <1>6, <1>7, <1>9, <1>10, <1>11, <1>12 DEF Invariant, Good

(* Whoever holds the mutex to read the list, nobody changes it.            *)
LEMMA Excluded ==
  ASSUME OneInside, NEW p \in Proc, pc[p] \in {"id", "head", "element"}
  PROVE  /\ pc[Owner] \notin {"link", "fill", "search", "unlink", "release"}
         /\ \A x \in Proc : pc[x] \in Inside => x = p
<1>1. \A x \in Proc : pc[x] \in Inside => x = p
  BY DEF OneInside, Inside
<1>2. pc[Owner] \in Inside => Owner = p
  BY <1>1, NamesAssumption
<1>. QED BY <1>1, <1>2 DEF Inside

(* A copy of the whole list holds every attached region, once, by its      *)
(* present registration.                                                   *)
LEMMA CopyFinds ==
  ASSUME TypeOK, NEW L \in Seq(Node), Linked(L), Contents(L), pc[Owner] # "fill",
         NEW r \in Region, memory[r] # 0, NEW copy, copy = CopyOf(L, Len(L))
  PROVE  /\ \E k \in DOMAIN copy : copy[k][1] = r
         /\ \A k \in DOMAIN copy : copy[k][1] = r => copy[k][2] = memory[r]
<1>1. DOMAIN copy = 1 .. Len(L) /\ Filled(L) = 1 .. Len(L)
  BY DEF CopyOf, Filled
<1>2. \A k \in 1 .. Len(L) : copy[k][1] = base[L[k]] /\ copy[k][2] = seg[L[k]]
  BY DEF CopyOf
<1>3. PICK k \in 1 .. Len(L) : base[L[k]] = r
  BY <1>1 DEF Contents
<1>4. \A j \in 1 .. Len(L) : base[L[j]] = r => seg[L[j]] = memory[r]
  BY <1>1 DEF Contents
<1>. QED BY <1>1, <1>2, <1>3, <1>4

(* A copy is found to be fresh, or dropped.                                *)
LEMMA GetIdStep ==
  ASSUME Invariant, NEW p \in Proc, GetId(p)
  PROVE  Invariant'
<1>. USE NamesAssumption, BoundsAssumption
<1>1. PICK L \in Seq(Node) : Good(L)
  BY DEF Invariant
<1>2. PICK w : w = IF dynamic_id = copy_id[p] THEN "copied" ELSE "head"
  OBVIOUS
<1>3. /\ UNCHANGED <<dynamic_mutex, dynamic_id, listVars, region, walkVars>>
      /\ pc[p] = "id" /\ pc'[p] = w /\ (\A x \in Proc : x # p => pc'[x] = pc[x])
      /\ TypeOK /\ pc' = [pc EXCEPT ![p] = w] /\ w \in {"copied", "head"}
  BY <1>2, PcStep DEF GetId, Invariant, OneInside, Goto
<1>4. /\ w = "copied" => dynamic_id = copy_id[p] /\ UNCHANGED copyVars
      /\ w = "head" => copy_id'[p] = dynamic_id /\ remote_mem_regions'[p] = << >>
      /\ \A x \in Proc : x # p => /\ copy_id'[x] = copy_id[x]
                                  /\ remote_mem_regions'[x] = remote_mem_regions[x]
      /\ copy_id' \in [Proc -> 0 .. MaxId]
      /\ remote_mem_regions' \in [Proc -> Seq(Region \X (0 .. MaxId))]
  <2>1. CASE dynamic_id = copy_id[p]
    BY <1>2, <1>3, <2>1 DEF GetId, copyVars, TypeOK
  <2>2. CASE dynamic_id # copy_id[p]
    <3>1. << >> \in Seq(Region \X (0 .. MaxId))
      BY EmptySeq
    <3>2. /\ copy_id' = [copy_id EXCEPT ![p] = dynamic_id]
          /\ remote_mem_regions' = [remote_mem_regions EXCEPT ![p] = << >>]
          /\ w = "head"
      BY <1>2, <2>2 DEF GetId
    <3>. QED BY <1>3, <3>1, <3>2 DEF TypeOK
  <2>. QED BY <2>1, <2>2
<1>5. /\ pc[Owner] # "fill" /\ pc'[Owner] # "fill"
      /\ \A x \in Proc : x # p => pc[x] \notin {"head", "element"}
  BY <1>3, Excluded DEF Invariant, Inside
<1>6. TypeOK'
  <2>1. pc' \in [Proc -> {"idle", "find"} \cup Waiting \cup Inside]
    BY <1>3 DEF TypeOK, Inside
  <2>2. \A x \in Proc : pc'[x] = "element" => current'[x] \in Node
    BY <1>3 DEF TypeOK, walkVars
  <2>. QED BY <1>3, <1>4, <2>1, <2>2 DEF TypeOK, listVars, walkVars
<1>7. OneInside'
  BY <1>3, <1>6 DEF Invariant, OneInside, Inside
<1>8. Ids'
  <2>1. dynamic_id \in Nat /\ \A x \in Proc : copy_id[x] <= dynamic_id
    BY <1>3 DEF Invariant, Ids, TypeOK
  <2>2. \A x \in Proc : copy_id'[x] = copy_id[x] \/ copy_id'[x] = dynamic_id
    BY <1>3, <1>4 DEF copyVars
  <2>3. \A x \in Proc : copy_id'[x] <= dynamic_id
    BY <2>1, <2>2
  <2>4. pc'[Owner] \notin {"attach", "link", "fill", "detach", "search", "unlink"} \/ pc'[Owner] = pc[Owner]
    BY <1>3
  <2>. QED BY <1>3, <2>3, <2>4 DEF Invariant, Ids
<1>9. OwnerPlaces' /\ Attaching'
  BY <1>3 DEF Invariant, OwnerPlaces, Attaching, Changing, listVars
<1>10. \A x \in Proc : /\ pc'[x] \in Accesses => pc[x] \in Accesses
                       /\ pc'[x] \in Changing => pc[x] \in Changing
  BY <1>3 DEF Accesses, Changing
<1>11. Accessing'
  BY <1>3, <1>10 DEF Invariant, Accessing, listVars
<1>12. Found'
  <2>. SUFFICES ASSUME NEW x \in Proc, pc'[x] \in {"copied", "find"}, 
                       NEW copy, copy = remote_mem_regions'[x]
                PROVE  /\ \E k \in DOMAIN copy : copy[k][1] = region'[x]
                       /\ \A k \in DOMAIN copy : copy[k][1] = region'[x]
                                                 => copy[k][2] = memory'[region'[x]]
    BY SMTT(60) DEF Found
  <2>1. CASE x = p
    <3>1. w = "copied" /\ copy = remote_mem_regions[p] /\ dynamic_id = copy_id[p]
      BY <1>3, <1>4, <2>1 DEF copyVars
    <3>2. copy = CopyOf(L, Len(L))
      BY <1>1, <1>3, <1>5, <3>1 DEF Good, Fresh
    <3>3. memory[region[p]] # 0 /\ region[p] \in Region
      BY <1>3 DEF Invariant, Accessing, Accesses, TypeOK
    <3>4. /\ \E k \in DOMAIN copy : copy[k][1] = region[p]
          /\ \A k \in DOMAIN copy : copy[k][1] = region[p] => copy[k][2] = memory[region[p]]
      BY <1>1, <1>3, <1>5, <3>2, <3>3, CopyFinds DEF Good
    <3>5. memory' = memory /\ region' = region
      BY <1>3 DEF listVars
    <3>. QED BY <2>1, <3>4, <3>5
  <2>2. CASE x # p
    <3>1. pc[x] \in {"copied", "find"} /\ copy = remote_mem_regions[x]
      BY <1>3, <1>4, <2>2
    <3>2. memory' = memory /\ region' = region
      BY <1>3 DEF listVars
    <3>. QED BY <3>1, <3>2 DEF Invariant, Found
  <2>. QED BY <2>1, <2>2
<1>13. Linked(L)' /\ Ended(L)' /\ Contents(L)'
  BY <1>1, <1>3, <1>5, Quiet DEF Good
<1>14. \A m : CopyOf(L, m)' = CopyOf(L, m)
  BY <1>3 DEF CopyOf, listVars
<1>15. Walks(L)'
  <2>. SUFFICES ASSUME NEW x \in Proc
                PROVE  /\ pc'[x] \in {"head", "element"} => copy_id'[x] = dynamic_id'
                       /\ pc'[x] = "head" => remote_mem_regions'[x] = << >>
                       /\ pc'[x] = "element" =>
                            \E m \in 0 .. Len(L) - 1 :
                              /\ remote_mem_regions'[x] = CopyOf(L, m)'
                              /\ current'[x] = L[m + 1] /\ current_seg'[x] = L[m + 1]
    BY DEF Walks
  <2>. QED BY <1>3, <1>4, <1>5
<1>16. Fresh(L)'
  <2>. SUFFICES ASSUME NEW x \in Proc, pc'[Owner] # "fill", pc'[x] \notin {"head", "element"},
                       copy_id'[x] = dynamic_id'
                PROVE  remote_mem_regions'[x] = CopyOf(L, Len(L))'
    BY DEF Fresh
  <2>. QED BY <1>1, <1>3, <1>4, <1>5, <1>14 DEF Good, Fresh, copyVars
<1>. QED BY <1>7, <1>8, <1>9, <1>11, <1>12, <1>13, <1>15, <1>16 DEF Invariant, Good

(* A walk starts.                                                          *)
LEMMA GetHeadStep ==
  ASSUME Invariant, NEW p \in Proc, GetHead(p)
  PROVE  Invariant'
<1>. USE NamesAssumption, BoundsAssumption
<1>1. PICK L \in Seq(Node) : Good(L)
  BY DEF Invariant
<1>2. PICK w : w = IF win_dynamic_mem_regions = NULL THEN "copied" ELSE "element"
  OBVIOUS
<1>3. /\ UNCHANGED <<dynamic_mutex, dynamic_id, listVars, copyVars, region, used>>
      /\ pc[p] = "head" /\ pc'[p] = w /\ (\A x \in Proc : x # p => pc'[x] = pc[x])
      /\ TypeOK /\ pc' = [pc EXCEPT ![p] = w] /\ w \in {"copied", "element"}
  BY <1>2, PcStep DEF GetHead, Invariant, OneInside, Goto
<1>4. /\ current'[p] = win_dynamic_mem_regions /\ current_seg'[p] = win_dynamic_mem_regions_seg
      /\ \A x \in Proc : x # p => current'[x] = current[x] /\ current_seg'[x] = current_seg[x]
      /\ current' \in [Proc -> Pointer] /\ current_seg' \in [Proc -> Pointer]
  BY <1>3 DEF GetHead, TypeOK
<1>5. /\ pc[Owner] # "fill" /\ pc'[Owner] # "fill"
      /\ \A x \in Proc : x # p => pc[x] \notin {"head", "element"}
  BY <1>3, Excluded DEF Invariant, Inside
<1>6. /\ copy_id[p] = dynamic_id /\ remote_mem_regions[p] = << >>
      /\ Len(L) \in Nat
      /\ (w = "copied" <=> L = << >>) /\ (L = << >> <=> Len(L) = 0)
      /\ L # << >> => win_dynamic_mem_regions = L[1] /\ win_dynamic_mem_regions_seg = L[1]
                      /\ L[1] \in Node
  BY <1>1, <1>2, <1>3, Lengths DEF Good, Walks, Linked
<1>7. CopyOf(L, 0) = << >>
  BY DEF CopyOf
<1>8. TypeOK'
  <2>1. pc' \in [Proc -> {"idle", "find"} \cup Waiting \cup Inside]
    BY <1>3 DEF TypeOK, Inside
  <2>2. \A x \in Proc : pc'[x] = "element" => current'[x] \in Node
    BY <1>3, <1>4, <1>6 DEF TypeOK
  <2>. QED BY <1>3, <1>4, <2>1, <2>2 DEF TypeOK, listVars, copyVars
<1>9. OneInside'
  BY <1>3, <1>8 DEF Invariant, OneInside, Inside
<1>10. Ids' /\ OwnerPlaces' /\ Attaching'
  BY <1>3 DEF Invariant, Ids, OwnerPlaces, Attaching, Changing, listVars, copyVars
<1>11. \A x \in Proc : /\ pc'[x] \in Accesses => pc[x] \in Accesses
                       /\ pc'[x] \in Changing => pc[x] \in Changing
  BY <1>3 DEF Accesses, Changing
<1>12. Accessing'
  BY <1>3, <1>11 DEF Invariant, Accessing, listVars
<1>13. Found'
  <2>1. w = "element"
    <3>1. memory[region[p]] # 0 /\ region[p] \in Region
      BY <1>3 DEF Invariant, Accessing, Accesses, TypeOK
    <3>2. \E k \in Filled(L) : base[L[k]] = region[p]
      BY <1>1, <3>1 DEF Good, Contents
    <3>3. L # << >>
      BY <1>5, <1>6, <3>2 DEF Filled
    <3>. QED BY <1>3, <1>6, <3>3
  <2>. QED BY <1>3, <2>1 DEF Invariant, Found, listVars, copyVars
<1>14. Linked(L)' /\ Ended(L)' /\ Contents(L)'
  BY <1>1, <1>3, <1>5, Quiet DEF Good
<1>15. \A m : CopyOf(L, m)' = CopyOf(L, m)
  BY <1>3 DEF CopyOf, listVars
<1>16. Walks(L)'
  <2>. SUFFICES ASSUME NEW x \in Proc
                PROVE  /\ pc'[x] \in {"head", "element"} => copy_id'[x] = dynamic_id'
                       /\ pc'[x] = "head" => remote_mem_regions'[x] = << >>
                       /\ pc'[x] = "element" =>
                            \E m \in 0 .. Len(L) - 1 :
                              /\ remote_mem_regions'[x] = CopyOf(L, m)'
                              /\ current'[x] = L[m + 1] /\ current_seg'[x] = L[m + 1]
    BY DEF Walks
  <2>1. CASE x # p
    BY <1>3, <1>5, <2>1
  <2>2. CASE x = p
    <3>1. pc'[x] # "head" /\ copy_id'[x] = dynamic_id'
      BY <1>3, <1>6, <2>2 DEF copyVars
    <3>2. ASSUME pc'[x] = "element"
          PROVE  /\ 0 \in 0 .. Len(L) - 1
                 /\ remote_mem_regions'[x] = CopyOf(L, 0)'
                 /\ current'[x] = L[0 + 1] /\ current_seg'[x] = L[0 + 1]
      BY <1>3, <1>4, <1>6, <1>7, <1>15, <2>2, <3>2 DEF copyVars
    <3>. QED BY <3>1, <3>2
  <2>. QED BY <2>1, <2>2
<1>17. Fresh(L)'
  <2>. SUFFICES ASSUME NEW x \in Proc, pc'[Owner] # "fill", pc'[x] \notin {"head", "element"},
                       copy_id'[x] = dynamic_id'
                PROVE  remote_mem_regions'[x] = CopyOf(L, Len(L))'
    BY DEF Fresh
  <2>1. CASE x # p
    BY <1>1, <1>3, <1>5, <1>15, <2>1 DEF Good, Fresh, copyVars
  <2>2. CASE x = p
    BY <1>3, <1>6, <1>7, <1>15, <2>2 DEF copyVars
  <2>. QED BY <2>1, <2>2
<1>. QED BY <1>9, <1>10, <1>12, <1>13, <1>14, <1>16, <1>17 DEF Invariant, Good

(* A copy of m nodes and the next one are a copy of m + 1 nodes.           *)
LEMMA CopyAppend ==
  ASSUME TypeOK, NEW L \in Seq(Node), NEW m \in 0 .. Len(L) - 1
  PROVE  /\ CopyOf(L, m) \in Seq(Region \X (0 .. MaxId))
         /\ <<base[L[m + 1]], seg[L[m + 1]]>> \in Region \X (0 .. MaxId)
         /\ Append(CopyOf(L, m), <<base[L[m + 1]], seg[L[m + 1]]>>) = CopyOf(L, m + 1)
<1>. DEFINE T == Region \X (0 .. MaxId)
<1>1. /\ Len(L) \in Nat /\ m \in Nat /\ m + 1 \in 1 .. Len(L)
      /\ \A k \in 1 .. Len(L) : <<base[L[k]], seg[L[k]]>> \in T
  BY Lengths DEF TypeOK
<1>2. ASSUME NEW i \in Nat, i <= Len(L)
      PROVE  /\ CopyOf(L, i) \in Seq(T) /\ Len(CopyOf(L, i)) = i
             /\ \A k \in 1 .. i : CopyOf(L, i)[k] = <<base[L[k]], seg[L[k]]>>
  <2>1. CopyOf(L, i) \in [1 .. i -> T]
    BY <1>1, <1>2 DEF CopyOf
  <2>2. CopyOf(L, i) \in Seq(T)
    BY <2>1, <1>2, SeqDef
  <2>3. DOMAIN CopyOf(L, i) = 1 .. i
    BY DEF CopyOf
  <2>4. Len(CopyOf(L, i)) = i
    BY <1>2, <2>2, <2>3, LenProperties
  <2>. QED BY <2>2, <2>4 DEF CopyOf
<1>3. PICK e \in T : e = <<base[L[m + 1]], seg[L[m + 1]]>>
  BY <1>1
<1>. HIDE DEF T
<1>4. /\ CopyOf(L, m) \in Seq(T) /\ Len(CopyOf(L, m)) = m
      /\ \A k \in 1 .. m : CopyOf(L, m)[k] = <<base[L[k]], seg[L[k]]>>
  BY <1>1, <1>2
<1>5. /\ CopyOf(L, m + 1) \in Seq(T) /\ Len(CopyOf(L, m + 1)) = m + 1
      /\ \A k \in 1 .. m + 1 : CopyOf(L, m + 1)[k] = <<base[L[k]], seg[L[k]]>>
  BY <1>1, <1>2
<1>6. PICK c \in Seq(T) : c = CopyOf(L, m)
  BY <1>4
<1>7. /\ Append(c, e) \in Seq(T) /\ Len(Append(c, e)) = m + 1
      /\ \A k \in 1 .. m : Append(c, e)[k] = c[k]
      /\ Append(c, e)[m + 1] = e
  BY <1>4, <1>6, AppendProperties
<1>8. ASSUME NEW k \in 1 .. m + 1 PROVE Append(c, e)[k] = CopyOf(L, m + 1)[k]
  <2>1. k \in 1 .. m \/ k = m + 1
    BY <1>1
  <2>. QED BY <1>3, <1>4, <1>5, <1>6, <1>7, <2>1
<1>9. Append(c, e) = CopyOf(L, m + 1)
  BY <1>5, <1>7, <1>8, SeqEqual
<1>. QED BY <1>3, <1>4, <1>6, <1>9 DEF T

(* A walk reads a node.                                                    *)
LEMMA GetElementStep ==
  ASSUME Invariant, NEW p \in Proc, GetElement(p)
  PROVE  Invariant'
<1>. USE NamesAssumption, BoundsAssumption
<1>1. PICK L \in Seq(Node) : Good(L)
  BY DEF Invariant
<1>2. pc[p] = "element" /\ TypeOK
  BY DEF GetElement, Invariant, OneInside
<1>3. PICK m \in 0 .. Len(L) - 1 :
         /\ remote_mem_regions[p] = CopyOf(L, m)
         /\ current[p] = L[m + 1] /\ current_seg[p] = L[m + 1]
  BY <1>1, <1>2 DEF Good, Walks
<1>4. PICK n : n = L[m + 1]
  OBVIOUS
<1>5. /\ n \in Node /\ n = current[p] /\ Len(L) \in Nat /\ L # << >>
      /\ m + 1 \in 1 .. Len(L) /\ m \in Nat
  BY <1>3, <1>4, Lengths
<1>6. PICK w : w = IF next[n] = NULL THEN "copied" ELSE "element"
  OBVIOUS
<1>7. /\ UNCHANGED <<dynamic_mutex, dynamic_id, listVars, copy_id, region, used>>
      /\ pc'[p] = w /\ (\A x \in Proc : x # p => pc'[x] = pc[x])
      /\ pc' = [pc EXCEPT ![p] = w] /\ w \in {"copied", "element"}
  BY <1>2, <1>5, <1>6, PcStep DEF GetElement, Goto
<1>8. /\ current'[p] = next[n] /\ current_seg'[p] = next_seg[n]
      /\ \A x \in Proc : x # p => current'[x] = current[x] /\ current_seg'[x] = current_seg[x]
      /\ current' \in [Proc -> Pointer] /\ current_seg' \in [Proc -> Pointer]
  BY <1>2, <1>5 DEF GetElement, TypeOK
<1>9. /\ CopyOf(L, m) \in Seq(Region \X (0 .. MaxId))
      /\ <<base[n], seg[n]>> \in Region \X (0 .. MaxId)
      /\ Append(CopyOf(L, m), <<base[n], seg[n]>>) = CopyOf(L, m + 1)
  BY <1>2, <1>4, CopyAppend
<1>10. /\ remote_mem_regions' = [remote_mem_regions EXCEPT ![p] = CopyOf(L, m + 1)]
       /\ CopyOf(L, m + 1) \in Seq(Region \X (0 .. MaxId))
  <2>1. remote_mem_regions' = [remote_mem_regions EXCEPT ![p] = Append(CopyOf(L, m), <<base[n], seg[n]>>)]
    BY <1>3, <1>5 DEF GetElement
  <2>2. Append(CopyOf(L, m), <<base[n], seg[n]>>) \in Seq(Region \X (0 .. MaxId))
    BY <1>9, AppendProperties
  <2>. QED BY <1>9, <2>1, <2>2
<1>11. /\ remote_mem_regions'[p] = CopyOf(L, m + 1)
       /\ \A x \in Proc : x # p => remote_mem_regions'[x] = remote_mem_regions[x]
       /\ remote_mem_regions' \in [Proc -> Seq(Region \X (0 .. MaxId))]
  BY <1>2, <1>10 DEF TypeOK
<1>12. /\ pc[Owner] # "fill" /\ pc'[Owner] # "fill"
       /\ \A x \in Proc : x # p => pc[x] \notin {"head", "element"}
  BY <1>2, <1>7, Excluded DEF Invariant, Inside
<1>13. /\ w = "copied" => m + 1 = Len(L)
       /\ w = "element" => /\ m + 1 <= Len(L) - 1 /\ next[n] = L[m + 2] /\ next_seg[n] = L[m + 2]
                           /\ L[m + 2] \in Node
  <2>1. CASE m + 1 = Len(L)
    <3>1. next[n] = NULL
      BY <1>1, <1>4, <1>5, <1>12, <2>1 DEF Good, Ended
    <3>. QED BY <1>6, <2>1, <3>1
  <2>2. CASE m + 1 # Len(L)
    <3>1. m + 1 \in 1 .. Len(L) - 1 /\ m + 2 \in 1 .. Len(L) /\ (m + 1) + 1 = m + 2
      BY <1>5, <2>2
    <3>2. next[n] = L[m + 2] /\ next_seg[n] = L[m + 2]
      BY <1>1, <1>4, <3>1 DEF Good, Linked
    <3>3. L[m + 2] \in Node
      BY <3>1, Lengths
    <3>. QED BY <1>6, <3>1, <3>2, <3>3
  <2>. QED BY <2>1, <2>2
<1>14. TypeOK'
  <2>1. pc' \in [Proc -> {"idle", "find"} \cup Waiting \cup Inside]
    BY <1>2, <1>7 DEF TypeOK, Inside
  <2>2. \A x \in Proc : pc'[x] = "element" => current'[x] \in Node
    BY <1>2, <1>7, <1>8, <1>13 DEF TypeOK
  <2>. QED BY <1>2, <1>7, <1>8, <1>11, <2>1, <2>2 DEF TypeOK, listVars
<1>15. OneInside'
  BY <1>2, <1>7, <1>14 DEF Invariant, OneInside, Inside
<1>16. Ids' /\ OwnerPlaces' /\ Attaching'
  BY <1>2, <1>7 DEF Invariant, Ids, OwnerPlaces, Attaching, Changing, listVars
<1>17. \A x \in Proc : /\ pc'[x] \in Accesses => pc[x] \in Accesses
                       /\ pc'[x] \in Changing => pc[x] \in Changing
  BY <1>2, <1>7 DEF Accesses, Changing
<1>18. Accessing'
  BY <1>7, <1>17 DEF Invariant, Accessing, listVars
<1>19. memory' = memory /\ region' = region
  BY <1>7 DEF listVars
<1>20. Found'
  <2>. SUFFICES ASSUME NEW x \in Proc, pc'[x] \in {"copied", "find"},
                       NEW copy, copy = remote_mem_regions'[x]
                PROVE  /\ \E k \in DOMAIN copy : copy[k][1] = region'[x]
                       /\ \A k \in DOMAIN copy : copy[k][1] = region'[x]
                                                 => copy[k][2] = memory'[region'[x]]
    BY ZenonT(60) DEF Found
  <2>1. CASE x = p
    <3>1. copy = CopyOf(L, Len(L))
      BY <1>7, <1>11, <1>13, <2>1
    <3>2. memory[region[p]] # 0 /\ region[p] \in Region
      BY <1>2 DEF Invariant, Accessing, Accesses, TypeOK
    <3>3. /\ \E k \in DOMAIN copy : copy[k][1] = region[p]
          /\ \A k \in DOMAIN copy : copy[k][1] = region[p] => copy[k][2] = memory[region[p]]
      BY <1>1, <1>2, <1>12, <3>1, <3>2, CopyFinds DEF Good
    <3>. QED BY <1>19, <2>1, <3>3
  <2>2. CASE x # p
    <3>1. pc[x] \in {"copied", "find"} /\ copy = remote_mem_regions[x]
      BY <1>7, <1>11, <2>2
    <3>. QED BY <1>19, <3>1 DEF Invariant, Found
  <2>. QED BY <2>1, <2>2
<1>21. Linked(L)' /\ Ended(L)' /\ Contents(L)'
  BY <1>1, <1>7, <1>12, Quiet DEF Good
<1>22. \A i : CopyOf(L, i)' = CopyOf(L, i)
  BY <1>7 DEF CopyOf, listVars
<1>23. copy_id[p] = dynamic_id
  BY <1>1, <1>2 DEF Good, Walks
<1>24. Walks(L)'
  <2>. SUFFICES ASSUME NEW x \in Proc
                PROVE  /\ pc'[x] \in {"head", "element"} => copy_id'[x] = dynamic_id'
                       /\ pc'[x] = "head" => remote_mem_regions'[x] = << >>
                       /\ pc'[x] = "element" =>
                            \E i \in 0 .. Len(L) - 1 :
                              /\ remote_mem_regions'[x] = CopyOf(L, i)'
                              /\ current'[x] = L[i + 1] /\ current_seg'[x] = L[i + 1]
    BY DEF Walks
  <2>1. CASE x # p
    BY <1>7, <1>12, <2>1
  <2>2. CASE x = p
    <3>1. pc'[x] # "head" /\ copy_id'[x] = dynamic_id'
      BY <1>7, <1>23, <2>2
    <3>2. ASSUME pc'[x] = "element"
          PROVE  /\ m + 1 \in 0 .. Len(L) - 1
                 /\ remote_mem_regions'[x] = CopyOf(L, m + 1)'
                 /\ current'[x] = L[(m + 1) + 1] /\ current_seg'[x] = L[(m + 1) + 1]
      <4>1. m + 1 \in 0 .. Len(L) - 1 /\ (m + 1) + 1 = m + 2
        BY <1>5, <1>7, <1>13, <2>2, <3>2
      <4>. QED BY <1>7, <1>8, <1>11, <1>13, <1>22, <2>2, <3>2, <4>1
    <3>. QED BY <3>1, <3>2
  <2>. QED BY <2>1, <2>2
<1>25. Fresh(L)'
  <2>. SUFFICES ASSUME NEW x \in Proc, pc'[Owner] # "fill", pc'[x] \notin {"head", "element"},
                       copy_id'[x] = dynamic_id'
                PROVE  remote_mem_regions'[x] = CopyOf(L, Len(L))'
    BY DEF Fresh
  <2>1. CASE x # p
    BY <1>1, <1>7, <1>11, <1>12, <1>22, <2>1 DEF Good, Fresh
  <2>2. CASE x = p
    BY <1>7, <1>11, <1>13, <1>22, <2>2
  <2>. QED BY <2>1, <2>2
<1>. QED BY <1>15, <1>16, <1>18, <1>20, <1>21, <1>24, <1>25 DEF Invariant, Good

---------------------------------------------------------------------------
(* The owner changes the list.                                             *)

(* While it does, nobody copies the list.                                  *)
LEMMA NobodyWalks ==
  ASSUME OneInside, pc[Owner] \in {"link", "fill", "unlink"}
  PROVE  \A x \in Proc : pc[x] \notin {"head", "element"}
BY NamesAssumption DEF OneInside, Inside

(* A node is linked in, at the end.                                        *)
LEMMA AttachLinkStep ==
  ASSUME Invariant, AttachLink
  PROVE  Invariant'
<1>. USE NamesAssumption, BoundsAssumption
<1>1. PICK L \in Seq(Node) : Good(L)
  BY DEF Invariant
<1>2. /\ UNCHANGED <<dynamic_mutex, dynamic_id, base, seg, memory, copyVars, region, walkVars>>
      /\ pc[Owner] = "link" /\ pc'[Owner] = "fill"
      /\ (\A x \in Proc : x # Owner => pc'[x] = pc[x])
      /\ TypeOK /\ pc' = [pc EXCEPT ![Owner] = "fill"]
  BY PcStep DEF AttachLink, Invariant, OneInside, Goto
<1>3. PICK n \in Node \ allocated :
       /\ allocated' = allocated \cup {n} /\ registered' = registered \cup {n}
       /\ dynamic_last' = n
       /\ \/ /\ dynamic_last = NULL
             /\ win_dynamic_mem_regions' = n /\ win_dynamic_mem_regions_seg' = n
             /\ UNCHANGED <<next, next_seg>>
          \/ /\ dynamic_last # NULL
             /\ next' = [next EXCEPT ![dynamic_last] = n]
             /\ next_seg' = [next_seg EXCEPT ![dynamic_last] = n]
             /\ UNCHANGED <<win_dynamic_mem_regions, win_dynamic_mem_regions_seg>>
  BY DEF AttachLink
<1>4. /\ Len(L) \in Nat /\ DOMAIN L = 1 .. Len(L) /\ (L = << >> <=> Len(L) = 0)
      /\ \A k \in 1 .. Len(L) : L[k] \in Node
  BY Lengths
<1>5. PICK K \in Seq(Node) : /\ Len(K) = Len(L) + 1 /\ K[Len(L) + 1] = n
                             /\ \A k \in 1 .. Len(L) : K[k] = L[k]
  <2>1. n \in Node
    BY <1>3
  <2>2. /\ Append(L, n) \in Seq(Node) /\ Len(Append(L, n)) = Len(L) + 1
        /\ Append(L, n)[Len(L) + 1] = n
        /\ \A k \in 1 .. Len(L) : Append(L, n)[k] = L[k]
    BY <2>1, AppendProperties
  <2>. QED BY <2>2
<1>6. DOMAIN K = 1 .. Len(L) + 1 /\ K # << >> /\ Len(K) - 1 = Len(L)
  BY <1>4, <1>5, Lengths
<1>7. TypeOK'
  <2>1. pc' \in [Proc -> {"idle", "find"} \cup Waiting \cup Inside]
    BY <1>2 DEF TypeOK, Inside
  <2>2. \A x \in Proc : pc'[x] = "element" => current'[x] \in Node
    BY <1>2 DEF TypeOK, walkVars
  <2>3. next' \in [Node -> Pointer] /\ next_seg' \in [Node -> Pointer]
    <3>1. n \in Pointer /\ next \in [Node -> Pointer] /\ next_seg \in [Node -> Pointer]
      BY <1>2, <1>3 DEF TypeOK, Pointer
    <3>. QED BY <1>3, <3>1
  <2>4. /\ win_dynamic_mem_regions' \in Pointer /\ win_dynamic_mem_regions_seg' \in Pointer
        /\ dynamic_last' \in Pointer /\ allocated' \subseteq Node /\ registered' \subseteq Node
    BY <1>2, <1>3 DEF TypeOK, Pointer
  <2>. QED BY <1>2, <2>1, <2>2, <2>3, <2>4 DEF TypeOK, copyVars, walkVars
<1>8. OneInside'
  BY <1>2, <1>7 DEF Invariant, OneInside, Inside
<1>9. Ids' /\ OwnerPlaces' /\ Attaching'
  BY <1>2 DEF Invariant, Ids, OwnerPlaces, Attaching, Changing, copyVars
<1>10. \A x \in Proc : /\ pc'[x] \in Accesses => pc[x] \in Accesses
                       /\ pc'[x] \in Changing => pc[x] \in Changing
  BY <1>2 DEF Accesses, Changing
<1>11. Accessing'
  BY <1>2, <1>10 DEF Invariant, Accessing
<1>12. Found'
  BY <1>2 DEF Invariant, Found, copyVars
<1>13. dynamic_last = NULL <=> L = << >>
  <2>1. L # << >> => dynamic_last = L[Len(L)] /\ L[Len(L)] \in Node
    BY <1>1, <1>4 DEF Good, Linked
  <2>. QED BY <1>1, <2>1 DEF Good, Linked
<1>14. Linked(K)'
  <2>1. \A j, k \in DOMAIN K : K[j] = K[k] => j = k
    <3>1. \A k \in 1 .. Len(L) : K[k] \in allocated
      BY <1>1, <1>4, <1>5 DEF Good, Linked
    <3>2. \A k \in DOMAIN K : k \in 1 .. Len(L) \/ k = Len(L) + 1
      BY <1>4, <1>6
    <3>3. \A j, k \in 1 .. Len(L) : K[j] = K[k] => j = k
      BY <1>1, <1>4, <1>5 DEF Good, Linked
    <3>. QED BY <1>3, <1>5, <3>1, <3>2, <3>3
  <2>2. allocated' = {K[k] : k \in DOMAIN K} /\ registered' = allocated'
    <3>1. allocated = {L[k] : k \in 1 .. Len(L)} /\ registered = allocated
      BY <1>1, <1>4 DEF Good, Linked
    <3>2. \A k : k \in DOMAIN K <=> k \in 1 .. Len(L) \/ k = Len(L) + 1
      BY <1>4, <1>6
    <3>. QED BY <1>3, <1>5, <3>1, <3>2
  <2>3. K # << >> /\ dynamic_last' = K[Len(K)]
    BY <1>3, <1>5, <1>6
  <2>4. win_dynamic_mem_regions' = K[1] /\ win_dynamic_mem_regions_seg' = K[1]
    <3>1. CASE L = << >>
      BY <1>3, <1>4, <1>5, <1>13, <3>1
    <3>2. CASE L # << >>
      <4>1. 1 \in 1 .. Len(L)
        BY <1>4, <3>2
      <4>. QED BY <1>1, <1>3, <1>5, <1>13, <3>2, <4>1 DEF Good, Linked
    <3>. QED BY <3>1, <3>2
  <2>5. \A k \in 1 .. Len(K) - 1 : next'[K[k]] = K[k + 1] /\ next_seg'[K[k]] = K[k + 1]
    <3>. SUFFICES ASSUME NEW k \in 1 .. Len(L) PROVE next'[K[k]] = K[k + 1] /\ next_seg'[K[k]] = K[k + 1]
      BY <1>6
    <3>1. L # << >> /\ dynamic_last = L[Len(L)] /\ K[k] = L[k] /\ L[k] \in Node /\ Len(L) \in 1 .. Len(L)
      BY <1>1, <1>4, <1>5 DEF Good, Linked
    <3>2. next' = [next EXCEPT ![dynamic_last] = n] /\ next_seg' = [next_seg EXCEPT ![dynamic_last] = n]
      BY <1>3, <1>13, <3>1
    <3>3. next \in [Node -> Pointer] /\ next_seg \in [Node -> Pointer]
      BY <1>2 DEF TypeOK
    <3>4. CASE k = Len(L)
      BY <1>5, <3>1, <3>2, <3>3, <3>4
    <3>5. CASE k # Len(L)
      <4>1. k \in 1 .. Len(L) - 1 /\ k + 1 \in 1 .. Len(L)
        <5>1. Len(L) \in Nat
          BY <1>4
        <5>2. k \in Nat /\ 1 <= k /\ k <= Len(L)
          BY <5>1
        <5>. QED BY <3>5, <5>1, <5>2
      <4>2. L[k] # L[Len(L)]
        BY <1>1, <1>4, <3>1, <3>5 DEF Good, Linked
      <4>3. next[L[k]] = L[k + 1] /\ next_seg[L[k]] = L[k + 1]
        BY <1>1, <4>1 DEF Good, Linked
      <4>. QED BY <1>5, <3>1, <3>2, <3>3, <4>1, <4>2, <4>3
    <3>. QED BY <3>4, <3>5
  <2>. QED BY <2>1, <2>2, <2>3, <2>4, <2>5 DEF Linked
<1>15. Ended(K)'
  BY <1>2, <1>6 DEF Ended
<1>16. Contents(K)'
  <2>1. Filled(K)' = 1 .. Len(L) /\ Filled(L) = 1 .. Len(L)
    BY <1>2, <1>6 DEF Filled
  <2>2. \A k \in 1 .. Len(L) : K[k] = L[k]
    BY <1>5
  <2>3. base' = base /\ seg' = seg /\ memory' = memory
    BY <1>2
  <2>. QED BY <1>1, <2>1, <2>2, <2>3 DEF Good, Contents
<1>17. Walks(K)'
  BY <1>2, NobodyWalks DEF Walks, Invariant
<1>18. Fresh(K)'
  BY <1>2 DEF Fresh
<1>. QED BY <1>8, <1>9, <1>11, <1>12, <1>14, <1>15, <1>16, <1>17, <1>18 DEF Invariant, Good

(* It is filled.                                                           *)
LEMMA AttachFillStep ==
  ASSUME Invariant, AttachFill
  PROVE  Invariant'
<1>. USE NamesAssumption, BoundsAssumption
<1>1. PICK L \in Seq(Node) : Good(L)
  BY DEF Invariant
<1>2. /\ UNCHANGED <<dynamic_mutex, win_dynamic_mem_regions, win_dynamic_mem_regions_seg,
                     dynamic_last, next_seg, allocated, registered, copyVars, region, walkVars>>
      /\ pc[Owner] = "fill" /\ pc'[Owner] = "release"
      /\ (\A x \in Proc : x # Owner => pc'[x] = pc[x])
      /\ TypeOK /\ pc' = [pc EXCEPT ![Owner] = "release"]
      /\ dynamic_id' = dynamic_id + 1
  BY PcStep DEF AttachFill, Invariant, OneInside, Goto
<1>3. PICK r \in Region : r = region[Owner]
  BY <1>2 DEF TypeOK
<1>4. /\ Len(L) \in Nat /\ DOMAIN L = 1 .. Len(L)
      /\ \A k \in 1 .. Len(L) : L[k] \in Node
  BY Lengths
<1>5. L # << >> /\ Len(L) \in 1 .. Len(L) /\ dynamic_last = L[Len(L)] /\ dynamic_last \in Node
  <2>1. L # << >>
    BY <1>1, <1>2 DEF Good, Ended
  <2>2. Len(L) # 0
    BY <2>1, Lengths
  <2>. QED BY <1>1, <1>4, <2>1, <2>2 DEF Good, Linked
<1>6. dynamic_id \in Nat /\ dynamic_id < MaxId /\ dynamic_id + 1 \in 0 .. MaxId /\ memory[r] = 0
  BY <1>2, <1>3 DEF Invariant, Ids, Attaching, TypeOK
<1>7. /\ base' = [base EXCEPT ![dynamic_last] = r] /\ base \in [Node -> Region]
      /\ seg' = [seg EXCEPT ![dynamic_last] = dynamic_id + 1] /\ seg \in [Node -> 0 .. MaxId]
      /\ memory' = [memory EXCEPT ![r] = dynamic_id + 1] /\ memory \in [Region -> 0 .. MaxId]
      /\ next' = [next EXCEPT ![dynamic_last] = NULL] /\ next \in [Node -> Pointer]
  BY <1>2, <1>3 DEF AttachFill, TypeOK
<1>8. /\ base'[dynamic_last] = r /\ seg'[dynamic_last] = dynamic_id + 1
      /\ next'[dynamic_last] = NULL /\ memory'[r] = dynamic_id + 1
      /\ \A n \in Node : n # dynamic_last => base'[n] = base[n] /\ seg'[n] = seg[n] /\ next'[n] = next[n]
      /\ \A x \in Region : x # r => memory'[x] = memory[x]
  BY <1>5, <1>7
<1>9. TypeOK'
  <2>1. pc' \in [Proc -> {"idle", "find"} \cup Waiting \cup Inside]
    BY <1>2 DEF TypeOK, Inside
  <2>2. \A x \in Proc : pc'[x] = "element" => current'[x] \in Node
    BY <1>2 DEF TypeOK, walkVars
  <2>3. /\ base' \in [Node -> Region] /\ seg' \in [Node -> 0 .. MaxId]
        /\ memory' \in [Region -> 0 .. MaxId] /\ next' \in [Node -> Pointer]
    BY <1>6, <1>7 DEF Pointer
  <2>. QED BY <1>2, <1>6, <2>1, <2>2, <2>3 DEF TypeOK, copyVars, walkVars
<1>10. OneInside'
  BY <1>2, <1>9 DEF Invariant, OneInside, Inside
<1>11. Ids'
  <2>1. \A x \in Proc : copy_id'[x] \in Nat /\ copy_id'[x] <= dynamic_id
    BY <1>2 DEF Invariant, Ids, TypeOK, copyVars
  <2>2. \A x \in Proc : copy_id'[x] <= dynamic_id + 1
    BY <1>6, <2>1
  <2>. QED BY <1>2, <2>2 DEF Ids
<1>12. OwnerPlaces' /\ Attaching'
  BY <1>2 DEF Invariant, OwnerPlaces, Attaching, Changing
<1>13. \A x \in Proc : /\ pc'[x] \in Accesses => pc[x] \in Accesses
                       /\ pc'[x] \in Changing => pc[x] \in Changing
  BY <1>2 DEF Accesses, Changing
<1>14. \A x \in Proc : pc[x] \in Accesses => region[x] # r /\ region[x] \in Region
  BY <1>2, <1>3 DEF Invariant, Accessing, Changing, TypeOK
<1>15. Accessing'
  <2>1. \A x \in Proc : pc'[x] \in Accesses => memory'[region'[x]] # 0
    BY <1>2, <1>8, <1>13, <1>14 DEF Invariant, Accessing
  <2>. QED BY <1>2, <1>13, <2>1 DEF Invariant, Accessing
<1>16. Found'
  <2>1. \A x \in Proc : pc'[x] \in {"copied", "find"} => pc[x] \in {"copied", "find"}
    BY <1>2
  <2>2. \A x \in Proc : pc'[x] \in {"copied", "find"} => memory'[region[x]] = memory[region[x]]
    BY <1>8, <1>14, <2>1 DEF Accesses
  <2>3. region' = region /\ remote_mem_regions' = remote_mem_regions
    BY <1>2 DEF copyVars
  <2>. QED BY <2>1, <2>2, <2>3 DEF Invariant, Found
<1>17. \A k \in 1 .. Len(L) - 1 :
         k \in 1 .. Len(L) /\ L[k] \in Node /\ L[k] # dynamic_last /\ k # Len(L)
  <2>. SUFFICES ASSUME NEW k \in 1 .. Len(L) - 1
                PROVE  k \in 1 .. Len(L) /\ L[k] \in Node /\ L[k] # dynamic_last /\ k # Len(L)
    OBVIOUS
  <2>1. Len(L) \in Nat
    BY <1>4
  <2>2. k \in 1 .. Len(L) /\ k # Len(L)
    BY <2>1
  <2>. QED BY <1>1, <1>4, <1>5, <2>2 DEF Good, Linked
<1>18. Linked(L)'
  <2>1. \A k \in 1 .. Len(L) - 1 : next'[L[k]] = L[k + 1] /\ next_seg'[L[k]] = L[k + 1]
    BY <1>1, <1>2, <1>8, <1>17 DEF Good, Linked
  <2>. QED BY <1>1, <1>2, <2>1 DEF Good, Linked
<1>19. Ended(L)'
  BY <1>2, <1>5, <1>8 DEF Ended
<1>20. Contents(L)'
  <2>1. Filled(L)' = 1 .. Len(L) /\ Filled(L) = 1 .. Len(L) - 1
    BY <1>2 DEF Filled
  <2>2. \A k \in 1 .. Len(L) : k \in 1 .. Len(L) - 1 \/ k = Len(L)
    <3>1. Len(L) \in Nat
      BY <1>4
    <3>. QED BY <3>1
  <2>3. \A k \in 1 .. Len(L) - 1 :
          /\ base'[L[k]] = base[L[k]] /\ seg'[L[k]] = seg[L[k]]
          /\ base[L[k]] \in Region /\ base[L[k]] # r
          /\ memory'[base[L[k]]] = memory[base[L[k]]]
    <3>. SUFFICES ASSUME NEW k \in 1 .. Len(L) - 1
                  PROVE  /\ base'[L[k]] = base[L[k]] /\ seg'[L[k]] = seg[L[k]]
                         /\ base[L[k]] \in Region /\ base[L[k]] # r
                         /\ memory'[base[L[k]]] = memory[base[L[k]]]
      OBVIOUS
    <3>1. base'[L[k]] = base[L[k]] /\ seg'[L[k]] = seg[L[k]] /\ base[L[k]] \in Region
      BY ZenonT(60), <1>7, <1>8, <1>17
    <3>2. memory[base[L[k]]] # 0
      BY <1>1, <2>1 DEF Good, Contents
    <3>. QED BY <1>6, <1>8, <3>1, <3>2
  <2>4. base'[L[Len(L)]] = r /\ seg'[L[Len(L)]] = memory'[r] /\ memory'[r] # 0
    BY <1>5, <1>6, <1>8
  <2>5. \A k \in 1 .. Len(L) : memory'[base'[L[k]]] # 0 /\ seg'[L[k]] = memory'[base'[L[k]]]
    <3>. SUFFICES ASSUME NEW k \in 1 .. Len(L)
                  PROVE  memory'[base'[L[k]]] # 0 /\ seg'[L[k]] = memory'[base'[L[k]]]
      OBVIOUS
    <3>1. CASE k \in 1 .. Len(L) - 1
      BY <1>1, <2>1, <2>3, <3>1 DEF Good, Contents
    <3>. QED BY <2>2, <2>4, <3>1
  <2>6. \A j, k \in 1 .. Len(L) : base'[L[j]] = base'[L[k]] => j = k
    <3>1. \A j, k \in 1 .. Len(L) - 1 : base[L[j]] = base[L[k]] => j = k
      BY <1>1, <2>1 DEF Good, Contents
    <3>. QED BY <2>2, <2>3, <2>4, <3>1
  <2>7. \A x \in Region : memory'[x] # 0 => \E k \in 1 .. Len(L) : base'[L[k]] = x
    <3>. SUFFICES ASSUME NEW x \in Region, memory'[x] # 0
                  PROVE  \E k \in 1 .. Len(L) : base'[L[k]] = x
      OBVIOUS
    <3>1. CASE x = r
      BY <1>5, <2>4, <3>1
    <3>2. CASE x # r
      <4>1. PICK k \in 1 .. Len(L) - 1 : base[L[k]] = x
        BY <1>1, <1>8, <2>1, <3>2 DEF Good, Contents
      <4>. QED BY <1>17, <2>3, <4>1
    <3>. QED BY <3>1, <3>2
  <2>. QED BY <2>1, <2>5, <2>6, <2>7 DEF Contents
<1>21. Walks(L)'
  BY <1>2, NobodyWalks DEF Walks, Invariant
<1>22. Fresh(L)'
  <2>1. \A x \in Proc : copy_id'[x] \in Nat /\ copy_id'[x] <= dynamic_id
    BY <1>2 DEF Invariant, Ids, TypeOK, copyVars
  <2>2. \A x \in Proc : copy_id'[x] # dynamic_id'
    BY <1>2, <1>6, <2>1
  <2>. QED BY <2>2 DEF Fresh
<1>. QED BY <1>10, <1>11, <1>12, <1>15, <1>16, <1>18, <1>19, <1>20, <1>21, <1>22 DEF Invariant, Good

(* A node is unlinked.                                                     *)
LEMMA UnlinkStep ==
  ASSUME Invariant, Unlink
  PROVE  Invariant'
<1>. USE NamesAssumption, BoundsAssumption
<1>1. PICK L \in Seq(Node) : Good(L)
  BY DEF Invariant
<1>2. /\ UNCHANGED <<dynamic_mutex, base, seg, copyVars, region, walkVars>>
      /\ pc[Owner] = "unlink" /\ pc'[Owner] = "release"
      /\ (\A x \in Proc : x # Owner => pc'[x] = pc[x])
      /\ TypeOK /\ pc' = [pc EXCEPT ![Owner] = "release"]
      /\ dynamic_id' = dynamic_id + 1
  BY PcStep DEF Unlink, Invariant, OneInside, Goto
<1>3. PICK r \in Region : r = region[Owner]
  BY <1>2 DEF TypeOK
<1>4. Len(L) \in Nat
  BY Lengths
<1>5. DOMAIN L = 1 .. Len(L) /\ \A i \in 1 .. Len(L) : L[i] \in Node
  BY Lengths
<1>6. List = L
  BY <1>1, <1>2, ListIsL DEF Good
<1>7. PICK k \in 1 .. Len(L) :
        /\ base[L[k]] = r
        /\ allocated' = allocated \ {L[k]}
        /\ \/ k = 1 /\ UnlinkFirst
           \/ k > 1 /\ UnlinkLater(L[k], L[k - 1])
  <2>1. PICK k \in Positions(r) :
          /\ allocated' = allocated \ {L[k]}
          /\ \/ k = 1 /\ UnlinkFirst
             \/ k > 1 /\ UnlinkLater(L[k], L[k - 1])
    BY <1>3, <1>6 DEF Unlink
  <2>2. k \in 1 .. Len(L) /\ base[L[k]] = r
    BY <1>5, <1>6, <2>1 DEF Positions
  <2>. QED BY <2>1, <2>2
<1>8. k \in Nat /\ 1 <= k /\ k <= Len(L)
  BY <1>4
<1>9. PICK K \in Seq(Node) :
        /\ Len(K) = Len(L) - 1
        /\ \A i \in 1 .. k - 1 : K[i] = L[i]
        /\ \A i \in k .. Len(L) - 1 : K[i] = L[i + 1]
        /\ \A i, j \in DOMAIN K : K[i] = K[j] => i = j
        /\ {K[i] : i \in DOMAIN K} = {L[i] : i \in DOMAIN L} \ {L[k]}
  <2>1. \A i, j \in DOMAIN L : L[i] = L[j] => i = j
    BY <1>1 DEF Good, Linked
  <2>2. PICK K \in Seq(Node) : Without(L, k, K) /\ NoRepeats(K) /\ Elements(K) = Elements(L) \ {L[k]}
    BY <2>1, WithoutElement DEF NoRepeats
  <2>. QED BY <2>2 DEF Without, NoRepeats, Elements
<1>10. DOMAIN K = 1 .. Len(K)
  BY Lengths
<1>11. K = << >> <=> Len(K) = 0
  BY Lengths
<1>12. /\ L # << >> /\ win_dynamic_mem_regions = L[1] /\ win_dynamic_mem_regions_seg = L[1]
       /\ dynamic_last = L[Len(L)] /\ next[L[Len(L)]] = NULL /\ dynamic_last \in Node
       /\ 1 \in 1 .. Len(L) /\ Len(L) \in 1 .. Len(L)
       /\ registered = allocated /\ allocated = {L[i] : i \in DOMAIN L}
       /\ L[1] \in Node /\ L[k] \in Node
  <2>1. Len(L) # 0 /\ 1 \in 1 .. Len(L) /\ Len(L) \in 1 .. Len(L)
    BY <1>4, <1>8
  <2>2. L # << >>
    BY <2>1, Lengths
  <2>. QED BY <1>1, <1>2, <1>5, <2>1, <2>2 DEF Good, Linked, Ended
<1>13. \A i, j \in 1 .. Len(L) : L[i] = L[j] => i = j
  BY <1>1, <1>5 DEF Good, Linked
<1>14. \A i \in 1 .. Len(L) - 1 : next[L[i]] = L[i + 1] /\ next_seg[L[i]] = L[i + 1]
  BY <1>1 DEF Good, Linked
<1>15. next \in [Node -> Pointer] /\ next_seg \in [Node -> Pointer]
  BY <1>2 DEF TypeOK
<1>16. dynamic_id \in Nat /\ dynamic_id < MaxId /\ dynamic_id + 1 \in 0 .. MaxId
  BY <1>2 DEF Invariant, Ids, TypeOK
<1>17. memory' = [memory EXCEPT ![r] = 0] /\ memory \in [Region -> 0 .. MaxId]
  BY <1>2, <1>3 DEF Unlink, TypeOK
<1>18. memory'[r] = 0 /\ \A x \in Region : x # r => memory'[x] = memory[x]
  BY <1>17
(* What becomes of the pointers, by where the node was.                    *)
<1>19. /\ registered' = allocated'
       /\ K = << >> => win_dynamic_mem_regions' = NULL /\ dynamic_last' = NULL
       /\ K # << >> => /\ win_dynamic_mem_regions' = K[1] /\ win_dynamic_mem_regions_seg' = K[1]
                       /\ dynamic_last' = K[Len(K)] /\ next'[K[Len(K)]] = NULL
       /\ \A i \in 1 .. Len(K) - 1 : next'[K[i]] = K[i + 1] /\ next_seg'[K[i]] = K[i + 1]
       /\ win_dynamic_mem_regions' \in Pointer /\ win_dynamic_mem_regions_seg' \in Pointer
       /\ dynamic_last' \in Pointer
       /\ next' \in [Node -> Pointer] /\ next_seg' \in [Node -> Pointer]
  <2>1. CASE k = 1 /\ Len(L) = 1
    <3>1. K = << >> /\ Len(K) = 0
      BY <1>9, <1>11, <2>1
    <3>2. UnlinkFirst /\ List[1] = dynamic_last
      BY <1>6, <1>7, <1>12, <2>1
    <3>3. registered' = allocated'
      BY <1>7, <1>12, <2>1, <3>2 DEF UnlinkFirst
    <3>4. /\ dynamic_last' = NULL /\ win_dynamic_mem_regions' = NULL
          /\ UNCHANGED <<win_dynamic_mem_regions_seg, next, next_seg>>
      BY <3>2 DEF UnlinkFirst
    <3>. QED BY <1>12, <1>15, <3>1, <3>3, <3>4 DEF Pointer
  <2>2. CASE k = 1 /\ Len(L) > 1
    <3>1. /\ Len(K) \in Nat /\ Len(K) > 0 /\ K # << >> /\ Len(K) = Len(L) - 1
          /\ Len(K) \in 1 .. Len(L) - 1 /\ 1 \in 1 .. Len(L) - 1
      BY <1>4, <1>9, <1>11, <2>2
    <3>2. UnlinkFirst /\ List[1] # dynamic_last /\ List[1] = L[1]
      BY <1>4, <1>6, <1>7, <1>12, <1>13, <2>2
    <3>3. registered' = allocated'
      BY <1>7, <1>12, <2>2, <3>2 DEF UnlinkFirst
    <3>4. /\ win_dynamic_mem_regions' = L[2] /\ win_dynamic_mem_regions_seg' = L[2]
          /\ next' = next /\ next_seg' = next_seg /\ dynamic_last' = dynamic_last
      <4>1. next[L[1]] = L[2] /\ next_seg[L[1]] = L[2]
        BY <1>14, <3>1
      <4>. QED BY <3>2, <4>1 DEF UnlinkFirst
    <3>5. \A i \in 1 .. Len(L) - 1 : K[i] = L[i + 1]
      BY <1>9, <2>2
    <3>6. K[1] = L[2] /\ K[Len(K)] = L[Len(L)] /\ L[2] \in Node
      <4>1. 2 \in 1 .. Len(L) /\ Len(K) + 1 = Len(L)
        BY <1>4, <2>2, <3>1
      <4>. QED BY <1>5, <3>1, <3>5, <4>1
    <3>7. \A i \in 1 .. Len(K) - 1 : next[K[i]] = K[i + 1] /\ next_seg[K[i]] = K[i + 1]
      <4>. SUFFICES ASSUME NEW i \in 1 .. Len(K) - 1
                    PROVE  next[K[i]] = K[i + 1] /\ next_seg[K[i]] = K[i + 1]
        OBVIOUS
      <4>1. i \in 1 .. Len(L) - 1 /\ i + 1 \in 1 .. Len(L) - 1
        BY <1>4, <3>1
      <4>. QED BY <1>14, <3>5, <4>1
    <3>8. dynamic_last' = K[Len(K)] /\ next'[K[Len(K)]] = NULL
      BY <1>12, <3>4, <3>6
    <3>9. /\ win_dynamic_mem_regions' \in Pointer /\ win_dynamic_mem_regions_seg' \in Pointer
          /\ dynamic_last' \in Pointer
      BY <1>12, <3>4, <3>6 DEF Pointer
    <3>. QED BY <1>15, <3>1, <3>3, <3>4, <3>6, <3>7, <3>8, <3>9
  <2>3. CASE k > 1
    <3>1. /\ Len(K) \in Nat /\ Len(K) > 0 /\ K # << >> /\ Len(K) = Len(L) - 1
          /\ k - 1 \in 1 .. Len(L) - 1 /\ k - 1 \in 1 .. Len(L) /\ k - 1 \in 1 .. k - 1
          /\ 1 \in 1 .. k - 1 /\ (k - 1) + 1 = k
      BY <1>4, <1>8, <1>9, <1>11, <2>3
    <3>2. PICK m \in Node : m = L[k - 1]
      BY <1>5, <3>1
    <3>3. UnlinkLater(L[k], m)
      BY <1>7, <1>8, <2>3, <3>2
    <3>4. next_seg[m] = L[k] /\ next[m] = L[k]
      BY <1>14, <3>1, <3>2
    <3>5. registered' = allocated'
      BY <1>7, <1>12, <3>3, <3>4 DEF UnlinkLater
    <3>6. /\ win_dynamic_mem_regions' = L[1] /\ win_dynamic_mem_regions_seg' = L[1] /\ K[1] = L[1]
          /\ L[1] \in Pointer
      BY <1>9, <1>12, <3>1, <3>3 DEF UnlinkLater, Pointer
    <3>7. CASE k = Len(L)
      <4>1. L[k] = dynamic_last
        BY <1>12, <3>7
      <4>2. dynamic_last' = m /\ next' = [next EXCEPT ![m] = NULL] /\ next_seg' = next_seg
        BY <1>13, <3>3, <4>1 DEF UnlinkLater
      <4>3. K[Len(K)] = m
        BY <1>9, <3>1, <3>2, <3>7
      <4>4. next'[m] = NULL /\ (\A n \in Node : n # m => next'[n] = next[n])
        BY <1>15, <4>2
      <4>5. \A i \in 1 .. Len(K) - 1 : next'[K[i]] = K[i + 1] /\ next_seg'[K[i]] = K[i + 1]
        <5>. SUFFICES ASSUME NEW i \in 1 .. Len(K) - 1
                      PROVE  next'[K[i]] = K[i + 1] /\ next_seg'[K[i]] = K[i + 1]
          OBVIOUS
        <5>1. /\ i \in 1 .. Len(L) - 1 /\ i \in 1 .. k - 1 /\ i + 1 \in 1 .. k - 1 /\ i # k - 1
              /\ i \in 1 .. Len(L)
          BY <1>4, <1>8, <3>1, <3>7
        <5>2. L[i] # m /\ L[i] \in Node /\ K[i] = L[i] /\ K[i + 1] = L[i + 1]
          BY <1>5, <1>9, <1>13, <3>1, <3>2, <5>1
        <5>. QED BY <1>14, <4>2, <4>4, <5>1, <5>2
      <4>6. next' \in [Node -> Pointer] /\ dynamic_last' \in Pointer
        BY <1>15, <4>2 DEF Pointer
      <4>. QED BY <1>15, <3>1, <3>5, <3>6, <4>2, <4>3, <4>4, <4>5, <4>6
    <3>8. CASE k # Len(L)
      <4>1. L[k] # dynamic_last
        BY <1>12, <1>13, <3>8
      <4>2. k \in 1 .. Len(L) - 1 /\ k + 1 \in 1 .. Len(L) /\ k \in k .. Len(L) - 1
        BY <1>4, <1>8, <3>8
      <4>3. next[L[k]] = L[k + 1] /\ next_seg[L[k]] = L[k + 1] /\ L[k + 1] \in Node
        BY <1>5, <1>14, <4>2
      <4>4. /\ next' = [next EXCEPT ![m] = L[k + 1]] /\ next_seg' = [next_seg EXCEPT ![m] = L[k + 1]]
            /\ dynamic_last' = dynamic_last
        BY <3>3, <4>1, <4>3 DEF UnlinkLater
      <4>5. /\ next'[m] = L[k + 1] /\ next_seg'[m] = L[k + 1]
            /\ \A n \in Node : n # m => next'[n] = next[n] /\ next_seg'[n] = next_seg[n]
        BY <1>15, <4>4
      <4>6. K[Len(K)] = L[Len(L)]
        <5>1. Len(L) - 1 \in k .. Len(L) - 1 /\ (Len(L) - 1) + 1 = Len(L)
          BY <1>4, <1>8, <3>8
        <5>2. K[Len(L) - 1] = L[(Len(L) - 1) + 1]
          BY <1>9, <5>1
        <5>. QED BY <3>1, <5>1, <5>2
      <4>7. next'[L[Len(L)]] = NULL
        <5>1. L[Len(L)] # m
          BY <1>4, <1>12, <1>13, <3>1, <3>2
        <5>. QED BY <1>12, <4>5, <5>1
      <4>8. \A i \in 1 .. Len(K) - 1 : next'[K[i]] = K[i + 1] /\ next_seg'[K[i]] = K[i + 1]
        <5>. SUFFICES ASSUME NEW i \in 1 .. Len(K) - 1
                      PROVE  next'[K[i]] = K[i + 1] /\ next_seg'[K[i]] = K[i + 1]
          OBVIOUS
        <5>0. i \in Nat /\ 1 <= i /\ i <= Len(L) - 2
          BY <1>4, <3>1
        <5>1. CASE i < k - 1
          <6>1. /\ i \in 1 .. Len(L) - 1 /\ i \in 1 .. k - 1 /\ i + 1 \in 1 .. k - 1 /\ i # k - 1
                /\ i \in 1 .. Len(L)
            BY <1>4, <1>8, <5>0, <5>1
          <6>2. L[i] # m /\ L[i] \in Node /\ K[i] = L[i] /\ K[i + 1] = L[i + 1]
            BY <1>5, <1>9, <1>13, <3>1, <3>2, <6>1
          <6>. QED BY <1>14, <4>5, <6>1, <6>2
        <5>2. CASE i = k - 1
          <6>1. K[i] = m /\ K[i + 1] = L[k + 1]
            BY <1>9, <3>1, <3>2, <4>2, <5>2
          <6>. QED BY <4>5, <6>1
        <5>3. CASE i > k - 1
          <6>1. /\ i \in k .. Len(L) - 1 /\ i + 1 \in k .. Len(L) - 1 /\ i + 1 \in 1 .. Len(L) - 1
                /\ i + 1 \in 1 .. Len(L) /\ i + 1 # k - 1
            BY <1>4, <1>8, <5>0, <5>3
          <6>2. L[i + 1] # m /\ L[i + 1] \in Node /\ K[i] = L[i + 1] /\ K[i + 1] = L[(i + 1) + 1]
            BY <1>5, <1>9, <1>13, <3>1, <3>2, <6>1
          <6>. QED BY <1>14, <4>5, <6>1, <6>2
        <5>. QED BY <1>8, <5>0, <5>1, <5>2, <5>3
      <4>9. next' \in [Node -> Pointer] /\ next_seg' \in [Node -> Pointer] /\ dynamic_last' \in Pointer
        BY <1>12, <1>15, <4>3, <4>4 DEF Pointer
      <4>. QED BY <1>12, <3>1, <3>5, <3>6, <4>4, <4>6, <4>7, <4>8, <4>9
    <3>. QED BY <3>7, <3>8
  <2>4. (k = 1 /\ Len(L) = 1) \/ (k = 1 /\ Len(L) > 1) \/ k > 1
    <3>1. PICK l \in Nat : l = Len(L)
      BY <1>4
    <3>2. l >= 1
      BY <1>8, <3>1
    <3>. QED BY <1>8, <3>1, <3>2
  <2>. QED BY <2>1, <2>2, <2>3, <2>4, Zenon
<1>20. TypeOK'
  <2>1. pc' \in [Proc -> {"idle", "find"} \cup Waiting \cup Inside]
    BY <1>2 DEF TypeOK, Inside
  <2>2. \A x \in Proc : pc'[x] = "element" => current'[x] \in Node
    BY <1>2 DEF TypeOK, walkVars
  <2>3. memory' \in [Region -> 0 .. MaxId]
    BY <1>16, <1>17
  <2>4. allocated' \subseteq Node /\ registered' \subseteq Node
    BY <1>2, <1>7, <1>19 DEF TypeOK
  <2>. QED BY <1>2, <1>16, <1>19, <2>1, <2>2, <2>3, <2>4 DEF TypeOK, copyVars, walkVars
<1>21. OneInside'
  BY <1>2, <1>20 DEF Invariant, OneInside, Inside
<1>22. Ids'
  <2>1. \A x \in Proc : copy_id'[x] \in Nat /\ copy_id'[x] <= dynamic_id
    BY <1>2 DEF Invariant, Ids, TypeOK, copyVars
  <2>2. \A x \in Proc : copy_id'[x] <= dynamic_id + 1
    BY <1>16, <2>1
  <2>. QED BY <1>2, <2>2 DEF Ids
<1>23. OwnerPlaces' /\ Attaching'
  BY <1>2 DEF Invariant, OwnerPlaces, Attaching, Changing
<1>24. \A x \in Proc : /\ pc'[x] \in Accesses => pc[x] \in Accesses
                       /\ pc'[x] \in Changing => pc[x] \in Changing
  BY <1>2 DEF Accesses, Changing
<1>25. \A x \in Proc : pc[x] \in Accesses => region[x] # r /\ region[x] \in Region
  BY <1>2, <1>3 DEF Invariant, Accessing, Changing, TypeOK
<1>26. Accessing'
  <2>1. \A x \in Proc : pc'[x] \in Accesses => memory'[region'[x]] # 0
    BY <1>2, <1>18, <1>24, <1>25 DEF Invariant, Accessing
  <2>. QED BY <1>2, <1>24, <2>1 DEF Invariant, Accessing
<1>27. Found'
  <2>1. \A x \in Proc : pc'[x] \in {"copied", "find"} => pc[x] \in {"copied", "find"}
    BY <1>2
  <2>2. \A x \in Proc : pc'[x] \in {"copied", "find"} => memory'[region[x]] = memory[region[x]]
    BY <1>18, <1>25, <2>1 DEF Accesses
  <2>3. region' = region /\ remote_mem_regions' = remote_mem_regions
    BY <1>2 DEF copyVars
  <2>. QED BY <2>1, <2>2, <2>3 DEF Invariant, Found
<1>28. Linked(K)'
  <2>1. allocated' = {K[i] : i \in DOMAIN K}
    BY <1>7, <1>9, <1>12
  <2>. QED BY <1>9, <1>19, <2>1 DEF Linked
<1>29. Ended(K)'
  BY <1>2, <1>19 DEF Ended
<1>30. Contents(K)'
  <2>1. Filled(K)' = 1 .. Len(K) /\ Filled(L) = 1 .. Len(L)
    BY <1>2 DEF Filled
  <2>2. ASSUME NEW i \in 1 .. Len(K)
        PROVE  \E j \in 1 .. Len(L) : K[i] = L[j] /\ j # k /\ K[i] \in Node
    <3>1. K[i] \in {L[j] : j \in DOMAIN L} \ {L[k]}
      BY <1>9, <1>10
    <3>. QED BY <1>5, <3>1
  <2>3. \A i, j \in 1 .. Len(L) : base[L[i]] = base[L[j]] => i = j
    BY <1>1, <2>1 DEF Good, Contents
  <2>4. base' = base /\ seg' = seg /\ base \in [Node -> Region]
    BY <1>2 DEF TypeOK
  <2>5. ASSUME NEW i \in 1 .. Len(K)
        PROVE  /\ base[K[i]] \in Region /\ base[K[i]] # r
               /\ memory'[base[K[i]]] # 0 /\ seg[K[i]] = memory'[base[K[i]]]
    <3>1. PICK j \in 1 .. Len(L) : K[i] = L[j] /\ j # k /\ K[i] \in Node
      BY <2>2
    <3>2. base[K[i]] \in Region /\ base[K[i]] # r
      BY <1>7, <2>3, <2>4, <3>1
    <3>3. memory[base[K[i]]] # 0 /\ seg[K[i]] = memory[base[K[i]]]
      BY <1>1, <2>1, <3>1 DEF Good, Contents
    <3>. QED BY <1>18, <3>2, <3>3
  <2>6. ASSUME NEW i \in 1 .. Len(K), NEW j \in 1 .. Len(K), base[K[i]] = base[K[j]] PROVE i = j
    <3>1. PICK ii \in 1 .. Len(L) : K[i] = L[ii]
      BY <2>2
    <3>2. PICK jj \in 1 .. Len(L) : K[j] = L[jj]
      BY <2>2
    <3>3. K[i] = K[j]
      BY <2>3, <2>6, <3>1, <3>2
    <3>. QED BY <1>9, <1>10, <3>3
  <2>7. ASSUME NEW x \in Region, memory'[x] # 0 PROVE \E i \in 1 .. Len(K) : base[K[i]] = x
    <3>1. x # r /\ memory[x] # 0
      BY <1>18, <2>7
    <3>2. PICK j \in 1 .. Len(L) : base[L[j]] = x
      BY <1>1, <2>1, <3>1 DEF Good, Contents
    <3>3. L[j] # L[k]
      BY <1>7, <3>1, <3>2
    <3>4. L[j] \in {K[i] : i \in DOMAIN K}
      BY <1>5, <1>9, <3>3
    <3>. QED BY <1>10, <3>2, <3>4
  <2>. QED BY <2>1, <2>4, <2>5, <2>6, <2>7 DEF Contents
<1>31. Walks(K)'
  BY <1>2, NobodyWalks DEF Walks, Invariant
<1>32. Fresh(K)'
  <2>1. \A x \in Proc : copy_id'[x] \in Nat /\ copy_id'[x] <= dynamic_id
    BY <1>2 DEF Invariant, Ids, TypeOK, copyVars
  <2>2. \A x \in Proc : copy_id'[x] # dynamic_id'
    BY <1>2, <1>16, <2>1
  <2>. QED BY <2>2 DEF Fresh
<1>. QED BY <1>21, <1>22, <1>23, <1>26, <1>27, <1>28, <1>29, <1>30, <1>31, <1>32 DEF Invariant, Good

---------------------------------------------------------------------------
(* Every step preserves the invariant.                                     *)
LEMMA NextInvariant == Invariant /\ [Next]_vars => Invariant'
<1>. SUFFICES ASSUME Invariant, [Next]_vars PROVE Invariant'
  OBVIOUS
<1>. USE NamesAssumption
<1>1. ASSUME NEW r \in Region, CallAttach(r) PROVE Invariant'
  <2>1. \A x \in Proc : pc[x] \in Accesses => region[x] # r
    BY <1>1 DEF CallAttach, Invariant, Accessing
  <2>2. Call(Owner, "attach", r) /\ dynamic_id < MaxId /\ memory[r] = 0 /\ "attach" \in Waiting
    BY <1>1 DEF CallAttach, Waiting
  <2>. QED BY <2>1, <2>2, CallStep
<1>2. ASSUME NEW r \in Region, CallDetach(r) PROVE Invariant'
  <2>1. \A x \in Proc : pc[x] \in Accesses => region[x] # r
    BY <1>2 DEF CallDetach, Accesses
  <2>2. Call(Owner, "detach", r) /\ dynamic_id < MaxId /\ "detach" \in Waiting
    BY <1>2 DEF CallDetach, Waiting
  <2>. QED BY <2>1, <2>2, CallStep
<1>3. ASSUME NEW p \in Proc, NEW r \in Region, CallAccess(p, r) PROVE Invariant'
  <2>1. /\ Call(p, "access", r) /\ memory[r] # 0 /\ "access" \in Waiting
        /\ ~(pc[Owner] \in Changing /\ region[Owner] = r)
    BY <1>3 DEF CallAccess, Waiting
  <2>. QED BY <2>1, CallStep
<1>4. CASE UNCHANGED vars
  <2>1. PICK L \in Seq(Node) : Good(L)
    BY DEF Invariant
  <2>. USE <1>4 DEF vars, listVars, copyVars, walkVars
  <2>2. OneInside' /\ Ids' /\ OwnerPlaces' /\ Attaching' /\ Accessing' /\ Found'
    BY DEF Invariant, OneInside, TypeOK, Ids, OwnerPlaces, Attaching, Accessing, Found
  <2>3. Linked(L)' /\ Ended(L)' /\ Contents(L)'
    BY <2>1, Quiet DEF Good
  <2>4. Walks(L)' /\ Fresh(L)'
    BY <2>1, QuietCopies DEF Good
  <2>. QED BY <2>2, <2>3, <2>4 DEF Invariant, Good
<1>5. ASSUME NEW p \in Proc, Section(p) PROVE Invariant'
  BY <1>5, AttachLinkStep, AttachFillStep, SearchStep, UnlinkStep, GetIdStep, GetHeadStep,
     GetElementStep, ReleaseStep DEF Section, OwnerStep
<1>. QED BY <1>1, <1>2, <1>3, <1>4, <1>5, LockStep, FindStep DEF Next

(* The inductive invariant holds in every reachable state.                 *)
THEOREM InvariantHolds == Spec => []Invariant
BY InitInvariant, NextInvariant, PTL DEF Spec

(* Whoever is between the two swaps on dynamic_mutex                       *)
(* (fompi_internal.h:326-327) has its rank in it, so nobody else is.       *)
THEOREM OneInsideCorrect == Spec => []OneInside
<1>1. Invariant => OneInside
  BY DEF Invariant
<1>. QED BY <1>1, InvariantHolds, PTL

(* A walk of get_dynamic_window_regions (fompi_win_rma.c:164-279) reads    *)
(* only nodes that are allocated and registered, each through its own      *)
(* descriptor.                                                             *)
THEOREM ReadsRegisteredCorrect == Spec => []ReadsRegistered
<1>1. Invariant => ReadsRegistered
  <2>. SUFFICES ASSUME Invariant, NEW p \in Proc, pc[p] = "element"
                PROVE  current[p] \in allocated \cap registered /\ current_seg[p] = current[p]
    BY DEF ReadsRegistered
  <2>1. PICK L \in Seq(Node) : Linked(L) /\ Walks(L)
    BY DEF Invariant, Good
  <2>2. PICK m \in 0 .. Len(L) - 1 : current[p] = L[m + 1] /\ current_seg[p] = L[m + 1]
    BY <2>1 DEF Walks
  <2>3. m + 1 \in DOMAIN L
    <3>1. Len(L) \in Nat /\ DOMAIN L = 1 .. Len(L)
      BY Lengths
    <3>. QED BY <3>1
  <2>. QED BY <2>1, <2>2, <2>3 DEF Linked
<1>. QED BY <1>1, InvariantHolds, PTL

(* A copy made at the present dynamic_id is the list: to compare the ids   *)
(* is enough (fompi_win_rma.c:164-279).                                    *)
THEOREM CopyFreshCorrect == Spec => []CopyFresh
<1>1. Invariant => CopyFresh
  <2>. SUFFICES ASSUME Invariant, NEW p \in Proc,
                       pc[Owner] \notin {"link", "fill", "unlink"}, pc[p] \notin {"head", "element"},
                       copy_id[p] = dynamic_id
                PROVE  remote_mem_regions[p] = [k \in DOMAIN List |-> <<base[List[k]], seg[List[k]]>>]
    BY DEF CopyFresh
  <2>1. PICK L \in Seq(Node) : Linked(L) /\ Ended(L) /\ Fresh(L)
    BY DEF Invariant, Good
  <2>2. List = L /\ DOMAIN L = 1 .. Len(L)
    BY <2>1, ListIsL, Lengths
  <2>3. remote_mem_regions[p] = CopyOf(L, Len(L))
    BY <2>1 DEF Fresh
  <2>. QED BY <2>2, <2>3 DEF CopyOf
<1>. QED BY <1>1, InvariantHolds, PTL

(* Attach and detach (fompi_win_dynamic_create.c) keep the list whole: it  *)
(* holds just the attached memory, no node leaks, no descriptor is stale.  *)
THEOREM ListWholeCorrect == Spec => []ListWhole
<1>1. Invariant => ListWhole
  <2>. SUFFICES ASSUME Invariant, pc[Owner] # "fill" PROVE ListWhole
    BY DEF ListWhole
  <2>1. PICK L \in Seq(Node) : Linked(L) /\ Ended(L) /\ Contents(L)
    BY DEF Invariant, Good
  <2>2. List = L
    BY <2>1, ListIsL
  <2>3. DOMAIN L = 1 .. Len(L) /\ Filled(L) = 1 .. Len(L) /\ \A k \in 1 .. Len(L) : L[k] \in Node
    BY Lengths DEF Filled
  <2>4. Range(L) = allocated /\ allocated = registered
    BY <2>1 DEF Range, Linked
  <2>5. IF L = << >> THEN dynamic_last = NULL
        ELSE /\ dynamic_last = Last(L) /\ next[dynamic_last] = NULL
             /\ win_dynamic_mem_regions_seg = L[1]
             /\ \A k \in 1 .. Len(L) - 1 : next_seg[L[k]] = L[k + 1]
    BY <2>1 DEF Linked, Ended, Last
  <2>6. ASSUME NEW r \in Region
        PROVE  {seg[n] : n \in {n \in allocated : base[n] = r}} = {memory[r]} \ {0}
    <3>1. \A n \in allocated : base[n] = r => seg[n] = memory[r] /\ memory[r] # 0
      BY <2>1, <2>3 DEF Linked, Contents
    <3>2. memory[r] # 0 => \E n \in allocated : base[n] = r
      BY <2>1, <2>3 DEF Linked, Contents
    <3>. QED BY <3>1, <3>2
  <2>. QED BY <2>2, <2>4, <2>5, <2>6 DEF ListWhole
<1>. QED BY <1>1, InvariantHolds, PTL

(* An operation uses the present registration of memory that stays         *)
(* attached, though it looks it up in its copy, without the mutex.         *)
THEOREM AccessCurrentCorrect == Spec => AccessCurrent
<1>. DEFINE Current == \A p \in Proc : pc[p] = "find" /\ pc'[p] = "idle" => used'[p] = memory[region[p]]
<1>1. Invariant /\ [Next]_vars => [Current]_vars
  <2>. SUFFICES ASSUME Invariant, Next, NEW p \in Proc, pc[p] = "find", pc'[p] = "idle"
                PROVE  used'[p] = memory[region[p]]
    OBVIOUS
  <2>0. TypeOK
    BY DEF Invariant, OneInside
  <2>1. Find(p)
    <3>1. ASSUME NEW q \in Proc, NEW w, Goto(q, w) PROVE q = p
      BY <2>0, <3>1 DEF TypeOK, Goto
    <3>2. ASSUME NEW q \in Proc, NEW w, Goto(q, w) PROVE pc[q] = "find"
      BY <3>1, <3>2
    <3>3. ASSUME NEW r \in Region, CallAttach(r) \/ CallDetach(r) PROVE FALSE
      BY <3>2, <3>3, NamesAssumption DEF CallAttach, CallDetach, Call
    <3>4. ASSUME NEW q \in Proc, NEW r \in Region, CallAccess(q, r) PROVE FALSE
      BY <3>2, <3>4 DEF CallAccess, Call
    <3>5. ASSUME NEW q \in Proc, Lock(q) PROVE FALSE
      BY <3>2, <3>5 DEF Lock, Waiting
    <3>6. ASSUME OwnerStep PROVE FALSE
      BY <3>2, <3>6, NamesAssumption DEF OwnerStep, AttachLink, AttachFill, Search, Unlink
    <3>7. ASSUME NEW q \in Proc, GetId(q) \/ GetHead(q) \/ GetElement(q) \/ Release(q) PROVE FALSE
      BY <3>2, <3>7 DEF GetId, GetHead, GetElement, Release
    <3>8. ASSUME NEW q \in Proc, Find(q) PROVE q = p
      BY <3>1, <3>8 DEF Find
    <3>. QED BY <3>3, <3>4, <3>5, <3>6, <3>7, <3>8 DEF Next, Section
  <2>. DEFINE copy == remote_mem_regions[p]
  <2>2. /\ \E k \in DOMAIN copy : copy[k][1] = region[p]
        /\ \A k \in DOMAIN copy : copy[k][1] = region[p] => copy[k][2] = memory[region[p]]
    BY DEF Invariant, Found
  <2>3. \E k \in DOMAIN copy : copy[k][1] = region[p] /\ used' = [used EXCEPT ![p] = copy[k][2]]
    BY <2>1, <2>2 DEF Find
  <2>4. used' = [used EXCEPT ![p] = memory[region[p]]]
    BY <2>2, <2>3
  <2>. QED BY <2>0, <2>4 DEF TypeOK
<1>. QED BY <1>1, InvariantHolds, PTL DEF Spec, AccessCurrent
============================================================================
