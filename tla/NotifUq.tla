------------------------------ MODULE NotifUq ------------------------------
(***************************************************************************)
(* The queue of unexpected notifications (fompi_notif_uq.c): a doubly      *)
(* linked list of heap nodes.  Notifications are pushed at the head and    *)
(* searched for from the tail, the oldest.  A node malloc returns holds    *)
(* whatever its last use left in it.                                       *)
(***************************************************************************)
EXTENDS Integers, FiniteSets, Sequences

CONSTANTS
  Node,  \* heap nodes; their number bounds the length of the list
  NULL,
  Source, Tag,
  Wild,     \* wildcard
  NoMatch

Notif == Source \X Tag
Pattern == (Source \cup {Wild}) \X (Tag \cup {Wild})
Fits(w, n) == w[1] \in {n[1], Wild} /\ w[2] \in {n[2], Wild}

VARIABLES
  head, tail, size,  \* the fompi_notif_uq_t
  next, prev, data,  \* the fields of every node, NULL included to keep them total
  allocated,
  found              \* what the last removal returned

vars == <<head, tail, size, next, prev, data, allocated, found>>

Pointer == Node \cup {NULL}

TypeOK ==
  /\ head \in Pointer /\ tail \in Pointer /\ size \in Nat
  /\ next \in [Pointer -> Pointer] /\ prev \in [Pointer -> Pointer]
  /\ data \in [Pointer -> Notif]
  /\ allocated \subseteq Node
  /\ found \in Notif \cup {NoMatch}

Init ==
  /\ head = NULL /\ tail = NULL /\ size = 0
  /\ next = [p \in Pointer |-> NULL] /\ prev = [p \in Pointer |-> NULL]
  /\ \E n \in Notif : data = [p \in Pointer |-> n]
  /\ allocated = {}
  /\ found = NoMatch

---------------------------------------------------------------------------
\* mutant: the old head does not point back
PushNoBackLink(n) ==
  \E p \in Node \ allocated :
    /\ allocated' = allocated \cup {p}
    /\ data' = [data EXCEPT ![p] = n]
    /\ next' = [next EXCEPT ![p] = head]
    /\ prev' = [prev EXCEPT ![p] = NULL]
    /\ tail' = IF head = NULL THEN p ELSE tail
    /\ head' = p
    /\ size' = size + 1
    /\ UNCHANGED found

\* _uq_insert_head of a new node
Push(n) ==
  \E p \in Node \ allocated :
    /\ allocated' = allocated \cup {p}
    /\ data' = [data EXCEPT ![p] = n]
    /\ next' = [next EXCEPT ![p] = head]
    /\ prev' = [q \in Pointer |-> IF q = p THEN NULL
                                  ELSE IF q = head /\ q # NULL THEN p ELSE prev[q]]
    /\ tail' = IF head = NULL THEN p ELSE tail
    /\ head' = p
    /\ size' = size + 1
    /\ UNCHANGED found

\* a removal returns what p holds and frees it
Return(p) == found' = data[p] /\ allocated' = allocated \ {p} /\ UNCHANGED data

\* pop: _uq_remove_tail
Pop ==
  IF size = 0 THEN found' = NoMatch /\ UNCHANGED <<head, tail, size, next, prev, data, allocated>>
  ELSE /\ next' = IF prev[tail] # NULL THEN [next EXCEPT ![prev[tail]] = NULL] ELSE next
       /\ head' = IF prev[tail] # NULL THEN head ELSE NULL
       /\ tail' = prev[tail]
       /\ size' = size - 1
       /\ Return(tail)
       /\ UNCHANGED prev

\* mutant: a node in the middle is unlinked in one direction only
DetachOneWay(p) ==
  /\ tail' = IF p = tail THEN prev[p] ELSE tail
  /\ head' = IF p = head THEN next[p] ELSE head
  /\ next' = [next EXCEPT ![prev[p]] = IF prev[p] = NULL THEN NULL ELSE next[p]]
  /\ prev' = [prev EXCEPT ![next[p]] = IF p = head /\ next[p] # NULL THEN NULL ELSE @]
  /\ size' = size - 1

\* _uq_node_detach: the node is in the middle, alone, last or first
Detach(p) ==
  /\ size' = size - 1
  /\ CASE p # tail /\ p # head ->
            /\ next' = [next EXCEPT ![prev[p]] = next[p]]
            /\ prev' = [prev EXCEPT ![next[p]] = prev[p]]
            /\ UNCHANGED <<head, tail>>
       [] p = tail /\ p = head ->
            head' = NULL /\ tail' = NULL /\ UNCHANGED <<next, prev>>
       [] p = tail /\ p # head ->
            /\ tail' = prev[p]
            /\ next' = [next EXCEPT ![prev[p]] = NULL]
            /\ UNCHANGED <<head, prev>>
       [] p # tail /\ p = head ->
            /\ head' = next[p]
            /\ prev' = [prev EXCEPT ![next[p]] = NULL]
            /\ UNCHANGED <<tail, next>>

\* the node reached from the tail in i - 1 steps
FromTail[i \in 1 .. Cardinality(Node)] ==
  IF i = 1 THEN tail ELSE prev[FromTail[i - 1]]
\* and from the head
FromHead[i \in 1 .. Cardinality(Node)] ==
  IF i = 1 THEN head ELSE next[FromHead[i - 1]]

\* search_remove, _src and _tag: the walk goes on while a node follows
Hits(w) ==
  {i \in DOMAIN FromTail : FromTail[i] \in Node /\ Fits(w, data[FromTail[i]])}

SearchRemove(w) ==
  IF size = 0 \/ Hits(w) = {}
  THEN found' = NoMatch /\ UNCHANGED <<head, tail, size, next, prev, data, allocated>>
  ELSE \E i \in Hits(w) : /\ \A j \in Hits(w) : i <= j
                          /\ Detach(FromTail[i])
                          /\ Return(FromTail[i])

Next ==
  \/ \E n \in Notif : Push(n)
  \/ Pop
  \/ \E w \in Pattern \ {<<Wild, Wild>>} : SearchRemove(w)

Spec == Init /\ [][Next]_vars

---------------------------------------------------------------------------
(* The list is one list, whichever way it is walked: size nodes, all       *)
(* allocated and no other node is, NULL at both ends (_uq_remove_tail and  *)
(* _uq_node_detach rely on it for every pointer they follow).  The types   *)
(* of the variables are part of the invariant.                             *)
WellLinked ==
  /\ TypeOK
  /\ size = Cardinality(allocated)
  /\ size = 0 => head = NULL /\ tail = NULL
  /\ {FromTail[i] : i \in 1 .. size} = allocated
  /\ \A i \in 1 .. size : FromHead[i] = FromTail[size + 1 - i]
  /\ size > 0 => prev[head] = NULL /\ next[tail] = NULL

(* The list implements the queue that matches oldest first.                *)
Oldest == INSTANCE AbstractUq WITH queue <- [i \in 1 .. size |-> data[FromTail[i]]]
ImplementsUq == Oldest!Spec
===========================================================================
