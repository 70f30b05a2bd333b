-------------------------- MODULE AbstractAtomics --------------------------
(***************************************************************************)
(* What accumulate calls promise: every update of a word happens once,     *)
(* between the call and the flush after it, and in one step; a fetching    *)
(* call returns the value the word had just before.  Accumulate.tla is     *)
(* shown to implement it.  Nothing is promised about the order of a        *)
(* process's own updates.                                                  *)
(***************************************************************************)
CONSTANTS
  Proc, Loc, Value,
  Effect(_, _),  \* Effect(u, v): what update u of the word u.loc makes of value v
  NoValue        \* not fetched yet

VARIABLES
  mem,   \* the words of the target
  todo,  \* per process: updates begun and not performed
  got,   \* per process and word: the value fetched by the latest update
  busy   \* processes between a call and its flush

vars == <<mem, todo, got, busy>>

Init ==
  /\ mem = [l \in Loc |-> 0]
  /\ todo = [p \in Proc |-> {}]
  /\ got = [p \in Proc |-> [l \in Loc |-> NoValue]]
  /\ busy = [p \in Proc |-> FALSE]

\* p begins the updates that a step adds to todo
Begin(p) ==
  /\ todo[p] \subseteq todo'[p]
  /\ \A q \in Proc \ {p} : todo'[q] = todo[q]
  /\ busy' = [busy EXCEPT ![p] = TRUE]
  /\ got' = [got EXCEPT ![p] = [l \in Loc |->
               IF \E u \in todo'[p] : u.loc = l THEN NoValue ELSE @[l]]]
  /\ UNCHANGED mem

Perform(p, u) ==
  /\ mem' = [mem EXCEPT ![u.loc] = Effect(u, @)]
  /\ got' = [got EXCEPT ![p][u.loc] = IF u.fetch THEN mem[u.loc] ELSE NoValue]
  /\ todo' = [todo EXCEPT ![p] = @ \ {u}]
  /\ UNCHANGED busy

\* a flush, or a call that waits, has returned
Sync(p) ==
  /\ todo[p] = {}
  /\ busy' = [busy EXCEPT ![p] = FALSE]
  /\ UNCHANGED <<mem, todo, got>>

Next == \E p \in Proc : Begin(p) \/ Sync(p) \/ \E u \in todo[p] : Perform(p, u)

Spec == Init /\ [][Next]_vars
===========================================================================
