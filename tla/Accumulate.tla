---------------------------- MODULE Accumulate ----------------------------
(***************************************************************************)
(* Accumulate, Get_accumulate, Fetch_and_op and Compare_and_swap           *)
(* (fompi_win_rma.c) on the words of one target.                           *)
(*                                                                         *)
(* A call takes one of several ways.  Some types and operations go to the  *)
(* NIC's atomics, without a lock.  REPLACE by Accumulate is a put.  The    *)
(* rest takes the target's window mutex (fompi_helper.c), gets the words,  *)
(* computes, puts them back and gives the mutex up.  Requests of the first *)
(* two ways, and the gets and puts of the third, are in the network until  *)
(* Deliver.                                                                *)
(*                                                                         *)
(* The ways know nothing of each other.  A mix of kinds of calls that MPI  *)
(* allows is chosen in Init, also one that goes more than one way: then    *)
(* updates of a word may be lost, and ImplementsAtomics claims nothing.    *)
(***************************************************************************)
EXTENDS Integers, FiniteSets

CONSTANTS
  Proc,
  Loc,       \* the words of the target
  Modulus,   \* values are 0 .. Modulus - 1
  Operand,   \* Operand[p]: what p adds, puts, swaps in
  DispUnit,  \* disp_unit of the target's window
  Compare,   \* values Compare_and_swap compares with
  Mixes,     \* the kinds of calls that programs use together
  NoValue

ASSUME ValueAssumption ==
  /\ Modulus \in Nat \ {0} /\ DispUnit \in Nat \ {0}
  /\ Operand \in [Proc -> 0 .. Modulus - 1]
  /\ Compare \subseteq 0 .. Modulus - 1
  /\ NoValue \notin 0 .. Modulus - 1
ASSUME ProcAssumption == IsFiniteSet(Proc) /\ IsFiniteSet(Loc) /\ Loc \subseteq Int

VARIABLES
  mix,          \* the kinds of calls the programs use
  dynamic,      \* create_flavor is foMPI_WIN_FLAVOR_DYNAMIC
  mem,          \* the words
  mutex,        \* win_ptr->mutex of the target: foMPI_MUTEX_NONE or 0
  pc, call,     \* where each process is, and the arguments of the call it is in
  net,          \* net[p][l]: p's request to word l
  buf,          \* buf[p][l]: result_addr, or the buffer of Accumulate
  nbi_counter

vars == <<mix, dynamic, mem, mutex, pc, call, net, buf, nbi_counter>>

Value == 0 .. Modulus - 1
MUTEX_NONE == -1

---------------------------------------------------------------------------
(* Kinds of calls and the way each goes.                                   *)

Type == {"int64", "derived64", "double", "int32", "offset"}
Basic(t) == IF t = "derived64" THEN "int64" ELSE t   \* check_basic_type
Size(t) == IF t = "int32" THEN 4 ELSE 8
Bitwise8 == {"band", "bor", "bxor"}

\* foMPI_RMA_op says MPI_SUCCESS: a list of ifs without an else between two
\* of them falls through to foMPI_OP_NOT_SUPPORTED for what comes before
Supported(t, op) ==
  /\ t = "double" => op \notin Bitwise8
  /\ t = "offset" => op \in {"bor", "bxor"}

Kind ==
  {k \in [call : {"accumulate", "get_accumulate", "fetch_and_op"}, type : Type,
          op : {"sum", "min", "bor", "replace", "no_op"}] :
     /\ k.type = "double" => k.op # "bor"
     /\ k.call = "accumulate" => k.op # "no_op"
     /\ k.call = "fetch_and_op" => k.type # "derived64"}
  \cup [call : {"compare_and_swap"}, type : {"int64", "int32"}, op : {"cas"}]

ASSUME MixAssumption == Mixes \subseteq SUBSET Kind

Way(k) ==
  CASE k.call = "accumulate" ->
         IF \/ k.type = "int64" /\ k.op = "sum"
            \/ k.type \in {"int64", "double"} /\ k.op \in Bitwise8 THEN "nic"
         ELSE IF k.op = "replace" THEN "put" ELSE "mutex"
    [] k.call = "get_accumulate" ->
         IF k.type = "int64" /\ k.op = "sum" /\ ~dynamic THEN "nic" ELSE "mutex"
    [] k.call = "fetch_and_op" -> "mutex"
    [] k.call = "compare_and_swap" ->
         IF Size(k.type) = 8 THEN "swap" ELSE "mutex"

\* what the call does to a word: Fetch_and_op does not put what foMPI_RMA_op
\* does not support
EffectiveOp(k) ==
  IF k.call = "fetch_and_op" /\ k.op \notin {"replace", "no_op"}
     /\ ~Supported(k.type, k.op)
  THEN "no_op" ELSE k.op

\* MPI: concurrent calls on a word use one basic type and one operation, or
\* MPI_NO_OP
Allowed(S) == \A j, k \in S : /\ Basic(j.type) = Basic(k.type)
                              /\ j.op = k.op \/ "no_op" \in {j.op, k.op}

\* no update that reads and writes under the mutex beside one without it:
\* nothing in the code or in MPI's rules keeps a program from such a mix
OneWay(S) == \A j, k \in S : Way(j) = "mutex" /\ EffectiveOp(j) # "no_op"
                               => Way(k) = "mutex"

Or(a, b) == LET bit(i) == IF 1 \in {(a \div i) % 2, (b \div i) % 2} THEN i ELSE 0
            IN bit(1) + bit(2) + bit(4)

\* a word keeps its width: Modulus is a power of two
ASSUME OrAssumption == \A a, b \in Value : Or(a, b) \in Value

\* one element of foMPI_RMA_op, of a NIC atomic, or of a swap
Apply(op, v, operand, compare) ==
  CASE op = "sum" -> (v + operand) % Modulus
    [] op = "min" -> IF operand < v THEN operand ELSE v
    [] op = "bor" -> Or(v, operand)
    [] op = "replace" -> operand
    [] op = "no_op" -> v
    [] op = "cas" -> IF v = compare THEN operand ELSE v

---------------------------------------------------------------------------
NoRequest == [do |-> "none", val |-> 0, cmp |-> 0]
Request == [do : {"none", "get", "put", "sum", "bor", "replace", "fetch", "cas"}, val : Value,
            cmp : Value]
NoCall == [kind |-> [call |-> "none", type |-> "int64", op |-> "no_op"], locs |-> {},
           cmp |-> 0]
CallRecord == [kind : Kind \cup {NoCall.kind}, locs : SUBSET Loc, cmp : Value]

Init ==
  /\ dynamic \in BOOLEAN
  /\ mix \in Mixes /\ Allowed(mix)
  /\ mem = [l \in Loc |-> 0]
  /\ mutex = MUTEX_NONE
  /\ pc = [p \in Proc |-> "idle"]
  /\ call = [p \in Proc |-> NoCall]
  /\ net = [p \in Proc |-> [l \in Loc |-> NoRequest]]
  /\ buf = [p \in Proc |-> [l \in Loc |-> NoValue]]
  /\ nbi_counter = [p \in Proc |-> 0]

At(p, from, to) == pc[p] = from /\ pc' = [pc EXCEPT ![p] = to]

\* requests for some words are handed to the network
Issue(p, requests) ==
  net' = [net EXCEPT ![p] = [l \in Loc |-> IF l \in DOMAIN requests THEN requests[l] ELSE @[l]]]

\* dmapp_gsync_wait returns; a blocking get or put returns
Quiet(p) == \A l \in Loc : net[p][l] = NoRequest
Mine(p) == \A l \in call[p].locs : net[p][l] = NoRequest

\* the words a call of the kind may name: one for the single-element calls
Words(k) == IF k.call \in {"accumulate", "get_accumulate"} THEN SUBSET Loc \ {{}}
            ELSE {{l} : l \in Loc}

\* the first words, as many as are moved: Get_accumulate's fast path counts
\* in units of disp_unit and not of the type (above 8 it goes on beyond the
\* words of the call, which are not shown)
Moved(k, locs) ==
  LET n == (Cardinality(locs) * DispUnit) \div 8
  IN {l \in locs : k.call = "get_accumulate" => Cardinality({m \in locs : m < l}) < n}

---------------------------------------------------------------------------
(* The calls.  A program has one request at a time to a word in flight.    *)

Call(p, k, locs) ==
  /\ pc[p] = "idle" /\ k \in mix
  /\ \A l \in locs : net[p][l] = NoRequest
  /\ buf' = [buf EXCEPT ![p] = [l \in Loc |-> IF l \in locs THEN NoValue ELSE @[l]]]
  /\ UNCHANGED <<mix, dynamic, mem, mutex>>

Enter(p, k, locs, cmp, where) ==
  /\ Call(p, k, locs)
  /\ call' = [call EXCEPT ![p] = [kind |-> k, locs |-> locs, cmp |-> cmp]]
  /\ pc' = [pc EXCEPT ![p] = where]

Return(p, from) ==
  /\ At(p, from, "idle")
  /\ call' = [call EXCEPT ![p] = NoCall]

\* NIC atomics and puts: the call returns with the requests in the network
CallNbi(p, k, locs) ==
  /\ Call(p, k, locs)
  /\ Way(k) \in {"nic", "put"}
  /\ Issue(p, [l \in Moved(k, locs) |->
                [do |-> IF k.call = "get_accumulate" THEN "fetch" ELSE k.op,
                 val |-> Operand[p], cmp |-> 0]])
  /\ nbi_counter' = [nbi_counter EXCEPT ![p] = 1]
  /\ UNCHANGED <<pc, call>>

\* Compare_and_swap of eight bytes: a blocking NIC atomic
CallSwap(p, k, locs, cmp) ==
  /\ Enter(p, k, locs, cmp, "swap")
  /\ Way(k) = "swap"
  /\ Issue(p, [l \in locs |-> [do |-> "cas", val |-> Operand[p], cmp |-> cmp]])
  /\ UNCHANGED nbi_counter

SwapReturns(p) ==
  /\ Return(p, "swap")
  /\ Mine(p)
  /\ UNCHANGED <<mix, dynamic, mem, mutex, net, buf, nbi_counter>>

CallMutex(p, k, locs, cmp) ==
  /\ Enter(p, k, locs, cmp, "mutex")
  /\ Way(k) = "mutex"
  /\ UNCHANGED <<net, nbi_counter>>

\* mutant: a put of 0 in place of the compare and swap
SetMutexBlind(p) ==
  /\ At(p, "mutex", "get")
  /\ mutex' = 0
  /\ Issue(p, [l \in call[p].locs |-> [NoRequest EXCEPT !.do = "get"]])
  /\ UNCHANGED <<mix, dynamic, mem, call, buf, nbi_counter>>

\* foMPI_Set_window_mutex, and the words are asked for
SetMutex(p) ==
  /\ At(p, "mutex", "get")
  /\ mutex = MUTEX_NONE
  /\ mutex' = 0
  /\ Issue(p, [l \in call[p].locs |-> [NoRequest EXCEPT !.do = "get"]])
  /\ UNCHANGED <<mix, dynamic, mem, call, buf, nbi_counter>>

Single(p) == call[p].kind.call \in {"fetch_and_op", "compare_and_swap"}

\* the get, or the put, is waited for: alone, or with all of p's requests
Waited(p) == IF Single(p) THEN Mine(p) ELSE Quiet(p)

\* of the words got, those that are put back
WordsToWrite(p) ==
  LET op == EffectiveOp(call[p].kind)
  IN {l \in call[p].locs : op # "no_op" /\ (op = "cas" => buf[p][l] = call[p].cmp)}

PutBack(p) ==
  Issue(p, [l \in WordsToWrite(p) |->
             [do |-> "put", cmp |-> 0,
              val |-> Apply(EffectiveOp(call[p].kind), buf[p][l], Operand[p], call[p].cmp)]])

\* mutant: an operation that is not supported returns at once
OperateReturns(p) ==
  /\ pc[p] = "get" /\ Waited(p)
  /\ pc' = [pc EXCEPT ![p] = IF EffectiveOp(call[p].kind) # call[p].kind.op THEN "idle"
                             ELSE IF WordsToWrite(p) = {} THEN "release" ELSE "put"]
  /\ PutBack(p)
  /\ UNCHANGED <<mix, dynamic, mem, mutex, call, buf, nbi_counter>>

\* the words are there; the new ones are computed and sent
Operate(p) ==
  /\ At(p, "get", IF WordsToWrite(p) = {} THEN "release" ELSE "put")
  /\ Waited(p)
  /\ PutBack(p)
  /\ UNCHANGED <<mix, dynamic, mem, mutex, call, buf, nbi_counter>>

\* mutant: the mutex is given up with the puts in the network
PutDoneAtOnce(p) ==
  /\ At(p, "put", "release")
  /\ nbi_counter' = IF Single(p) THEN nbi_counter ELSE [nbi_counter EXCEPT ![p] = 0]
  /\ UNCHANGED <<mix, dynamic, mem, mutex, call, net, buf>>

PutDone(p) ==
  /\ At(p, "put", "release")
  /\ Waited(p)
  /\ nbi_counter' = IF Single(p) THEN nbi_counter ELSE [nbi_counter EXCEPT ![p] = 0]
  /\ UNCHANGED <<mix, dynamic, mem, mutex, call, net, buf>>

\* foMPI_Release_window_mutex
ReleaseMutex(p) ==
  /\ Return(p, "release")
  /\ mutex' = IF mutex = 0 THEN MUTEX_NONE ELSE mutex
  /\ UNCHANGED <<mix, dynamic, mem, net, buf, nbi_counter>>

\* foMPI_Win_flush and its like; foMPI_Wait on a request of Raccumulate
Flush(p) ==
  /\ pc[p] = "idle"
  /\ nbi_counter[p] > 0 => Quiet(p)
  /\ nbi_counter' = [nbi_counter EXCEPT ![p] = 0]
  /\ UNCHANGED <<mix, dynamic, mem, mutex, pc, call, net, buf>>

\* a request of p takes effect at word l
Deliver(p, l) ==
  LET r == net[p][l]
      op == IF r.do = "fetch" THEN "sum" ELSE r.do
  IN /\ r # NoRequest
     /\ net' = [net EXCEPT ![p][l] = NoRequest]
     /\ mem' = [mem EXCEPT ![l] = CASE r.do = "get" -> @
                                    [] r.do = "put" -> r.val
                                    [] OTHER -> Apply(op, @, r.val, r.cmp)]
     /\ buf' = IF r.do \in {"get", "fetch", "cas"} THEN [buf EXCEPT ![p][l] = mem[l]] ELSE buf
     /\ UNCHANGED <<mix, dynamic, mutex, pc, call, nbi_counter>>

CallStep(p) ==
  SwapReturns(p) \/ SetMutex(p) \/ Operate(p) \/ PutDone(p) \/ ReleaseMutex(p)

Next ==
  \E p \in Proc :
    \/ \E k \in mix : \E locs \in Words(k) :
         \/ CallNbi(p, k, locs)
         \/ \E cmp \in IF k.op = "cas" THEN Compare ELSE {0} :
              CallSwap(p, k, locs, cmp) \/ CallMutex(p, k, locs, cmp)
    \/ CallStep(p)
    \/ Flush(p)
    \/ \E l \in Loc : Deliver(p, l)

Spec == Init /\ [][Next]_vars

(* Calls are executed and the network delivers; a process that finds the   *)
(* mutex free again and again gets it (no poll is always out of step).     *)
FairSpec ==
  /\ Spec
  /\ \A p \in Proc : /\ WF_vars(CallStep(p)) /\ SF_vars(SetMutex(p))
                     /\ \A l \in Loc : WF_vars(Deliver(p, l))

---------------------------------------------------------------------------
TypeOK ==
  /\ mem \in [Loc -> Value]
  /\ mutex \in {MUTEX_NONE, 0}
  /\ pc \in [Proc -> {"idle", "swap", "mutex", "get", "put", "release"}]
  /\ call \in [Proc -> CallRecord]
  /\ net \in [Proc -> [Loc -> Request]]
  /\ buf \in [Proc -> [Loc -> Value \cup {NoValue}]]
  /\ nbi_counter \in [Proc -> 0 .. 1]

(* The mutex is taken exactly while one process is between the compare and *)
(* swap that took it and the one that gives it up, errors included; it is  *)
(* the word, not its holder, that is anonymous (fompi_helper.c:10-43).     *)
(* The types of the variables are part of the invariant.                   *)
MutexAccounted ==
  /\ TypeOK
  /\ LET holders == {p \in Proc : pc[p] \in {"get", "put", "release"}}
     IN Cardinality(holders) = (IF mutex = MUTEX_NONE THEN 0 ELSE 1)

(* Every call returns, whatever the others do: the mutex is given up on    *)
(* every path (fompi_helper.c:16-31, "busy waiting").                      *)
UpdatesReturn == \A p \in Proc : pc[p] # "idle" ~> pc[p] = "idle"

---------------------------------------------------------------------------
(* The updates that have not taken effect, word by word: a request in the  *)
(* network; a word of a call that waits for the mutex; a word that was got *)
(* and will be put.                                                        *)
UnderMutex(p, l) == pc[p] \in {"mutex", "get", "put"} /\ l \in call[p].locs
Pending(p, l) ==
  \/ net[p][l] # NoRequest
  \/ pc[p] = "mutex" /\ l \in call[p].locs
  \/ pc[p] = "get" /\ l \in WordsToWrite(p)

Update(p, l) ==
  LET r == net[p][l]
      here == UnderMutex(p, l)
  IN [loc |-> l, operand |-> Operand[p],
      op |-> IF here THEN EffectiveOp(call[p].kind)
             ELSE IF r.do = "fetch" THEN "sum" ELSE r.do,
      cmp |-> IF here THEN call[p].cmp ELSE r.cmp,
      fetch |-> here \/ r.do \in {"fetch", "cas"}]

Effect(u, v) == Apply(u.op, v, u.operand, u.cmp)

\* where the code keeps updates atomic: not if a word is updated under the
\* mutex and without it, and Get_accumulate's fast path moves all words
\* only of a window whose disp_unit is their size
Covered ==
  /\ OneWay(mix)
  /\ DispUnit = 8 \/ \A k \in mix : ~(k.call = "get_accumulate" /\ Way(k) = "nic")

(* Under those two conditions, which the code does not enforce, every      *)
(* update happens once and in one step between its call and the flush      *)
(* after it, and fetching calls return what was there before (lines        *)
(* 1910-2116, 2188-2210, 2489-2516 and 2588-2622 of fompi_win_rma.c        *)
(* against each other).                                                    *)
Atomics == INSTANCE AbstractAtomics WITH
  todo <- [p \in Proc |-> {Update(p, l) : l \in {m \in Loc : Pending(p, m)}}],
  got  <- [p \in Proc |-> [l \in Loc |-> IF Pending(p, l) THEN NoValue ELSE buf[p][l]]],
  busy <- [p \in Proc |-> pc[p] # "idle" \/ nbi_counter[p] > 0]
ImplementsAtomics ==
  (Covered => Atomics!Init) /\ [][Covered => Atomics!Next]_(Atomics!vars)
===========================================================================
