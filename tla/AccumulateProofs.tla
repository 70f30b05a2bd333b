-------------------------- MODULE AccumulateProofs --------------------------
(***************************************************************************)
(* Accumulate for any processes, words and mixes of calls: IInv is         *)
(* inductive, the window mutex is accounted for, and the calls of covered  *)
(* mixes implement AbstractAtomics.                                        *)
(***************************************************************************)
EXTENDS Accumulate, Lemmas, FiniteSetTheorems

---------------------------------------------------------------------------
(* The inductive invariant.                                                *)

Holders == {p \in Proc : pc[p] \in {"get", "put", "release"}}

Op(p) == EffectiveOp(call[p].kind)

(* A call under way is of the mix and goes its way.                        *)
CallControl ==
  /\ mix \subseteq Kind
  /\ \A p \in Proc : pc[p] # "idle" =>
       /\ call[p].kind \in mix /\ call[p].locs \subseteq Loc /\ call[p].cmp \in Value
       /\ Way(call[p].kind) = IF pc[p] = "swap" THEN "swap" ELSE "mutex"

(* A request in the network is of a call that goes without the mutex, to a *)
(* word that no call of p with the mutex is about; or it is the get, or    *)
(* the put of the result, of the call that has the mutex.                  *)
Direct(p, l) ==
  LET r == net[p][l] IN
  /\ r.do \in {"sum", "bor", "replace", "fetch", "cas"} /\ r.val = Operand[p]
  /\ r.do \in {"sum", "bor", "replace"} => buf[p][l] = NoValue
  /\ \E k \in mix : Way(k) # "mutex"
  /\ ~ UnderMutex(p, l)
Getting(p, l) == net[p][l].do = "get" /\ pc[p] = "get" /\ l \in call[p].locs
Putting(p, l) ==
  /\ net[p][l].do = "put" /\ pc[p] = "put" /\ l \in call[p].locs
  /\ Op(p) # "no_op" /\ buf[p][l] \in Value
  /\ net[p][l].val = Apply(Op(p), buf[p][l], Operand[p], call[p].cmp)
RequestOK(p, l) == net[p][l] = NoRequest \/ Direct(p, l) \/ Getting(p, l) \/ Putting(p, l)

(* From the get to the put nobody changes a word that is to be put, unless *)
(* the calls go more than one way.                                         *)
WordKept(p, l) ==
  /\ pc[p] = "get" /\ l \in call[p].locs /\ net[p][l] = NoRequest =>
       buf[p][l] \in Value /\ (OneWay(mix) /\ Op(p) # "no_op" => buf[p][l] = mem[l])
  /\ OneWay(mix) /\ Putting(p, l) => buf[p][l] = mem[l]

(* Requests in the network are counted, or waited for by a call.           *)
Counted(p, l) ==
  nbi_counter[p] = 0 /\ net[p][l] # NoRequest =>
    pc[p] \in {"swap", "get", "put"} /\ l \in call[p].locs

RequestsAccounted ==
  \A p \in Proc, l \in Loc : RequestOK(p, l) /\ WordKept(p, l) /\ Counted(p, l)

IInv == MutexAccounted /\ CallControl /\ RequestsAccounted

---------------------------------------------------------------------------
(* Calls and values.                                                       *)

Operations == {"sum", "min", "bor", "replace", "no_op", "cas"}

(* The operations and calls a kind may have, and those that go without the *)
(* mutex.                                                                  *)
LEMMA KindFacts ==
  ASSUME NEW k \in Kind
  PROVE  /\ k.op \in Operations /\ EffectiveOp(k) \in Operations
         /\ k.call \in {"accumulate", "get_accumulate", "fetch_and_op", "compare_and_swap"}
         /\ Way(k) \in {"nic", "put"} =>
              /\ k.call \in {"accumulate", "get_accumulate"}
              /\ k.call = "accumulate" => k.op \in {"sum", "bor", "replace"}
         /\ k.op = "cas" <=> k.call = "compare_and_swap"
<1>1. \/ /\ k \in [call : {"accumulate", "get_accumulate", "fetch_and_op"}, type : Type,
                     op : {"sum", "min", "bor", "replace", "no_op"}]
         /\ k.call = "accumulate" => k.op # "no_op"
      \/ k \in [call : {"compare_and_swap"}, type : {"int64", "int32"}, op : {"cas"}]
  BY DEF Kind
<1>2. k.op \in Operations /\ (k.op = "cas" <=> k.call = "compare_and_swap")
  BY <1>1 DEF Operations
<1>3. EffectiveOp(k) \in Operations
  BY <1>2 DEF EffectiveOp, Operations
<1>4. k.call \in {"accumulate", "get_accumulate", "fetch_and_op", "compare_and_swap"}
  BY <1>1
<1>5. ASSUME Way(k) \in {"nic", "put"}
      PROVE  /\ k.call \in {"accumulate", "get_accumulate"}
             /\ k.call = "accumulate" => k.op \in {"sum", "bor", "replace"}
  <2>1. k.call \notin {"fetch_and_op", "compare_and_swap"}
    BY <1>5 DEF Way
  <2>2. ASSUME k.call = "accumulate"  PROVE k.op \in {"sum", "bor", "replace"}
    BY <1>1, <1>5, <2>2 DEF Way, Bitwise8
  <2>. QED  BY <1>4, <2>1, <2>2
<1>. QED  BY <1>2, <1>3, <1>4, <1>5

(* Values are numbers; NoValue is none.                                    *)
LEMMA ValueFacts == Value \subseteq Int /\ 0 \in Value /\ Modulus \in Nat \ {0} /\ NoValue \notin Value
BY ValueAssumption DEF Value

(* The result of an operation fits into a word.                            *)
LEMMA ApplyType ==
  ASSUME NEW op \in Operations, NEW v \in Value, NEW operand \in Value, NEW compare \in Value
  PROVE  Apply(op, v, operand, compare) \in Value
<1>1. (v + operand) % Modulus \in Value
  <2>1. v + operand \in Int
    BY ValueFacts
  <2>. QED  BY <2>1, ModType, ValueFacts DEF Value
<1>2. Or(v, operand) \in Value
  BY OrAssumption
<1>. QED  BY <1>1, <1>2 DEF Apply, Operations

(* Operands are values.                                                    *)
LEMMA OperandType == \A p \in Proc : Operand[p] \in Value
BY ValueAssumption DEF Value

(* Direct ways and swaps update words of eight bytes: none is left out.    *)
LEMMA MovedType ==
  ASSUME NEW k, NEW locs \in SUBSET Loc
  PROVE  Moved(k, locs) \subseteq locs
BY DEF Moved

\* a call that computes under the mutex keeps the others from going directly
LEMMA WritersExclude ==
  ASSUME CallControl, OneWay(mix), NEW p \in Proc, pc[p] \in {"mutex", "get", "put", "release"}, Op(p) # "no_op"
  PROVE  \A k \in mix : Way(k) = "mutex"
BY DEF CallControl, OneWay, Op

(* The requests that calls make are requests.                              *)
LEMMA RequestTypes ==
  /\ NoRequest \in Request
  /\ [NoRequest EXCEPT !.do = "get"] \in Request
  /\ [NoRequest EXCEPT !.do = "get"].do = "get" /\ NoRequest.do = "none"
  /\ \A do \in {"put", "sum", "bor", "replace", "fetch", "cas"}, val \in Value, cmp \in Value :
       [do |-> do, val |-> val, cmp |-> cmp] \in Request
BY ValueFacts DEF NoRequest, Request

(* Issuing requests for some words keeps the type of the network.          *)
LEMMA IssueType ==
  ASSUME TypeOK, NEW p \in Proc, NEW S \in SUBSET Loc, NEW f \in [S -> Request], Issue(p, f)
  PROVE  net' \in [Proc -> [Loc -> Request]]
<1>1. DOMAIN f = S
  OBVIOUS
<1>2. [l \in Loc |-> IF l \in S THEN f[l] ELSE net[p][l]] \in [Loc -> Request]
  BY DEF TypeOK
<1>. QED  BY <1>1, <1>2 DEF Issue, TypeOK

---------------------------------------------------------------------------
(* Types.                                                                  *)

(* A call that starts keeps the type of the buffers.                       *)
LEMMA BufType ==
  ASSUME TypeOK, NEW p \in Proc, NEW k, NEW locs, Call(p, k, locs)
  PROVE  buf' \in [Proc -> [Loc -> Value \cup {NoValue}]]
BY DEF TypeOK, Call

(* A non-blocking call puts one request per word it moves into the         *)
(* network.                                                                *)
LEMMA CallNbiNet ==
  ASSUME TypeOK, CallControl, NEW p \in Proc, NEW k \in mix, NEW locs \in SUBSET Loc,
         CallNbi(p, k, locs)
  PROVE  /\ net' \in [Proc -> [Loc -> Request]]
         /\ \A q \in Proc \ {p} : net'[q] = net[q]
         /\ \A l \in Loc \ Moved(k, locs) : net'[p][l] = net[p][l]
         /\ \A l \in Moved(k, locs) :
              /\ net'[p][l] = [do |-> IF k.call = "get_accumulate" THEN "fetch" ELSE k.op,
                               val |-> Operand[p], cmp |-> 0]
              /\ k.call # "get_accumulate" => k.op \in {"sum", "bor", "replace"}
<1>. DEFINE do == IF k.call = "get_accumulate" THEN "fetch" ELSE k.op
            r == [do |-> do, val |-> Operand[p], cmp |-> 0]
            S == Moved(k, locs)
<1>1. /\ k.call \in {"accumulate", "get_accumulate"}
      /\ k.call # "get_accumulate" => k.op \in {"sum", "bor", "replace"}
  BY KindFacts DEF CallNbi, CallControl
<1>2. do \in {"put", "sum", "bor", "replace", "fetch", "cas"}
  BY <1>1
<1>3. r \in Request
  BY <1>2, RequestTypes, OperandType, ValueFacts
<1>4. S \in SUBSET Loc
  BY MovedType
<1>5. Issue(p, [l \in S |-> r])
  BY DEF CallNbi
<1>. HIDE DEF r, S
<1>6. [l \in S |-> r] \in [S -> Request]
  BY <1>3
<1>7. net' \in [Proc -> [Loc -> Request]]
  BY <1>4, <1>5, <1>6, IssueType
<1>8. net' = [net EXCEPT ![p] = [l \in Loc |-> IF l \in S THEN r ELSE @[l]]]
  BY <1>4, <1>5 DEF Issue
<1>. QED  BY <1>1, <1>4, <1>7, <1>8 DEF TypeOK, r, S

(* A compare-and-swap puts its request into the network.                   *)
LEMMA CallSwapNet ==
  ASSUME TypeOK, NEW p \in Proc, NEW k, NEW locs \in SUBSET Loc, NEW cmp \in Value,
         CallSwap(p, k, locs, cmp)
  PROVE  /\ net' \in [Proc -> [Loc -> Request]]
         /\ \A q \in Proc \ {p} : net'[q] = net[q]
         /\ \A l \in Loc \ locs : net'[p][l] = net[p][l]
         /\ \A l \in locs : net'[p][l] = [do |-> "cas", val |-> Operand[p], cmp |-> cmp]
<1>. DEFINE r == [do |-> "cas", val |-> Operand[p], cmp |-> cmp]
<1>1. r \in Request
  BY RequestTypes, OperandType
<1>2. Issue(p, [l \in locs |-> r])
  BY DEF CallSwap
<1>. HIDE DEF r
<1>3. [l \in locs |-> r] \in [locs -> Request]
  BY <1>1
<1>4. net' \in [Proc -> [Loc -> Request]]
  BY <1>2, <1>3, IssueType
<1>5. net' = [net EXCEPT ![p] = [l \in Loc |-> IF l \in locs THEN r ELSE @[l]]]
  BY <1>2 DEF Issue
<1>. QED  BY <1>4, <1>5 DEF TypeOK, r

(* Whoever gets the mutex asks for the words of the call.                  *)
LEMMA SetMutexNet ==
  ASSUME TypeOK, CallControl, NEW p \in Proc, SetMutex(p)
  PROVE  /\ net' \in [Proc -> [Loc -> Request]] /\ call[p].locs \subseteq Loc
         /\ \A q \in Proc \ {p} : net'[q] = net[q]
         /\ \A l \in Loc \ call[p].locs : net'[p][l] = net[p][l]
         /\ \A l \in call[p].locs : net'[p][l].do = "get" /\ net'[p][l] # NoRequest
<1>. DEFINE r == [NoRequest EXCEPT !.do = "get"]
            locs == call[p].locs
<1>1. r \in Request /\ r.do = "get" /\ r # NoRequest
  BY RequestTypes
<1>2. Issue(p, [l \in locs |-> r])
  BY DEF SetMutex
<1>3. locs \in SUBSET Loc
  BY DEF SetMutex, At, CallControl
<1>. HIDE DEF r, locs
<1>4. [l \in locs |-> r] \in [locs -> Request]
  BY <1>1
<1>5. net' \in [Proc -> [Loc -> Request]]
  BY <1>2, <1>3, <1>4, IssueType
<1>6. net' = [net EXCEPT ![p] = [l \in Loc |-> IF l \in locs THEN r ELSE @[l]]]
  BY <1>2 DEF Issue
<1>. QED  BY <1>1, <1>3, <1>5, <1>6 DEF TypeOK, locs

\* what was waited for has left the network
LEMMA WaitedFor ==
  ASSUME NEW p \in Proc, Waited(p), call[p].locs \subseteq Loc
  PROVE  \A l \in call[p].locs : net[p][l] = NoRequest
BY DEF Waited, Mine, Quiet

(* When all words are there, what is computed from them is put; they are   *)
(* still current if the calls go one way.                                  *)
LEMMA OperateNet ==
  ASSUME TypeOK, CallControl, RequestsAccounted, NEW p \in Proc, Operate(p)
  PROVE  /\ net' \in [Proc -> [Loc -> Request]] /\ call[p].locs \subseteq Loc
         /\ WordsToWrite(p) \subseteq call[p].locs
         /\ \A q \in Proc \ {p} : net'[q] = net[q]
         /\ \A l \in Loc \ WordsToWrite(p) : net'[p][l] = net[p][l]
         /\ \A l \in call[p].locs : net[p][l] = NoRequest /\ buf[p][l] \in Value
         /\ \A l \in WordsToWrite(p) :
              /\ net'[p][l].do = "put" /\ net'[p][l] # NoRequest
              /\ net'[p][l].val = Apply(Op(p), buf[p][l], Operand[p], call[p].cmp)
              /\ Op(p) # "no_op" /\ (OneWay(mix) => buf[p][l] = mem[l])
<1>. DEFINE S == WordsToWrite(p)
            v(l) == Apply(Op(p), buf[p][l], Operand[p], call[p].cmp)
            r(l) == [do |-> "put", cmp |-> 0, val |-> v(l)]
            locs == call[p].locs
<1>1. pc[p] = "get" /\ locs \in SUBSET Loc /\ call[p].kind \in Kind /\ call[p].cmp \in Value
  BY DEF Operate, At, CallControl
<1>2. \A l \in locs : net[p][l] = NoRequest
  BY <1>1, WaitedFor DEF Operate
<1>3. \A l \in locs : buf[p][l] \in Value
                      /\ (OneWay(mix) /\ Op(p) # "no_op" => buf[p][l] = mem[l])
  BY <1>1, <1>2 DEF RequestsAccounted, WordKept
<1>4. S \subseteq locs /\ \A l \in S : Op(p) # "no_op"
  BY DEF WordsToWrite, Op
<1>5. ASSUME NEW l \in S  PROVE v(l) \in Value
  <2>1. buf[p][l] \in Value /\ Op(p) \in Operations /\ Operand[p] \in Value
    BY <1>1, <1>3, <1>4, KindFacts, OperandType DEF Op
  <2>. QED  BY <1>1, <2>1, ApplyType
<1>6. \A l \in S : r(l) \in Request /\ r(l).do = "put" /\ r(l).val = v(l) /\ r(l) # NoRequest
  <2>1. \A w \in Value : LET x == [do |-> "put", cmp |-> 0, val |-> w]
                        IN x \in Request /\ x.do = "put" /\ x.val = w /\ x # NoRequest
    BY RequestTypes, ValueFacts
  <2>. HIDE DEF S, v
  <2>. QED  BY <1>5, <2>1
<1>7. Issue(p, [l \in S |-> r(l)])
  BY DEF Operate, PutBack, Op
<1>. HIDE DEF S, r, v, locs
<1>8. [l \in S |-> r(l)] \in [S -> Request]
  BY <1>6
<1>9. net' \in [Proc -> [Loc -> Request]]
  BY <1>1, <1>4, <1>7, <1>8, IssueType
<1>10. net' = [net EXCEPT ![p] = [l \in Loc |-> IF l \in S THEN r(l) ELSE @[l]]]
  BY <1>7 DEF Issue
<1>11. /\ \A q \in Proc \ {p} : net'[q] = net[q]
       /\ \A l \in Loc \ S : net'[p][l] = net[p][l]
       /\ \A l \in S : net'[p][l] = r(l)
  BY <1>1, <1>4, <1>10 DEF TypeOK
<1>. QED  BY <1>1, <1>2, <1>3, <1>4, <1>6, <1>9, <1>11 DEF S, v, locs

(* What a request does to its word and to the buffer of its process.       *)
LEMMA DeliverMem ==
  ASSUME TypeOK, CallControl, RequestsAccounted, NEW p \in Proc, NEW l \in Loc, Deliver(p, l)
  PROVE  /\ net[p][l] # NoRequest /\ net' = [net EXCEPT ![p][l] = NoRequest]
         /\ \A m \in Loc \ {l} : mem'[m] = mem[m]
         /\ \A q \in Proc, m \in Loc : <<q, m>> # <<p, l>> => buf'[q][m] = buf[q][m]
         /\ mem'[l] \in Value /\ mem' \in [Loc -> Value]
         /\ buf' \in [Proc -> [Loc -> Value \cup {NoValue}]]
         /\ Getting(p, l) => mem' = mem /\ buf'[p][l] = mem[l]
         /\ Putting(p, l) => mem'[l] = net[p][l].val /\ buf'[p][l] = buf[p][l]
         /\ Direct(p, l) =>
              /\ mem'[l] = Apply(IF net[p][l].do = "fetch" THEN "sum" ELSE net[p][l].do,
                                 mem[l], net[p][l].val, net[p][l].cmp)
              /\ buf'[p][l] = IF net[p][l].do \in {"fetch", "cas"} THEN mem[l] ELSE buf[p][l]
<1>. DEFINE r == net[p][l]
            op == IF r.do = "fetch" THEN "sum" ELSE r.do
            b == Apply(op, mem[l], r.val, r.cmp)
<1>1. r \in Request /\ r.val \in Value /\ r.cmp \in Value /\ mem[l] \in Value
  BY DEF TypeOK, Request
<1>2. /\ r # NoRequest /\ net' = [net EXCEPT ![p][l] = NoRequest]
      /\ mem' = [mem EXCEPT ![l] = CASE r.do = "get" -> @
                                     [] r.do = "put" -> r.val
                                     [] OTHER -> Apply(op, @, r.val, r.cmp)]
      /\ buf' = IF r.do \in {"get", "fetch", "cas"} THEN [buf EXCEPT ![p][l] = mem[l]] ELSE buf
  BY DEF Deliver
<1>3. Direct(p, l) \/ Getting(p, l) \/ Putting(p, l)
  BY <1>2 DEF RequestsAccounted, RequestOK
<1>4. ASSUME Direct(p, l)  PROVE op \in Operations /\ r.do \notin {"get", "put"} /\ b \in Value
  <2>1. r.do \in {"sum", "bor", "replace", "fetch", "cas"}
    BY <1>4 DEF Direct
  <2>2. op \in Operations /\ r.do \notin {"get", "put"}
    BY <2>1 DEF Operations
  <2>. HIDE DEF op
  <2>. QED  BY <1>1, <2>2, ApplyType
<1>5. /\ mem'[l] = CASE r.do = "get" -> mem[l]
                     [] r.do = "put" -> r.val
                     [] OTHER -> b
      /\ \A m \in Loc \ {l} : mem'[m] = mem[m]
  BY <1>2 DEF TypeOK
<1>. HIDE DEF b, op
<1>6. Getting(p, l) => r.do = "get" /\ mem'[l] = mem[l]
  BY <1>5 DEF Getting
<1>7. Putting(p, l) => r.do = "put" /\ mem'[l] = r.val
  BY <1>5 DEF Putting
<1>8. Direct(p, l) => mem'[l] = b /\ b \in Value
  BY <1>4, <1>5
<1>9. mem'[l] \in Value
  BY <1>1, <1>3, <1>6, <1>7, <1>8
<1>10. mem' = [mem EXCEPT ![l] = mem'[l]]
  BY <1>2, <1>5 DEF TypeOK
<1>11. mem' \in [Loc -> Value] /\ (Getting(p, l) => mem' = mem)
  BY <1>6, <1>9, <1>10 DEF TypeOK
<1>12. /\ buf' \in [Proc -> [Loc -> Value \cup {NoValue}]]
       /\ \A q \in Proc, m \in Loc : <<q, m>> # <<p, l>> => buf'[q][m] = buf[q][m]
       /\ buf'[p][l] = IF r.do \in {"get", "fetch", "cas"} THEN mem[l] ELSE buf[p][l]
  BY <1>1, <1>2 DEF TypeOK
<1>13. Direct(p, l) => buf'[p][l] = IF r.do \in {"fetch", "cas"} THEN mem[l] ELSE buf[p][l]
  BY <1>4, <1>12
<1>. QED  BY <1>2, <1>5, <1>6, <1>7, <1>8, <1>9, <1>11, <1>12, <1>13 DEF b, op

(* The steps there are.                                                    *)
LEMMA Steps ==
  ASSUME [Next]_vars
  PROVE  \/ \E p \in Proc, k \in mix, locs \in SUBSET Loc : CallNbi(p, k, locs)
         \/ \E p \in Proc, k \in mix, locs \in SUBSET Loc, cmp \in Value :
              CallSwap(p, k, locs, cmp) \/ CallMutex(p, k, locs, cmp)
         \/ \E p \in Proc : \/ SwapReturns(p) \/ SetMutex(p) \/ Operate(p) \/ PutDone(p)
                           \/ ReleaseMutex(p) \/ Flush(p)
         \/ \E p \in Proc, l \in Loc : Deliver(p, l)
         \/ UNCHANGED vars
<1>1. \A k : Words(k) \subseteq SUBSET Loc
  BY DEF Words
<1>2. Compare \subseteq Value /\ {0} \subseteq Value
  BY ValueAssumption, ValueFacts DEF Value
<1>3. ASSUME NEW p \in Proc, NEW k \in mix, NEW locs \in Words(k),
             NEW cmp \in IF k.op = "cas" THEN Compare ELSE {0}
      PROVE  locs \in SUBSET Loc /\ cmp \in Value
  BY <1>1, <1>2
<1>4. CASE \E p \in Proc, k \in mix : \E locs \in Words(k) : CallNbi(p, k, locs)
  BY <1>1, <1>4
<1>5. CASE \E p \in Proc, k \in mix : \E locs \in Words(k) :
             \E cmp \in IF k.op = "cas" THEN Compare ELSE {0} :
               CallSwap(p, k, locs, cmp) \/ CallMutex(p, k, locs, cmp)
  BY <1>3, <1>5
<1>6. CASE \E p \in Proc : CallStep(p) \/ Flush(p) \/ \E l \in Loc : Deliver(p, l)
  BY <1>6 DEF CallStep
<1>. QED  BY <1>4, <1>5, <1>6 DEF Next

(* The records of calls are records of calls.                              *)
LEMMA CallTypes ==
  /\ NoCall \in CallRecord
  /\ \A k \in Kind, locs \in SUBSET Loc, cmp \in Value :
       [kind |-> k, locs |-> locs, cmp |-> cmp] \in CallRecord
BY ValueFacts DEF CallRecord, NoCall

(* Every step keeps the types.                                             *)
LEMMA TypeStep ==
  ASSUME TypeOK, CallControl, RequestsAccounted, [Next]_vars
  PROVE  TypeOK'
<1>. USE CallTypes DEF CallControl
<1>1. ASSUME NEW p \in Proc, NEW k \in mix, NEW locs \in SUBSET Loc, CallNbi(p, k, locs)
      PROVE  TypeOK'
  <2>1. net' \in [Proc -> [Loc -> Request]]
    BY <1>1, CallNbiNet
  <2>2. buf' \in [Proc -> [Loc -> Value \cup {NoValue}]]
    BY <1>1, BufType DEF CallNbi
  <2>. QED  BY <1>1, <2>1, <2>2 DEF TypeOK, CallNbi, Call
<1>2. ASSUME NEW p \in Proc, NEW k \in mix, NEW locs \in SUBSET Loc, NEW cmp \in Value,
             CallSwap(p, k, locs, cmp)
      PROVE  TypeOK'
  <2>1. net' \in [Proc -> [Loc -> Request]]
    BY <1>2, CallSwapNet
  <2>2. buf' \in [Proc -> [Loc -> Value \cup {NoValue}]]
    BY <1>2, BufType DEF CallSwap, Enter
  <2>. QED  BY <1>2, <2>1, <2>2 DEF TypeOK, CallSwap, Enter, Call
<1>3. ASSUME NEW p \in Proc, NEW k \in mix, NEW locs \in SUBSET Loc, NEW cmp \in Value,
             CallMutex(p, k, locs, cmp)
      PROVE  TypeOK'
  <2>1. buf' \in [Proc -> [Loc -> Value \cup {NoValue}]]
    BY <1>3, BufType DEF CallMutex, Enter
  <2>. QED  BY <1>3, <2>1 DEF TypeOK, CallMutex, Enter, Call
<1>4. ASSUME NEW p \in Proc, SwapReturns(p)  PROVE TypeOK'
  BY <1>4 DEF TypeOK, SwapReturns, Return, At
<1>5. ASSUME NEW p \in Proc, SetMutex(p)  PROVE TypeOK'
  <2>1. net' \in [Proc -> [Loc -> Request]]
    BY <1>5, SetMutexNet
  <2>. QED  BY <1>5, <2>1 DEF TypeOK, SetMutex, At
<1>6. ASSUME NEW p \in Proc, Operate(p)  PROVE TypeOK'
  <2>1. net' \in [Proc -> [Loc -> Request]]
    BY <1>6, OperateNet
  <2>. QED  BY <1>6, <2>1 DEF TypeOK, Operate, At
<1>7. ASSUME NEW p \in Proc, PutDone(p)  PROVE TypeOK'
  BY <1>7 DEF TypeOK, PutDone, At
<1>8. ASSUME NEW p \in Proc, ReleaseMutex(p)  PROVE TypeOK'
  BY <1>8 DEF TypeOK, ReleaseMutex, Return, At
<1>9. ASSUME NEW p \in Proc, Flush(p)  PROVE TypeOK'
  BY <1>9 DEF TypeOK, Flush
<1>10. ASSUME NEW p \in Proc, NEW l \in Loc, Deliver(p, l)  PROVE TypeOK'
  <2>1. /\ mem' \in [Loc -> Value] /\ buf' \in [Proc -> [Loc -> Value \cup {NoValue}]]
        /\ net' = [net EXCEPT ![p][l] = NoRequest]
    BY <1>10, DeliverMem
  <2>2. net' \in [Proc -> [Loc -> Request]]
    BY <2>1, RequestTypes DEF TypeOK
  <2>. QED  BY <1>10, <2>1, <2>2 DEF TypeOK, Deliver
<1>11. CASE UNCHANGED vars
  BY <1>11 DEF TypeOK, vars
<1>. QED  BY <1>1, <1>2, <1>3, <1>4, <1>5, <1>6, <1>7, <1>8, <1>9, <1>10, <1>11, Steps

---------------------------------------------------------------------------
(* The mutex.                                                              *)

(* MutexAccounted says that one process holds the mutex, or none and it is *)
(* free.                                                                   *)
LEMMA HolderSets ==
  /\ IsFiniteSet(Holders) /\ Cardinality(Holders) \in Nat
  /\ MutexAccounted <=> TypeOK /\ Cardinality(Holders) = (IF mutex = MUTEX_NONE THEN 0 ELSE 1)
<1>1. Holders \in SUBSET Proc
  BY DEF Holders
<1>2. IsFiniteSet(Holders)
  BY <1>1, ProcAssumption, FS_Subset
<1>. QED  BY <1>2, FS_CardinalityType DEF MutexAccounted, Holders

(* Two holders of the mutex are one process.                               *)
LEMMA OneHolder ==
  ASSUME MutexAccounted, NEW p \in Holders, NEW q \in Holders
  PROVE  p = q
<1>1. Cardinality(Holders) = 0 \/ Cardinality(Holders) = 1
  BY HolderSets
<1>2. Cardinality(Holders) = 1
  BY <1>1, HolderSets, FS_EmptySet
<1>3. PICK x : Holders = {x}
  BY <1>2, HolderSets, FS_Singleton
<1>. QED  BY <1>3

(* Every step keeps the mutex accounted for.                               *)
LEMMA MutexStep ==
  ASSUME MutexAccounted, CallControl, RequestsAccounted, [Next]_vars
  PROVE  MutexAccounted'
<1>1. TypeOK /\ TypeOK'
  BY HolderSets, TypeStep
<1>. DEFINE Counted_ == Cardinality(Holders)' = (IF mutex' = MUTEX_NONE THEN 0 ELSE 1)
<1>. SUFFICES Counted_
  BY <1>1 DEF MutexAccounted, Holders
<1>2. /\ Cardinality(Holders) = (IF mutex = MUTEX_NONE THEN 0 ELSE 1)
      /\ IsFiniteSet(Holders) /\ mutex \in {MUTEX_NONE, 0} /\ MUTEX_NONE # 0
  BY HolderSets DEF TypeOK, MUTEX_NONE
<1>3. ASSUME NEW p \in Proc, SetMutex(p)  PROVE Counted_
  <2>1. /\ mutex = MUTEX_NONE /\ mutex' = 0 /\ Holders' = Holders \cup {p} /\ p \notin Holders
    BY <1>1, <1>3 DEF SetMutex, At, TypeOK, Holders
  <2>2. Cardinality(Holders') = Cardinality(Holders) + 1
    BY <1>2, <2>1, FS_AddElement
  <2>. QED  BY <1>2, <2>1, <2>2
<1>4. ASSUME NEW p \in Proc, ReleaseMutex(p)  PROVE Counted_
  <2>1. Holders' = Holders \ {p} /\ p \in Holders
    BY <1>1, <1>4 DEF ReleaseMutex, Return, At, TypeOK, Holders
  <2>2. Cardinality(Holders') = Cardinality(Holders) - 1
    BY <1>2, <2>1, FS_RemoveElement
  <2>3. Cardinality(Holders) # 0
    BY <1>2, <2>1, FS_EmptySet
  <2>4. mutex = 0 /\ Cardinality(Holders) = 1 /\ mutex' = MUTEX_NONE
    BY <1>2, <1>4, <2>3 DEF ReleaseMutex
  <2>. QED  BY <2>2, <2>4
<1>5. ASSUME Holders' = Holders, mutex' = mutex  PROVE Counted_
  BY <1>2, <1>5
<1>6. ASSUME NEW p \in Proc, Operate(p) \/ PutDone(p)  PROVE Counted_
  <2>1. Holders' = Holders /\ mutex' = mutex
    BY <1>1, <1>6 DEF Operate, PutDone, At, TypeOK, Holders
  <2>. QED  BY <1>5, <2>1
<1>7. ASSUME NEW p \in Proc, SwapReturns(p)  PROVE Counted_
  <2>1. Holders' = Holders /\ mutex' = mutex
    BY <1>1, <1>7 DEF SwapReturns, Return, At, TypeOK, Holders
  <2>. QED  BY <1>5, <2>1
<1>8. ASSUME NEW p \in Proc, NEW k, NEW locs, NEW cmp,
             CallSwap(p, k, locs, cmp) \/ CallMutex(p, k, locs, cmp)
      PROVE  Counted_
  <2>1. Holders' = Holders /\ mutex' = mutex
    BY <1>1, <1>8 DEF CallSwap, CallMutex, Enter, Call, TypeOK, Holders
  <2>. QED  BY <1>5, <2>1
<1>9. ASSUME pc' = pc, mutex' = mutex  PROVE Counted_
  <2>1. Holders' = Holders
    BY <1>9 DEF Holders
  <2>. QED  BY <1>5, <1>9, <2>1
<1>. HIDE DEF Counted_
<1>. QED
  BY <1>3, <1>4, <1>6, <1>7, <1>8, <1>9, Steps DEF CallNbi, Call, Flush, Deliver, vars

---------------------------------------------------------------------------
(* Calls.                                                                  *)

(* Every step keeps what the place of a process says of its call.          *)
LEMMA CallControlStep ==
  ASSUME TypeOK, CallControl, [Next]_vars
  PROVE  CallControl'
<1>. DEFINE OK(q) == pc[q] # "idle" =>
              /\ call[q].kind \in mix /\ call[q].locs \subseteq Loc /\ call[q].cmp \in Value
              /\ Way(call[q].kind) = IF pc[q] = "swap" THEN "swap" ELSE "mutex"
<1>1. mix' = mix /\ dynamic' = dynamic
  BY ZenonT(60), Steps DEF CallNbi, CallSwap, CallMutex, Enter, Call, SwapReturns, SetMutex, Operate, PutDone,
     ReleaseMutex, Flush, Deliver, vars
<1>2. \A k : Way(k)' = Way(k)
  BY <1>1 DEF Way
<1>3. (mix \subseteq Kind)'
  BY <1>1 DEF CallControl
<1>. SUFFICES ASSUME NEW q \in Proc  PROVE OK(q)'
  BY <1>3 DEF CallControl
<1>4. OK(q)
  BY DEF CallControl
<1>5. ASSUME call'[q] = call[q], pc'[q] = pc[q]  PROVE OK(q)'
  BY <1>1, <1>2, <1>4, <1>5
<1>6. ASSUME NEW p \in Proc, NEW k \in mix, NEW locs \in SUBSET Loc, NEW cmp \in Value,
             CallSwap(p, k, locs, cmp) \/ CallMutex(p, k, locs, cmp)
      PROVE  OK(q)'
  <2>1. ASSUME q = p, CallSwap(p, k, locs, cmp)  PROVE OK(q)'
    <3>1. pc'[q] = "swap" /\ call'[q] = [kind |-> k, locs |-> locs, cmp |-> cmp] /\ Way(k) = "swap"
      BY <2>1 DEF CallSwap, Enter, TypeOK
    <3>. QED  BY <1>1, <1>2, <3>1
  <2>2. ASSUME q = p, CallMutex(p, k, locs, cmp)  PROVE OK(q)'
    <3>1. pc'[q] = "mutex" /\ call'[q] = [kind |-> k, locs |-> locs, cmp |-> cmp] /\ Way(k) = "mutex"
      BY <2>2 DEF CallMutex, Enter, TypeOK
    <3>. QED  BY <1>1, <1>2, <3>1
  <2>3. ASSUME q # p  PROVE OK(q)'
    <3>1. call'[q] = call[q] /\ pc'[q] = pc[q]
      BY <1>6, <2>3 DEF CallSwap, CallMutex, Enter, TypeOK
    <3>. QED  BY <1>5, <3>1
  <2>. QED  BY <1>6, <2>1, <2>2, <2>3
<1>7. ASSUME NEW p \in Proc, SwapReturns(p) \/ ReleaseMutex(p)  PROVE OK(q)'
  <2>1. CASE q = p
    <3>1. pc'[q] = "idle"
      BY <1>7, <2>1 DEF SwapReturns, ReleaseMutex, Return, At, TypeOK
    <3>. QED  BY <3>1
  <2>2. CASE q # p
    <3>1. call'[q] = call[q] /\ pc'[q] = pc[q]
      BY <1>7, <2>2 DEF SwapReturns, ReleaseMutex, Return, At, TypeOK
    <3>. QED  BY <1>5, <3>1
  <2>. QED  BY <2>1, <2>2
<1>8. ASSUME NEW p \in Proc, SetMutex(p) \/ Operate(p) \/ PutDone(p)  PROVE OK(q)'
  <2>1. call'[q] = call[q]
    BY <1>8 DEF SetMutex, Operate, PutDone
  <2>2. CASE q = p
    <3>1. pc[q] \notin {"idle", "swap"} /\ pc'[q] \notin {"idle", "swap"}
      BY <1>8, <2>2 DEF SetMutex, Operate, PutDone, At, TypeOK
    <3>. QED  BY <1>1, <1>2, <1>4, <2>1, <3>1
  <2>3. CASE q # p
    <3>1. pc'[q] = pc[q]
      BY <1>8, <2>3 DEF SetMutex, Operate, PutDone, At, TypeOK
    <3>. QED  BY <1>5, <2>1, <3>1
  <2>. QED  BY <2>2, <2>3
<1>9. ASSUME call' = call, pc' = pc  PROVE OK(q)'
  BY <1>5, <1>9
<1>. HIDE DEF OK
<1>. QED
  BY <1>6, <1>7, <1>8, <1>9, Steps DEF CallNbi, Call, Flush, Deliver, vars

---------------------------------------------------------------------------
(* Requests.                                                               *)

PairOK(q, m) == RequestOK(q, m) /\ WordKept(q, m) /\ Counted(q, m)
ToPut(q, m) == OneWay(mix) /\ Op(q) # "no_op" /\ (Putting(q, m) \/ pc[q] = "get")

(* A step of p other than the network's changes no word, and nothing of    *)
(* another process.                                                        *)
LocalStep(p) ==
  \/ \E k \in mix, locs \in SUBSET Loc : CallNbi(p, k, locs)
  \/ \E k \in mix, locs \in SUBSET Loc, cmp \in Value :
       CallSwap(p, k, locs, cmp) \/ CallMutex(p, k, locs, cmp)
  \/ SwapReturns(p) \/ SetMutex(p) \/ Operate(p) \/ PutDone(p)
  \/ ReleaseMutex(p) \/ Flush(p)

(* A step of one process leaves the words, and the others' requests and    *)
(* calls, alone.                                                           *)
LEMMA OthersKept ==
  ASSUME TypeOK, NEW p \in Proc, LocalStep(p), NEW q \in Proc \ {p}
  PROVE  UNCHANGED <<mem, net[q], buf[q], pc[q], call[q], nbi_counter[q]>>
<1>1. mem' = mem
  BY DEF LocalStep, CallNbi, CallSwap, CallMutex, Enter, Call, SwapReturns, SetMutex, Operate, PutDone,
     ReleaseMutex, Flush
<1>2. pc'[q] = pc[q]
  BY DEF LocalStep, TypeOK, CallNbi, CallSwap, CallMutex, Enter, Call, SwapReturns, SetMutex,
     Operate, PutDone, ReleaseMutex, Flush, At, Return
<1>3. call'[q] = call[q]
  BY DEF LocalStep, TypeOK, CallNbi, CallSwap, CallMutex, Enter, Call, SwapReturns, SetMutex,
     Operate, PutDone, ReleaseMutex, Flush, At, Return
<1>4. nbi_counter'[q] = nbi_counter[q]
  BY DEF LocalStep, TypeOK, CallNbi, CallSwap, CallMutex, Enter, Call, SwapReturns, SetMutex,
     Operate, PutDone, ReleaseMutex, Flush, At, Return
<1>5. buf'[q] = buf[q]
  BY DEF LocalStep, TypeOK, CallNbi, CallSwap, CallMutex, Enter, Call, SwapReturns, SetMutex,
     Operate, PutDone, ReleaseMutex, Flush, At, Return
<1>6. net'[q] = net[q]
  BY DEF LocalStep, TypeOK, CallNbi, CallSwap, CallMutex, Enter, Call, SwapReturns, SetMutex,
     Operate, PutBack, PutDone, ReleaseMutex, Flush, At, Return, Issue
<1>. QED  BY <1>1, <1>2, <1>3, <1>4, <1>5, <1>6

(* What a step leaves alone stays in order, unless it changes a word that  *)
(* is between the get and the put.                                         *)
LEMMA Frame ==
  ASSUME NEW q \in Proc, NEW m \in Loc, PairOK(q, m),
         UNCHANGED <<mix, dynamic, net[q][m], buf[q][m], pc[q], call[q], nbi_counter[q]>>,
         mem'[m] = mem[m] \/ ~ ToPut(q, m)
  PROVE  PairOK(q, m)'
<1>1. \A k : Way(k)' = Way(k)
  BY DEF Way
<1>2. Op(q)' = Op(q) /\ OneWay(mix)' = OneWay(mix)
  BY <1>1 DEF Op, OneWay
<1>3. UnderMutex(q, m)' = UnderMutex(q, m) /\ Putting(q, m)' = Putting(q, m)
  BY <1>2 DEF UnderMutex, Putting
<1>4. RequestOK(q, m)'
  BY <1>1, <1>2, <1>3 DEF PairOK, RequestOK, Direct, Getting
<1>5. WordKept(q, m)'
  BY <1>2, <1>3 DEF PairOK, WordKept, ToPut, Putting
<1>6. Counted(q, m)'
  BY DEF PairOK, Counted
<1>. QED  BY <1>4, <1>5, <1>6 DEF PairOK

(* A call begins or goes on without a word: a request of p to it goes past *)
(* the mutex, and is counted.                                              *)
LEMMA DirectStays ==
  ASSUME NEW q \in Proc, NEW m \in Loc, net[q][m] = NoRequest \/ Direct(q, m),
         UNCHANGED <<mix, dynamic, net[q][m], buf[q][m]>>,
         net[q][m] # NoRequest => nbi_counter'[q] # 0 /\ ~ UnderMutex(q, m)',
         pc'[q] # "get" \/ m \notin call'[q].locs
  PROVE  PairOK(q, m)'
<1>1. \A k : Way(k)' = Way(k)
  BY DEF Way
<1>2. RequestOK(q, m)'
  BY <1>1 DEF RequestOK, Direct
<1>3. ~ Putting(q, m)'
  BY RequestTypes DEF Putting, Direct
<1>4. WordKept(q, m)'
  BY <1>3 DEF WordKept
<1>5. Counted(q, m)'
  BY DEF Counted
<1>. QED  BY <1>2, <1>4, <1>5 DEF PairOK

(* Every step keeps the requests in flight accounted for by calls.         *)
LEMMA RequestsStep ==
  ASSUME IInv, [Next]_vars
  PROVE  RequestsAccounted'
<1>0. TypeOK /\ MutexAccounted /\ CallControl /\ RequestsAccounted
  BY DEF IInv, MutexAccounted
<1>. SUFFICES ASSUME NEW q \in Proc, NEW m \in Loc  PROVE PairOK(q, m)'
  BY DEF RequestsAccounted, PairOK
<1>1. PairOK(q, m)
  BY <1>0 DEF RequestsAccounted, PairOK
<1>2. mix' = mix /\ dynamic' = dynamic
  BY ZenonT(60), Steps DEF CallNbi, CallSwap, CallMutex, Enter, Call, SwapReturns, SetMutex, Operate, PutDone,
     ReleaseMutex, Flush, Deliver, vars
\* outside its get and its put a call has requests in the network only past
\* the mutex
<1>3. pc[q] \notin {"get", "put"} => net[q][m] = NoRequest \/ Direct(q, m)
  BY <1>1 DEF PairOK, RequestOK, Getting, Putting
<1>4. m \notin call[q].locs => net[q][m] = NoRequest \/ Direct(q, m)
  BY <1>1 DEF PairOK, RequestOK, Getting, Putting
<1>5. net[q][m] # NoRequest /\ nbi_counter[q] = 0 =>
         pc[q] \in {"swap", "get", "put"} /\ m \in call[q].locs
  BY <1>1 DEF PairOK, Counted
<1>6. ASSUME NEW k \in mix, NEW locs \in SUBSET Loc, CallNbi(q, k, locs)  PROVE PairOK(q, m)'
  <2>1. /\ pc[q] = "idle" /\ pc'[q] = "idle" /\ nbi_counter'[q] = 1 /\ Way(k) # "mutex"
        /\ buf'[q][m] = IF m \in locs THEN NoValue ELSE buf[q][m]
        /\ m \in locs => net[q][m] = NoRequest
    BY <1>0, <1>6 DEF CallNbi, Call, TypeOK
  <2>0. /\ \A l \in Loc \ Moved(k, locs) : net'[q][l] = net[q][l]
        /\ \A l \in Moved(k, locs) :
             /\ net'[q][l] = [do |-> IF k.call = "get_accumulate" THEN "fetch" ELSE k.op,
                              val |-> Operand[q], cmp |-> 0]
             /\ k.call # "get_accumulate" => k.op \in {"sum", "bor", "replace"}
    BY <1>0, <1>6, CallNbiNet
  <2>2. CASE m \notin Moved(k, locs)
    <3>1. net'[q][m] = net[q][m]
      BY <2>0, <2>2
    <3>2. CASE m \notin locs
      <4>1. buf'[q][m] = buf[q][m] /\ nbi_counter'[q] # 0 /\ pc'[q] = "idle" /\ pc[q] = "idle"
        BY <2>1, <3>2
      <4>. QED  BY <1>2, <1>3, <3>1, <4>1, DirectStays DEF UnderMutex
    <3>3. CASE m \in locs
      BY <2>1, <3>1, <3>3, RequestTypes DEF PairOK, RequestOK, WordKept, Counted, Putting
    <3>. QED  BY <3>2, <3>3
  <2>3. CASE m \in Moved(k, locs)
    <3>1. /\ net'[q][m].do \in {"sum", "bor", "replace", "fetch"} /\ net'[q][m].val = Operand[q]
          /\ m \in locs
      BY <2>0, <2>3, MovedType
    <3>2. Way(k)' # "mutex"
      BY <1>2, <2>1 DEF Way
    <3>3. Direct(q, m)'
      BY <1>2, <2>1, <3>1, <3>2 DEF Direct, UnderMutex
    <3>. QED  BY <2>1, <3>3 DEF PairOK, RequestOK, WordKept, Counted, Putting
  <2>. QED  BY <2>2, <2>3
<1>7. ASSUME NEW k \in mix, NEW locs \in SUBSET Loc, NEW cmp \in Value, CallSwap(q, k, locs, cmp)
      PROVE  PairOK(q, m)'
  <2>1. /\ pc[q] = "idle" /\ pc'[q] = "swap" /\ nbi_counter' = nbi_counter /\ Way(k) = "swap"
        /\ call'[q].locs = locs /\ buf'[q][m] = IF m \in locs THEN NoValue ELSE buf[q][m]
    BY <1>0, <1>7 DEF CallSwap, Enter, Call, TypeOK
  <2>2. CASE m \notin locs
    <3>1. net'[q][m] = net[q][m]
      BY <1>0, <1>7, <2>2, CallSwapNet
    <3>. QED  BY <1>2, <1>3, <1>5, <2>1, <2>2, <3>1, DirectStays DEF UnderMutex
  <2>3. CASE m \in locs
    <3>1. net'[q][m].do = "cas" /\ net'[q][m].val = Operand[q]
      <4>1. net'[q][m] = [do |-> "cas", val |-> Operand[q], cmp |-> cmp]
        BY <1>0, <1>7, <2>3, CallSwapNet
      <4>. QED  BY <4>1
    <3>2. Way(k)' # "mutex"
      BY <1>2, <2>1 DEF Way
    <3>3. Direct(q, m)'
      BY <1>2, <2>1, <3>1, <3>2 DEF Direct, UnderMutex
    <3>. QED  BY <2>1, <2>3, <3>3 DEF PairOK, RequestOK, WordKept, Counted, Putting
  <2>. QED  BY <2>2, <2>3
<1>8. ASSUME NEW k \in mix, NEW locs \in SUBSET Loc, NEW cmp \in Value, CallMutex(q, k, locs, cmp)
      PROVE  PairOK(q, m)'
  <2>1. /\ pc[q] = "idle" /\ pc'[q] = "mutex" /\ nbi_counter' = nbi_counter /\ net' = net
        /\ call'[q].locs = locs /\ buf'[q][m] = IF m \in locs THEN NoValue ELSE buf[q][m]
        /\ m \in locs => net[q][m] = NoRequest
    BY <1>0, <1>8 DEF CallMutex, Enter, Call, TypeOK
  <2>2. CASE m \notin locs
    BY <1>2, <1>3, <1>5, <2>1, <2>2, DirectStays DEF UnderMutex
  <2>3. CASE m \in locs
    BY <2>1, <2>3, RequestTypes DEF PairOK, RequestOK, WordKept, Counted, Putting
  <2>. QED  BY <2>2, <2>3
<1>9. ASSUME SwapReturns(q) \/ ReleaseMutex(q)  PROVE PairOK(q, m)'
  <2>1. /\ pc[q] \in {"swap", "release"} /\ pc'[q] = "idle"
        /\ UNCHANGED <<net, buf, nbi_counter>> /\ (pc[q] = "swap" => Mine(q))
    BY <1>0, <1>9 DEF SwapReturns, ReleaseMutex, Return, At, TypeOK
  <2>2. net[q][m] # NoRequest => nbi_counter[q] # 0
    BY <1>5, <2>1 DEF Mine
  <2>. QED  BY <1>2, <1>3, <2>1, <2>2, DirectStays DEF UnderMutex
<1>10. ASSUME SetMutex(q)  PROVE PairOK(q, m)'
  <2>1. /\ pc[q] = "mutex" /\ pc'[q] = "get" /\ UNCHANGED <<call, buf, nbi_counter>>
    BY <1>0, <1>10 DEF SetMutex, At, TypeOK
  <2>2. CASE m \notin call[q].locs
    <3>1. net'[q][m] = net[q][m]
      BY <1>0, <1>10, <2>2, SetMutexNet
    <3>. QED  BY <1>2, <1>4, <1>5, <2>1, <2>2, <3>1, DirectStays DEF UnderMutex
  <2>3. CASE m \in call[q].locs
    <3>1. net'[q][m].do = "get" /\ net'[q][m] # NoRequest
      BY <1>0, <1>10, <2>3, SetMutexNet
    <3>. QED  BY <2>1, <2>3, <3>1 DEF PairOK, RequestOK, Getting, WordKept, Counted, Putting
  <2>. QED  BY <2>2, <2>3
<1>11. ASSUME Operate(q)  PROVE PairOK(q, m)'
  <2>1. /\ pc[q] = "get" /\ pc'[q] = (IF WordsToWrite(q) = {} THEN "release" ELSE "put")
        /\ UNCHANGED <<mem, call, buf, nbi_counter>>
    BY <1>0, <1>11 DEF Operate, At, TypeOK
  <2>2. CASE m \notin WordsToWrite(q)
    <3>1. /\ net'[q][m] = net[q][m]
          /\ m \in call[q].locs => net[q][m] = NoRequest
      BY <1>0, <1>11, <2>2, OperateNet
    <3>. QED  BY <1>2, <1>4, <1>5, <2>1, <3>1, DirectStays DEF UnderMutex
  <2>3. CASE m \in WordsToWrite(q)
    <3>1. /\ net'[q][m].do = "put" /\ net'[q][m] # NoRequest
          /\ net'[q][m].val = Apply(Op(q), buf[q][m], Operand[q], call[q].cmp)
          /\ Op(q) # "no_op" /\ (OneWay(mix) => buf[q][m] = mem[m])
          /\ m \in call[q].locs /\ buf[q][m] \in Value
      BY <1>0, <1>11, <2>3, OperateNet
    <3>2. Op(q)' = Op(q) /\ OneWay(mix)' = OneWay(mix)
      BY <1>2, <2>1 DEF Op, OneWay, Way
    <3>3. Putting(q, m)'
      BY <2>1, <2>3, <3>1, <3>2 DEF Putting
    <3>. QED  BY <2>1, <2>3, <3>1, <3>2, <3>3 DEF PairOK, RequestOK, WordKept, Counted
  <2>. QED  BY <2>2, <2>3
<1>12. ASSUME PutDone(q)  PROVE PairOK(q, m)'
  <2>1. /\ pc[q] = "put" /\ pc'[q] = "release" /\ UNCHANGED <<mem, call, buf, net>> /\ Waited(q)
        /\ nbi_counter' = IF Single(q) THEN nbi_counter ELSE [nbi_counter EXCEPT ![q] = 0]
    BY <1>0, <1>12 DEF PutDone, At, TypeOK
  <2>2. m \in call[q].locs => net[q][m] = NoRequest
    BY <1>0, <2>1, WaitedFor DEF CallControl
  <2>3. net[q][m] # NoRequest => nbi_counter'[q] # 0
    BY <1>5, <2>1, <2>2 DEF Waited, Quiet
  <2>. QED  BY <1>2, <1>4, <2>1, <2>2, <2>3, DirectStays DEF UnderMutex
<1>13. ASSUME Flush(q)  PROVE PairOK(q, m)'
  <2>1. /\ pc[q] = "idle" /\ UNCHANGED <<mem, call, buf, net, pc>>
        /\ nbi_counter[q] > 0 => Quiet(q)
    BY <1>13 DEF Flush
  <2>2. nbi_counter[q] \in 0 .. 1
    BY <1>0 DEF TypeOK
  <2>3. net[q][m] = NoRequest
    BY <1>5, <2>1, <2>2 DEF Quiet
  <2>. QED  BY <1>2, <2>1, <2>3, DirectStays DEF UnderMutex
<1>14. ASSUME NEW p \in Proc \ {q}, LocalStep(p)  PROVE PairOK(q, m)'
  <2>1. UNCHANGED <<mem, net[q], buf[q], pc[q], call[q], nbi_counter[q]>>
    BY <1>0, <1>14, OthersKept
  <2>. QED  BY <1>1, <1>2, <2>1, Frame
<1>15. ASSUME NEW p \in Proc, NEW l \in Loc, Deliver(p, l)  PROVE PairOK(q, m)'
  <2>0. UNCHANGED <<pc, call, nbi_counter>>
    BY <1>15 DEF Deliver
  <2>1. /\ net' = [net EXCEPT ![p][l] = NoRequest]
        /\ m # l => mem'[m] = mem[m]
        /\ <<q, m>> # <<p, l>> => buf'[q][m] = buf[q][m]
        /\ Getting(p, l) => mem' = mem /\ buf'[p][l] = mem[l]
        /\ UNCHANGED <<pc, call, nbi_counter>>
    <3>1. /\ net' = [net EXCEPT ![p][l] = NoRequest]
          /\ \A n \in Loc \ {l} : mem'[n] = mem[n]
          /\ \A r \in Proc, n \in Loc : <<r, n>> # <<p, l>> => buf'[r][n] = buf[r][n]
          /\ Getting(p, l) => mem' = mem /\ buf'[p][l] = mem[l]
      BY <1>0, <1>15, DeliverMem
    <3>. QED  BY <2>0, <3>1
  <2>2. Direct(p, l) \/ Getting(p, l) \/ Putting(p, l)
    BY <1>0, <1>15 DEF RequestsAccounted, RequestOK, Deliver
  <2>3. CASE q = p /\ m = l
    <3>1. net'[q][m] = NoRequest
      BY <1>0, <2>1, <2>3 DEF TypeOK
    <3>2. ASSUME pc[q] = "get", m \in call[q].locs  PROVE mem' = mem /\ buf'[q][m] = mem[m]
      BY <2>1, <2>2, <2>3, <3>2 DEF Direct, Putting, UnderMutex
    <3>3. mem[m] \in Value
      BY <1>0 DEF TypeOK
    <3>4. WordKept(q, m)'
      BY <2>1, <3>1, <3>2, <3>3, RequestTypes DEF WordKept, Putting
    <3>. QED  BY <3>1, <3>4 DEF PairOK, RequestOK, Counted
  <2>4. CASE <<q, m>> # <<p, l>>
    <3>1. net'[q][m] = net[q][m]
      BY <1>0, <2>1, <2>4 DEF TypeOK
    <3>2. ASSUME m = l, ToPut(q, m)  PROVE mem' = mem
      <4>1. q # p /\ pc[q] \in {"get", "put"} /\ Op(q) # "no_op" /\ q \in Holders
        BY <2>4, <3>2 DEF ToPut, Putting, Holders
      <4>2. ~ Direct(p, l)
        BY <1>0, <3>2, <4>1, WritersExclude DEF Direct, ToPut
      <4>3. ~ Putting(p, l)
        <5>1. Putting(p, l) => p \in Holders
          BY DEF Putting, Holders
        <5>. QED  BY <1>0, <4>1, <5>1, OneHolder
      <4>. QED  BY <2>1, <2>2, <4>2, <4>3
    <3>3. mem'[m] = mem[m] \/ ~ ToPut(q, m)
      BY <2>1, <3>2
    <3>. QED  BY <1>1, <1>2, <2>1, <2>4, <3>1, <3>3, Frame
  <2>. QED  BY <2>3, <2>4
<1>16. ASSUME UNCHANGED vars  PROVE PairOK(q, m)'
  BY <1>1, <1>16, Frame DEF vars
<1>. QED
  BY <1>6, <1>7, <1>8, <1>9, <1>10, <1>11, <1>12, <1>13, <1>14, <1>15, <1>16, Steps DEF LocalStep

---------------------------------------------------------------------------
(* The invariant and the mutex.                                            *)

(* The initial states satisfy the inductive invariant.                     *)
LEMMA InitIInv == Init => IInv
<1>. SUFFICES ASSUME Init  PROVE IInv
  OBVIOUS
<1>1. TypeOK
  BY CallTypes, RequestTypes, ValueFacts DEF Init, TypeOK
<1>2. Holders = {}
  BY DEF Init, Holders
<1>3. MutexAccounted
  BY <1>1, <1>2, HolderSets, FS_EmptySet DEF Init
<1>4. CallControl
  BY MixAssumption DEF Init, CallControl
<1>5. RequestsAccounted
  BY RequestTypes DEF Init, RequestsAccounted, RequestOK, WordKept, Counted, Putting
<1>. QED  BY <1>3, <1>4, <1>5 DEF IInv

(* The mutex, the words and the requests are in order in every state.      *)
THEOREM Invariant == Spec => []IInv
<1>1. ASSUME IInv, [Next]_vars  PROVE IInv'
  <2>1. TypeOK /\ MutexAccounted /\ CallControl /\ RequestsAccounted
    BY <1>1 DEF IInv, MutexAccounted
  <2>. QED  BY <1>1, <2>1, MutexStep, CallControlStep, RequestsStep DEF IInv
<1>. QED  BY InitIInv, <1>1, PTL DEF Spec

(* The window mutex of the target is taken exactly while one process is    *)
(* between the compare and swap that took it and its release: for any      *)
(* processes, words, values and mixes of kinds of calls                    *)
(* (fompi_helper.c:10-43).                                                 *)
THEOREM MutexAccountedCorrect == Spec => []MutexAccounted
BY Invariant, PTL DEF IInv

---------------------------------------------------------------------------
(* The calls implement the abstract updates.  The abstract variables, as   *)
(* functions of the state:                                                 *)

Todo == [p \in Proc |-> {Update(p, l) : l \in {m \in Loc : Pending(p, m)}}]
Got  == [p \in Proc |-> [l \in Loc |-> IF Pending(p, l) THEN NoValue ELSE buf[p][l]]]
Busy == [p \in Proc |-> pc[p] # "idle" \/ nbi_counter[p] > 0]

(* The fields of the abstract update a word's request stands for.          *)
LEMMA UpdateFields ==
  ASSUME NEW p, NEW l
  PROVE  /\ Update(p, l).loc = l /\ Update(p, l).operand = Operand[p]
         /\ Update(p, l).op = IF UnderMutex(p, l) THEN Op(p)
                              ELSE IF net[p][l].do = "fetch" THEN "sum" ELSE net[p][l].do
         /\ Update(p, l).cmp = IF UnderMutex(p, l) THEN call[p].cmp ELSE net[p][l].cmp
         /\ Update(p, l).fetch = (UnderMutex(p, l) \/ net[p][l].do \in {"fetch", "cas"})
BY DEF Update, Op

(* The updates of p, and what it has fetched, are as before the step.      *)
Same(p) == \A l \in Loc :
  /\ Pending(p, l)' <=> Pending(p, l)
  /\ Pending(p, l) => Update(p, l)' = Update(p, l)
  /\ ~ Pending(p, l) => buf'[p][l] = buf[p][l]

(* A process none of whose words changed maps to the same updates.         *)
LEMMA SameMaps ==
  ASSUME NEW p \in Proc, Same(p)
  PROVE  Todo'[p] = Todo[p] /\ Got'[p] = Got[p]
<1>1. {m \in Loc : Pending(p, m)'} = {m \in Loc : Pending(p, m)}
  BY DEF Same
<1>2. {Update(p, l)' : l \in {m \in Loc : Pending(p, m)'}}
        = {Update(p, l) : l \in {m \in Loc : Pending(p, m)}}
  BY <1>1, Zenon DEF Same
<1>3. Todo'[p] = Todo[p]
  BY <1>2 DEF Todo
<1>4. Got'[p] = Got[p]
  BY DEF Same, Got
<1>. QED  BY <1>3, <1>4

(* A process whose variables are unchanged is one of them.                 *)
LEMMA Untouched ==
  ASSUME NEW p \in Proc, UNCHANGED <<net[p], buf[p], pc[p], call[p]>>
  PROVE  Same(p)
<1>1. UNCHANGED Op(p)
  BY DEF Op
<1>2. UNCHANGED WordsToWrite(p)
  BY DEF WordsToWrite
<1>3. \A l \in Loc : Pending(p, l)' <=> Pending(p, l)
  BY <1>2 DEF Pending
<1>4. \A l \in Loc : Update(p, l)' = Update(p, l)
  BY DEF Update, UnderMutex
<1>. QED  BY <1>3, <1>4 DEF Same

(* If nothing that is mapped changes, the abstract specification stutters. *)
LEMMA Stutters ==
  ASSUME \A q \in Proc : Same(q), mem' = mem, Busy' = Busy
  PROVE  UNCHANGED Atomics!vars
<1>1. Todo' = Todo /\ Got' = Got
  BY SameMaps DEF Todo, Got
<1>. QED  BY <1>1 DEF Atomics!vars, Todo, Got, Busy

(* A step that lets one pending update take effect is the abstract step    *)
(* that does.                                                              *)
LEMMA Performs ==
  ASSUME NEW p \in Proc, NEW l \in Loc, Pending(p, l),
         mem' = [mem EXCEPT ![l] = Effect(Update(p, l), @)],
         Got' = [Got EXCEPT ![p][l] = IF Update(p, l).fetch THEN mem[l] ELSE NoValue],
         Todo' = [Todo EXCEPT ![p] = @ \ {Update(p, l)}],
         Busy' = Busy
  PROVE  Atomics!Next
<1>1. Update(p, l) \in Todo[p]
  BY DEF Todo
<1>2. PICK u : u = Update(p, l)
  OBVIOUS
<1>3. u.loc = l
  BY <1>2, UpdateFields
<1>4. mem' = [mem EXCEPT ![u.loc] = Effect(u, @)]
  BY <1>2, <1>3
<1>5. Got' = [Got EXCEPT ![p][u.loc] = IF u.fetch THEN mem[u.loc] ELSE NoValue]
  BY <1>2, <1>3
<1>6. Todo' = [Todo EXCEPT ![p] = @ \ {u}]
  BY <1>2
<1>7. Atomics!Perform(p, u)
  BY <1>4, <1>5, <1>6, Zenon DEF Atomics!Perform, Todo, Got, Busy
<1>8. \E v \in Todo[p] : Atomics!Perform(p, v)
  BY <1>1, <1>2, <1>7
<1>. QED  BY <1>8, Zenon DEF Atomics!Next, Todo

(* A step that adds updates and no effect is an abstract call.             *)
LEMMA Begins ==
  ASSUME NEW p \in Proc, \A q \in Proc \ {p} : Same(q), mem' = mem,
         Busy' = [Busy EXCEPT ![p] = TRUE],
         \A l \in Loc : /\ Pending(p, l) => Pending(p, l)' /\ Update(p, l)' = Update(p, l)
                        /\ ~ Pending(p, l)' => buf'[p][l] = buf[p][l]
  PROVE  Atomics!Next
<1>1. Todo[p] \subseteq Todo'[p]
  BY DEF Todo
<1>2. \A q \in Proc \ {p} : Todo'[q] = Todo[q] /\ Got'[q] = Got[q]
  BY SameMaps
<1>3. \A l \in Loc : (\E u \in Todo'[p] : u.loc = l) <=> Pending(p, l)'
  <2>1. \A l \in Loc : (Update(p, l).loc)' = l
    BY DEF Update
  <2>. QED  BY <2>1 DEF Todo
<1>4. Got' = [Got EXCEPT ![p] = [l \in Loc |->
                IF \E u \in Todo'[p] : u.loc = l THEN NoValue ELSE @[l]]]
  <2>. DEFINE new == [l \in Loc |->
                IF \E u \in Todo'[p] : u.loc = l THEN NoValue ELSE Got[p][l]]
  <2>1. Got = [q \in Proc |-> Got[q]] /\ Got' = [q \in Proc |-> Got'[q]]
    BY Zenon DEF Got
  <2>2. /\ \A l \in Loc : ~ Pending(p, l)' => Got'[p][l] = Got[p][l]
        /\ \A l \in Loc : Pending(p, l)' => Got'[p][l] = NoValue
        /\ Got'[p] = [l \in Loc |-> Got'[p][l]]
    BY DEF Got
  <2>3. Got'[p] = new
    BY <1>3, <2>2
  <2>. HIDE DEF new
  <2>4. Got' = [Got EXCEPT ![p] = new]
    BY <1>2, <2>1, <2>3
  <2>. QED  BY <2>4 DEF new
<1>5. \A q \in Proc \ {p} : Todo'[q] = Todo[q]
  BY <1>2
<1>6. Atomics!Begin(p)
  BY <1>1, <1>4, <1>5, Zenon DEF Atomics!Begin, Todo, Got, Busy
<1>. QED  BY <1>6, Zenon DEF Atomics!Next

(* A flush with nothing pending is an abstract flush.                      *)
LEMMA Syncs ==
  ASSUME NEW p \in Proc, \A q \in Proc : Same(q), mem' = mem,
         \A l \in Loc : ~ Pending(p, l), Busy' = [Busy EXCEPT ![p] = FALSE]
  PROVE  Atomics!Next
<1>1. Todo' = Todo /\ Got' = Got
  BY SameMaps DEF Todo, Got
<1>2. Todo[p] = {}
  BY DEF Todo
<1>3. Atomics!Sync(p)
  BY <1>1, <1>2, Zenon DEF Atomics!Sync, Todo, Got, Busy
<1>. QED  BY <1>3, Zenon DEF Atomics!Next

(* When a process becomes busy, stays busy, and ceases to be.              *)
LEMMA BusyFacts ==
  ASSUME NEW p \in Proc, \A q \in Proc \ {p} : UNCHANGED <<pc[q], nbi_counter[q]>>
  PROVE  /\ (pc[p] # "idle" \/ nbi_counter[p] > 0) /\ (pc'[p] # "idle" \/ nbi_counter'[p] > 0)
              => Busy' = Busy
         /\ UNCHANGED <<pc[p], nbi_counter[p]>> => Busy' = Busy
         /\ pc'[p] # "idle" \/ nbi_counter'[p] > 0 => Busy' = [Busy EXCEPT ![p] = TRUE]
         /\ pc'[p] = "idle" /\ ~ (nbi_counter'[p] > 0) => Busy' = [Busy EXCEPT ![p] = FALSE]
<1>1. \A q \in Proc \ {p} : Busy'[q] = Busy[q]
  BY DEF Busy
<1>2. Busy = [q \in Proc |-> Busy[q]] /\ Busy' = [q \in Proc |-> Busy'[q]]
  BY Zenon DEF Busy
<1>3. /\ pc[p] # "idle" \/ nbi_counter[p] > 0 => Busy[p] = TRUE
      /\ pc'[p] # "idle" \/ nbi_counter'[p] > 0 => Busy'[p] = TRUE
      /\ pc'[p] = "idle" /\ ~ (nbi_counter'[p] > 0) => Busy'[p] = FALSE
      /\ UNCHANGED <<pc[p], nbi_counter[p]>> => Busy'[p] = Busy[p]
  BY DEF Busy
<1>. QED  BY <1>1, <1>2, <1>3

(* With disp_unit 8 the fast path of Get_accumulate moves every word.      *)
LEMMA AllMoved ==
  ASSUME DispUnit = 8, NEW k, NEW locs \in SUBSET Loc
  PROVE  Moved(k, locs) = locs
<1>1. IsFiniteSet(locs) /\ Cardinality(locs) \in Nat
  BY ProcAssumption, FS_Subset, FS_CardinalityType
<1>2. (Cardinality(locs) * DispUnit) \div 8 = Cardinality(locs)
  <2>1. \A n \in Nat : (n * 8) \div 8 = n
    OBVIOUS
  <2>. QED  BY <1>1, <2>1
<1>3. ASSUME NEW l \in locs  PROVE Cardinality({m \in locs : m < l}) < Cardinality(locs)
  <2>. DEFINE below == {m \in locs : m < l}
  <2>1. below \in SUBSET locs
    OBVIOUS
  <2>2. below # locs
    BY ProcAssumption
  <2>. HIDE DEF below
  <2>3. IsFiniteSet(below) /\ Cardinality(below) \in Nat /\ Cardinality(below) <= Cardinality(locs)
        /\ Cardinality(below) # Cardinality(locs)
    BY <1>1, <2>1, <2>2, FS_Subset, FS_CardinalityType
  <2>4. Cardinality(below) < Cardinality(locs)
    BY <1>1, <2>3
  <2>. QED  BY <2>4 DEF below
<1>. QED  BY <1>2, <1>3 DEF Moved

(* An update is the same as long as p's request, or p's call, is.          *)
LEMMA UpdateKept ==
  ASSUME NEW p \in Proc, NEW l \in Loc
  PROVE  /\ ~ UnderMutex(p, l) /\ ~ UnderMutex(p, l)' /\ net'[p][l] = net[p][l]
              => Update(p, l)' = Update(p, l)
         /\ UnderMutex(p, l) /\ UnderMutex(p, l)' /\ call'[p] = call[p]
              => Update(p, l)' = Update(p, l)
<1>1. ASSUME ~ UnderMutex(p, l), ~ UnderMutex(p, l)', net'[p][l] = net[p][l]
      PROVE  Update(p, l)' = Update(p, l)
  BY <1>1 DEF Update
<1>2. ASSUME UnderMutex(p, l), UnderMutex(p, l)', call'[p] = call[p]
      PROVE  Update(p, l)' = Update(p, l)
  BY <1>2 DEF Update
<1>. QED  BY <1>1, <1>2

(* The steps of calls: the beginning, the flush, and steps in between.     *)
LEMMA LocalRefines ==
  ASSUME IInv, Covered, NEW p \in Proc, LocalStep(p)
  PROVE  Atomics!Next \/ UNCHANGED Atomics!vars
<1>0. TypeOK /\ CallControl /\ RequestsAccounted
  BY DEF IInv, MutexAccounted
<1>1. /\ \A q \in Proc \ {p} : Same(q)
      /\ \A q \in Proc \ {p} : UNCHANGED <<pc[q], nbi_counter[q]>>
  BY <1>0, OthersKept, Untouched
<1>2. mem' = mem
  BY DEF LocalStep, CallNbi, CallSwap, CallMutex, Enter, Call, SwapReturns, SetMutex, Operate,
     PutDone, ReleaseMutex, Flush
<1>3. \A l \in Loc : net[p][l] # NoRequest /\ nbi_counter[p] = 0 =>
                       pc[p] \in {"swap", "get", "put"} /\ l \in call[p].locs
  BY <1>0 DEF RequestsAccounted, Counted
<1>4. ASSUME NEW k \in mix, NEW locs \in SUBSET Loc, CallNbi(p, k, locs)  PROVE Atomics!Next
  <2>1. /\ pc[p] = "idle" /\ pc'[p] = "idle" /\ nbi_counter'[p] = 1
        /\ \A l \in locs : net[p][l] = NoRequest
        /\ \A l \in Loc \ locs : buf'[p][l] = buf[p][l]
    BY <1>0, <1>4 DEF CallNbi, Call, TypeOK
  <2>2. Moved(k, locs) = locs
    <3>1. CASE k.call = "get_accumulate"
      <4>1. Way(k) = "nic"
        BY <1>4, <3>1 DEF CallNbi, Way
      <4>2. DispUnit = 8
        BY <3>1, <4>1 DEF Covered
      <4>. QED  BY <4>2, AllMoved
    <3>2. CASE k.call # "get_accumulate"
      BY <3>2 DEF Moved
    <3>. QED  BY <3>1, <3>2
  <2>3. /\ \A l \in Loc \ locs : net'[p][l] = net[p][l]
        /\ \A l \in locs : net'[p][l] # NoRequest
    <3>1. /\ \A l \in Loc \ locs : net'[p][l] = net[p][l]
          /\ \A l \in locs :
               /\ net'[p][l] = [do |-> IF k.call = "get_accumulate" THEN "fetch" ELSE k.op,
                                val |-> Operand[p], cmp |-> 0]
               /\ k.call # "get_accumulate" => k.op \in {"sum", "bor", "replace"}
      BY <1>0, <1>4, <2>2, CallNbiNet
    <3>2. \A l \in locs : net'[p][l].do \in {"fetch", "sum", "bor", "replace"}
      BY <3>1
    <3>. QED  BY <3>1, <3>2, RequestTypes
  <2>4. \A l \in Loc : /\ Pending(p, l) <=> net[p][l] # NoRequest
                       /\ Pending(p, l)' <=> net'[p][l] # NoRequest
    BY <2>1 DEF Pending
  <2>5. \A l \in Loc : ~ UnderMutex(p, l) /\ ~ UnderMutex(p, l)'
    BY <2>1 DEF UnderMutex
  <2>6. \A l \in Loc : /\ Pending(p, l) => Pending(p, l)' /\ Update(p, l)' = Update(p, l)
                       /\ ~ Pending(p, l)' => buf'[p][l] = buf[p][l]
    BY <2>1, <2>3, <2>4, <2>5, UpdateKept
  <2>7. Busy' = [Busy EXCEPT ![p] = TRUE]
    BY <1>1, <2>1, BusyFacts
  <2>. QED  BY <1>1, <1>2, <2>6, <2>7, Begins
<1>5. ASSUME NEW k \in mix, NEW locs \in SUBSET Loc, NEW cmp \in Value, CallSwap(p, k, locs, cmp)
      PROVE  Atomics!Next
  <2>1. /\ pc[p] = "idle" /\ pc'[p] = "swap"
        /\ \A l \in locs : net[p][l] = NoRequest
        /\ \A l \in Loc \ locs : buf'[p][l] = buf[p][l]
    BY <1>0, <1>5 DEF CallSwap, Enter, Call, TypeOK
  <2>2. /\ \A l \in Loc \ locs : net'[p][l] = net[p][l]
        /\ \A l \in locs : net'[p][l] # NoRequest
    <3>1. /\ \A l \in Loc \ locs : net'[p][l] = net[p][l]
          /\ \A l \in locs : net'[p][l] = [do |-> "cas", val |-> Operand[p], cmp |-> cmp]
      BY <1>0, <1>5, CallSwapNet
    <3>2. \A l \in locs : net'[p][l].do = "cas"
      BY <3>1
    <3>. QED  BY <3>1, <3>2, RequestTypes
  <2>4. \A l \in Loc : /\ Pending(p, l) <=> net[p][l] # NoRequest
                       /\ Pending(p, l)' <=> net'[p][l] # NoRequest
    BY <2>1 DEF Pending
  <2>5. \A l \in Loc : ~ UnderMutex(p, l) /\ ~ UnderMutex(p, l)'
    BY <2>1 DEF UnderMutex
  <2>6. \A l \in Loc : /\ Pending(p, l) => Pending(p, l)' /\ Update(p, l)' = Update(p, l)
                       /\ ~ Pending(p, l)' => buf'[p][l] = buf[p][l]
    BY <2>1, <2>2, <2>4, <2>5, UpdateKept
  <2>7. Busy' = [Busy EXCEPT ![p] = TRUE]
    BY <1>1, <2>1, BusyFacts
  <2>. QED  BY <1>1, <1>2, <2>6, <2>7, Begins
<1>6. ASSUME NEW k \in mix, NEW locs \in SUBSET Loc, NEW cmp \in Value, CallMutex(p, k, locs, cmp)
      PROVE  Atomics!Next
  <2>1. /\ pc[p] = "idle" /\ pc'[p] = "mutex" /\ net' = net /\ call'[p].locs = locs
        /\ \A l \in locs : net[p][l] = NoRequest
        /\ \A l \in Loc \ locs : buf'[p][l] = buf[p][l]
    BY <1>0, <1>6 DEF CallMutex, Enter, Call, TypeOK
  <2>2. \A l \in Loc : /\ Pending(p, l) <=> net[p][l] # NoRequest
                       /\ Pending(p, l)' <=> net[p][l] # NoRequest \/ l \in locs
    BY <2>1 DEF Pending
  <2>3. \A l \in Loc : ~ UnderMutex(p, l) /\ (UnderMutex(p, l)' <=> l \in locs)
    BY <2>1 DEF UnderMutex
  <2>4. \A l \in Loc : /\ Pending(p, l) => Pending(p, l)' /\ Update(p, l)' = Update(p, l)
                       /\ ~ Pending(p, l)' => buf'[p][l] = buf[p][l]
    BY <2>1, <2>2, <2>3, UpdateKept
  <2>5. Busy' = [Busy EXCEPT ![p] = TRUE]
    BY <1>1, <2>1, BusyFacts
  <2>. QED  BY <1>1, <1>2, <2>4, <2>5, Begins
\* a call that returns waits for its own words, and what is left is counted
<1>7. ASSUME SwapReturns(p) \/ ReleaseMutex(p) \/ Flush(p)
      PROVE  Atomics!Next \/ UNCHANGED Atomics!vars
  <2>1. /\ pc[p] \in {"swap", "release", "idle"} /\ pc'[p] = "idle" /\ UNCHANGED <<net, buf>>
        /\ pc[p] = "swap" => Mine(p)
        /\ pc[p] = "idle" => (nbi_counter[p] > 0 => Quiet(p)) /\ nbi_counter'[p] = 0 /\ pc' = pc
        /\ pc[p] # "idle" => nbi_counter' = nbi_counter
    BY <1>0, <1>7 DEF SwapReturns, ReleaseMutex, Flush, Return, At, TypeOK
  <2>2. \A l \in Loc : /\ Pending(p, l) <=> net[p][l] # NoRequest
                       /\ Pending(p, l)' <=> net[p][l] # NoRequest
                       /\ ~ UnderMutex(p, l) /\ ~ UnderMutex(p, l)'
    BY <2>1 DEF Pending, UnderMutex
  <2>3. Same(p)
    BY <2>1, <2>2, UpdateKept DEF Same
  <2>4. \A q \in Proc : Same(q)
    BY <1>1, <2>3
  <2>5. nbi_counter[p] \in 0 .. 1
    BY <1>0 DEF TypeOK
  <2>6. nbi_counter[p] = 0 => Quiet(p)
    BY <1>3, <2>1 DEF Mine, Quiet
  <2>7. CASE nbi_counter'[p] > 0
    <3>1. pc[p] # "idle" /\ nbi_counter'[p] > 0
      BY <2>1, <2>7
    <3>2. Busy' = Busy
      BY <1>1, <3>1, BusyFacts, <2>1
    <3>. QED  BY <1>2, <2>4, <3>2, Stutters
  <2>8. CASE ~ (nbi_counter'[p] > 0)
    <3>1. Quiet(p)
      BY <2>1, <2>5, <2>6, <2>8
    <3>2. \A l \in Loc : ~ Pending(p, l)
      BY <2>2, <3>1 DEF Quiet
    <3>3. Busy' = [Busy EXCEPT ![p] = FALSE]
      BY <1>1, <2>1, <2>8, BusyFacts
    <3>. QED  BY <1>2, <2>4, <3>2, <3>3, Syncs
  <2>. QED  BY <2>7, <2>8
<1>8. ASSUME SetMutex(p)  PROVE UNCHANGED Atomics!vars
  <2>1. pc[p] = "mutex" /\ pc'[p] = "get" /\ call' = call /\ buf' = buf
    BY <1>0, <1>8 DEF SetMutex, At, TypeOK
  <2>2. /\ \A l \in Loc \ call[p].locs : net'[p][l] = net[p][l]
        /\ \A l \in call[p].locs : net'[p][l] # NoRequest
    BY <1>0, <1>8, SetMutexNet
  <2>3. WordsToWrite(p)' \subseteq call[p].locs
    BY <2>1 DEF WordsToWrite
  <2>4. \A l \in Loc : Pending(p, l)' <=> Pending(p, l)
    BY <2>1, <2>2, <2>3 DEF Pending
  <2>5. \A l \in Loc : /\ UnderMutex(p, l) <=> l \in call[p].locs
                       /\ UnderMutex(p, l)' <=> l \in call[p].locs
    BY <2>1 DEF UnderMutex
  <2>6. Same(p)
    BY <2>1, <2>2, <2>4, <2>5, UpdateKept DEF Same
  <2>7. Busy' = Busy
    BY <1>1, <2>1, BusyFacts
  <2>. QED  BY <1>1, <1>2, <2>6, <2>7, Stutters
<1>9. ASSUME Operate(p)  PROVE UNCHANGED Atomics!vars
  <2>1. /\ pc[p] = "get" /\ pc'[p] = (IF WordsToWrite(p) = {} THEN "release" ELSE "put")
        /\ call' = call /\ buf' = buf
    BY <1>0, <1>9 DEF Operate, At, TypeOK
  <2>2. /\ \A l \in Loc \ WordsToWrite(p) : net'[p][l] = net[p][l]
        /\ \A l \in WordsToWrite(p) : net'[p][l] # NoRequest
        /\ \A l \in call[p].locs : net[p][l] = NoRequest
        /\ WordsToWrite(p) \subseteq call[p].locs
    BY <1>0, <1>9, OperateNet
  <2>3. \A l \in Loc : Pending(p, l)' <=> Pending(p, l)
    BY <2>1, <2>2 DEF Pending
  <2>4. \A l \in Loc : /\ UnderMutex(p, l) <=> l \in call[p].locs
                       /\ UnderMutex(p, l)' <=> l \in call[p].locs /\ WordsToWrite(p) # {}
    BY <2>1 DEF UnderMutex
  <2>5. ASSUME NEW l \in Loc, Pending(p, l)  PROVE Update(p, l)' = Update(p, l)
    <3>1. l \in WordsToWrite(p) \/ l \notin call[p].locs
      BY <2>1, <2>2, <2>5 DEF Pending
    <3>. QED  BY <2>1, <2>2, <2>4, <3>1, UpdateKept
  <2>6. Same(p)
    BY <2>1, <2>3, <2>5 DEF Same
  <2>7. Busy' = Busy
    BY <1>1, <2>1, BusyFacts
  <2>. QED  BY <1>1, <1>2, <2>6, <2>7, Stutters
<1>10. ASSUME PutDone(p)  PROVE UNCHANGED Atomics!vars
  <2>1. /\ pc[p] = "put" /\ pc'[p] = "release" /\ UNCHANGED <<call, buf, net>> /\ Waited(p)
    BY <1>0, <1>10 DEF PutDone, At, TypeOK
  <2>2. \A l \in call[p].locs : net[p][l] = NoRequest
    BY <1>0, <2>1, WaitedFor DEF CallControl
  <2>3. \A l \in Loc : /\ Pending(p, l) <=> net[p][l] # NoRequest
                       /\ Pending(p, l)' <=> net[p][l] # NoRequest
                       /\ UnderMutex(p, l) <=> l \in call[p].locs
                       /\ ~ UnderMutex(p, l)'
    BY <2>1 DEF Pending, UnderMutex
  <2>4. Same(p)
    BY <2>1, <2>2, <2>3, UpdateKept DEF Same
  <2>5. Busy' = Busy
    BY <1>1, <2>1, BusyFacts
  <2>. QED  BY <1>1, <1>2, <2>4, <2>5, Stutters
<1>. QED  BY <1>4, <1>5, <1>6, <1>7, <1>8, <1>9, <1>10 DEF LocalStep

(* One update of p leaves, and the word's old value is what is fetched.    *)
LEMMA PerformMaps ==
  ASSUME NEW p \in Proc, NEW l \in Loc, \A q \in Proc \ {p} : Same(q),
         \A m \in Loc \ {l} : /\ Pending(p, m)' <=> Pending(p, m)
                              /\ Update(p, m)' = Update(p, m)
                              /\ buf'[p][m] = buf[p][m],
         Pending(p, l), ~ Pending(p, l)',
         buf'[p][l] = IF Update(p, l).fetch THEN mem[l] ELSE NoValue
  PROVE  /\ Got' = [Got EXCEPT ![p][l] = IF Update(p, l).fetch THEN mem[l] ELSE NoValue]
         /\ Todo' = [Todo EXCEPT ![p] = @ \ {Update(p, l)}]
<1>. DEFINE v == IF Update(p, l).fetch THEN mem[l] ELSE NoValue
<1>1. /\ \A q \in Proc \ {p} : Todo'[q] = Todo[q] /\ Got'[q] = Got[q]
      /\ Todo = [q \in Proc |-> Todo[q]] /\ Todo' = [q \in Proc |-> Todo'[q]]
      /\ Got = [q \in Proc |-> Got[q]] /\ Got' = [q \in Proc |-> Got'[q]]
  BY SameMaps, Zenon DEF Todo, Got
<1>2. /\ Got[p] = [m \in Loc |-> Got[p][m]] /\ Got'[p] = [m \in Loc |-> Got'[p][m]]
      /\ Got'[p][l] = v
      /\ \A m \in Loc \ {l} : Got'[p][m] = Got[p][m]
  BY DEF Got
<1>3. \A m \in Loc : Update(p, m).loc = m
  BY UpdateFields
<1>4. Todo[p] = {Update(p, m) : m \in {n \in Loc : Pending(p, n)}}
  BY DEF Todo
<1>5. Todo'[p] = {Update(p, m)' : m \in {n \in Loc : Pending(p, n)'}}
  BY DEF Todo
<1>6. {n \in Loc : Pending(p, n)'} = {n \in Loc : Pending(p, n)} \ {l}
  OBVIOUS
<1>7. Todo'[p] = {Update(p, m) : m \in {n \in Loc : Pending(p, n)} \ {l}}
  BY <1>5, <1>6
<1>8. Todo'[p] = Todo[p] \ {Update(p, l)}
  BY <1>3, <1>4, <1>7
<1>9. Todo' = [Todo EXCEPT ![p] = @ \ {Update(p, l)}]
  BY <1>1, <1>8
<1>. HIDE DEF v
<1>10. Got' = [Got EXCEPT ![p][l] = v]
  BY <1>1, <1>2
<1>. QED  BY <1>9, <1>10 DEF v

(* The network: a get whose word will be put changes nothing yet, every    *)
(* other delivery is the update.                                           *)
LEMMA DeliverRefines ==
  ASSUME IInv, Covered, NEW p \in Proc, NEW l \in Loc, Deliver(p, l)
  PROVE  Atomics!Next \/ UNCHANGED Atomics!vars
<1>. DEFINE u == Update(p, l)
            r == net[p][l]
<1>0. TypeOK /\ CallControl /\ RequestsAccounted
  BY DEF IInv, MutexAccounted
<1>1. /\ r # NoRequest /\ net' = [net EXCEPT ![p][l] = NoRequest]
      /\ \A m \in Loc \ {l} : mem'[m] = mem[m]
      /\ \A q \in Proc, m \in Loc : <<q, m>> # <<p, l>> => buf'[q][m] = buf[q][m]
      /\ mem' \in [Loc -> Value]
      /\ Getting(p, l) => mem' = mem /\ buf'[p][l] = mem[l]
      /\ Putting(p, l) => mem'[l] = r.val /\ buf'[p][l] = buf[p][l]
      /\ Direct(p, l) =>
           /\ mem'[l] = Apply(IF r.do = "fetch" THEN "sum" ELSE r.do, mem[l], r.val, r.cmp)
           /\ buf'[p][l] = IF r.do \in {"fetch", "cas"} THEN mem[l] ELSE buf[p][l]
  BY <1>0, DeliverMem
<1>2. UNCHANGED <<pc, call, nbi_counter>>
  BY DEF Deliver
<1>3. \A q \in Proc \ {p} : Same(q)
  <2>1. \A q \in Proc \ {p} : net'[q] = net[q] /\ buf'[q] = buf[q]
    BY <1>0 DEF Deliver, TypeOK
  <2>. QED  BY <1>2, <2>1, Untouched
<1>4. net'[p][l] = NoRequest /\ \A m \in Loc \ {l} : net'[p][m] = net[p][m]
  BY <1>0, <1>1 DEF TypeOK
<1>5. \A m \in Loc : UnderMutex(p, m)' <=> UnderMutex(p, m)
  BY <1>2 DEF UnderMutex
<1>6. \A m \in Loc \ {l} : /\ Pending(p, m)' <=> Pending(p, m)
                           /\ Update(p, m)' = Update(p, m)
                           /\ buf'[p][m] = buf[p][m]
  <2>1. \A m \in Loc \ {l} : buf'[p][m] = buf[p][m]
    BY <1>1
  <2>2. \A m \in Loc \ {l} : m \in WordsToWrite(p)' <=> m \in WordsToWrite(p)
    BY <1>2, <2>1 DEF WordsToWrite
  <2>3. \A m \in Loc \ {l} : Pending(p, m)' <=> Pending(p, m)
    BY <1>2, <1>4, <2>2 DEF Pending
  <2>4. \A m \in Loc \ {l} : Update(p, m)' = Update(p, m)
    BY <1>2, <1>4, <1>5, UpdateKept
  <2>. QED  BY <2>1, <2>3, <2>4
<1>7. Pending(p, l)
  BY <1>1 DEF Pending
<1>8. Busy' = Busy
  BY <1>2 DEF Busy
<1>9. /\ u.loc = l /\ u.operand = Operand[p]
      /\ u.op = IF UnderMutex(p, l) THEN Op(p) ELSE IF r.do = "fetch" THEN "sum" ELSE r.do
      /\ u.cmp = IF UnderMutex(p, l) THEN call[p].cmp ELSE r.cmp
      /\ u.fetch = (UnderMutex(p, l) \/ r.do \in {"fetch", "cas"})
  BY UpdateFields
<1>10. ASSUME ~ Pending(p, l)', mem'[l] = Effect(u, mem[l]),
              buf'[p][l] = IF u.fetch THEN mem[l] ELSE NoValue
       PROVE  Atomics!Next
  <2>1. /\ Got' = [Got EXCEPT ![p][l] = IF u.fetch THEN mem[l] ELSE NoValue]
        /\ Todo' = [Todo EXCEPT ![p] = @ \ {u}]
    BY <1>3, <1>6, <1>7, <1>10, PerformMaps
  <2>2. mem' = [mem EXCEPT ![l] = Effect(u, @)]
    <3>1. mem' = [mem EXCEPT ![l] = mem'[l]]
      BY <1>0, <1>1 DEF TypeOK
    <3>. QED  BY <1>10, <3>1
  <2>. QED  BY <1>7, <1>8, <2>1, <2>2, Performs
<1>11. CASE Getting(p, l)
  <2>1. pc[p] = "get" /\ l \in call[p].locs /\ UnderMutex(p, l)
    BY <1>11 DEF Getting, UnderMutex
  <2>2. Pending(p, l)' <=> l \in WordsToWrite(p)'
    BY <1>2, <1>4, <2>1 DEF Pending
  <2>3. l \in WordsToWrite(p)' <=> Op(p) # "no_op" /\ (Op(p) = "cas" => mem[l] = call[p].cmp)
    BY <1>1, <1>2, <1>11, <2>1 DEF WordsToWrite, Op
  <2>4. CASE Pending(p, l)'
    <3>1. Update(p, l)' = Update(p, l)
      BY <1>2, <1>5, <2>1, UpdateKept
    <3>2. Same(p)
      BY <1>6, <1>7, <2>4, <3>1 DEF Same
    <3>. QED  BY <1>1, <1>3, <1>8, <1>11, <3>2, Stutters
  <2>5. CASE ~ Pending(p, l)'
    <3>1. Op(p) = "no_op" \/ (Op(p) = "cas" /\ mem[l] # call[p].cmp)
      BY <2>2, <2>3, <2>5
    <3>2. Effect(u, mem[l]) = mem[l]
      <4>1. u.op = Op(p) /\ u.cmp = call[p].cmp
        BY <1>9, <2>1
      <4>. QED  BY <3>1, <4>1 DEF Effect, Apply
    <3>3. u.fetch
      BY <1>9, <2>1
    <3>. QED  BY <1>1, <1>10, <1>11, <2>5, <3>2, <3>3
  <2>. QED  BY <2>4, <2>5
<1>12. CASE Putting(p, l)
  <2>1. /\ pc[p] = "put" /\ UnderMutex(p, l)
        /\ r.val = Apply(Op(p), buf[p][l], Operand[p], call[p].cmp)
    BY <1>12 DEF Putting, UnderMutex
  <2>2. buf[p][l] = mem[l]
    BY <1>0, <1>12 DEF RequestsAccounted, WordKept, Covered
  <2>3. ~ Pending(p, l)'
    BY <1>2, <1>4, <2>1 DEF Pending
  <2>4. Effect(u, mem[l]) = r.val
    <3>1. u.op = Op(p) /\ u.cmp = call[p].cmp /\ u.operand = Operand[p]
      BY <1>9, <2>1
    <3>. QED  BY <2>1, <2>2, <3>1 DEF Effect
  <2>5. u.fetch
    BY <1>9, <2>1
  <2>. QED  BY <1>1, <1>10, <1>12, <2>2, <2>3, <2>4, <2>5
<1>13. CASE Direct(p, l)
  <2>1. /\ ~ UnderMutex(p, l) /\ r.val = Operand[p]
        /\ r.do \in {"sum", "bor", "replace", "fetch", "cas"}
        /\ r.do \in {"sum", "bor", "replace"} => buf[p][l] = NoValue
    BY <1>13 DEF Direct
  <2>2. ~ Pending(p, l)'
    BY <1>2, <1>4, <2>1 DEF Pending, UnderMutex, WordsToWrite
  <2>3. Effect(u, mem[l]) = mem'[l]
    <3>1. /\ u.op = IF r.do = "fetch" THEN "sum" ELSE r.do
          /\ u.cmp = r.cmp /\ u.operand = r.val
      BY <1>9, <2>1
    <3>. QED  BY <1>1, <1>13, <3>1 DEF Effect
  <2>4. u.fetch <=> r.do \in {"fetch", "cas"}
    BY <1>9, <2>1
  <2>5. buf'[p][l] = IF u.fetch THEN mem[l] ELSE NoValue
    BY <1>1, <1>13, <2>1, <2>4
  <2>. QED  BY <1>10, <2>2, <2>3, <2>5
<1>. QED
  BY <1>0, <1>1, <1>11, <1>12, <1>13 DEF RequestsAccounted, RequestOK

(* The initial states are initial states of the abstract atomics.          *)
LEMMA InitRefines == Init => Atomics!Init
<1>. SUFFICES ASSUME Init  PROVE Atomics!Init
  OBVIOUS
<1>1. \A p \in Proc, l \in Loc : ~ Pending(p, l) /\ buf[p][l] = NoValue
  BY DEF Init, Pending
<1>2. Todo = [p \in Proc |-> {}]
  BY <1>1 DEF Todo
<1>3. Got = [p \in Proc |-> [l \in Loc |-> NoValue]]
  BY <1>1 DEF Got
<1>4. Busy = [p \in Proc |-> FALSE]
  <2>1. \A p \in Proc : ~ (pc[p] # "idle" \/ nbi_counter[p] > 0)
    BY DEF Init
  <2>. QED  BY <2>1 DEF Busy
<1>5. mem = [l \in Loc |-> 0]
  BY DEF Init
<1>. QED  BY <1>2, <1>3, <1>4, <1>5, Zenon DEF Atomics!Init, Todo, Got, Busy

(* Every update happens once, in one step between its call and the flush   *)
(* after it, and fetching calls return what was there before: for any      *)
(* processes, words and values, and any mix of kinds of calls that goes    *)
(* one way and, if the window's disp_unit is not the size of the words,    *)
(* has no Get_accumulate in it that goes the fast path (Covered).  Neither *)
(* is kept by the code: with other mixes updates are lost (lines 2022 and  *)
(* 2198 of fompi_win_rma.c).                                               *)
THEOREM CallsImplementAtomics == Spec => ImplementsAtomics
<1>1. ASSUME IInv, [Next]_vars  PROVE [Covered => Atomics!Next]_(Atomics!vars)
  <2>. SUFFICES ASSUME Covered  PROVE Atomics!Next \/ UNCHANGED Atomics!vars
    OBVIOUS
  <2>1. ASSUME NEW p \in Proc, LocalStep(p)  PROVE Atomics!Next \/ UNCHANGED Atomics!vars
    BY <1>1, <2>1, LocalRefines
  <2>2. ASSUME NEW p \in Proc, NEW l \in Loc, Deliver(p, l)
        PROVE  Atomics!Next \/ UNCHANGED Atomics!vars
    BY <1>1, <2>2, DeliverRefines
  <2>3. ASSUME UNCHANGED vars  PROVE UNCHANGED Atomics!vars
    <3>1. \A q \in Proc : Same(q)
      BY <2>3, Untouched DEF vars
    <3>2. Busy' = Busy /\ mem' = mem
      BY <2>3 DEF vars, Busy
    <3>. QED  BY <3>1, <3>2, Stutters
  <2>. QED  BY <1>1, <2>1, <2>2, <2>3, Steps DEF LocalStep
<1>. QED  BY InitRefines, Invariant, <1>1, PTL DEF Spec, ImplementsAtomics
===========================================================================
