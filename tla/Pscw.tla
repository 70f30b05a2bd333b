------------------------------- MODULE Pscw -------------------------------
(***************************************************************************)
(* Post/start/complete/wait synchronisation (fompi_win_pscw.c).            *)
(*                                                                         *)
(* A target exposes its window with Win_post, which adds one to the word   *)
(* exposure[o][t] at every origin o of its group; Win_start at o spins     *)
(* until exposure[o][t] has caught up with access[o][t], its own count.    *)
(* Win_complete adds one to a counter of every target: xpmem_global_counter*)
(* when both run on one node, by a CPU atomic, global_counter otherwise,   *)
(* by a non-blocking remote atomic.  Win_wait spins until their sum is the *)
(* size of the exposure group; each turn reads one counter, then the other.*)
(*                                                                         *)
(* Programs go through Rounds; plan[r] holds who accesses whom in round r, *)
(* different from round to round.  In a round a process posts, starts,     *)
(* accesses, completes and waits, each for the group plan[r] gives it.     *)
(* Processes are never held together: one may be rounds ahead of another.  *)
(***************************************************************************)
EXTENDS Integers, FiniteSets

CONSTANTS
  Proc,
  NodeOf,      \* NodeOf[p]: the node p runs on
  Edges,       \* <<origin, target>> pairs a plan may use
  Rounds,      \* number of rounds (bound)
  MaxPut,      \* puts per epoch (bound)
  AccessRange, \* values of the uint32_t pscw_matching_access, 2^32 in the code
  CharRange,   \* values of the char Win_wait casts to, 2^8 in the code
  Unset        \* what the memory of a new window holds in its two counters

ASSUME ProcAssumption == IsFiniteSet(Proc) /\ Edges \subseteq Proc \X Proc
ASSUME NumberAssumption ==
  /\ Rounds \in Nat /\ MaxPut \in Nat /\ Unset \in Nat
  /\ AccessRange \in Nat \ {0, 1} /\ CharRange \in Nat \ {0}

VARIABLES
  plan,                 \* never changes
  round, pc,
  left,                 \* group members the loop p is in has not handled yet
  access,               \* pscw_matching_access
  exposure,             \* pscw_matching_exposure
  global_counter, xpmem_global_counter,
  seen,                 \* the counter a turn of wait has read already
  nbi_counter,
  net                   \* net[<<op, p, q>>]: requests of p for q in the network

counters == <<global_counter, xpmem_global_counter>>
vars == <<plan, round, pc, left, access, exposure, counters, seen, nbi_counter, net>>

Ops == {"put", "expose", "done"}
Pairs == Proc \X Proc
PcStates == {"post", "posting", "start", "starting", "access", "completing", "wait", "end"}

Targets(p, r) == {t \in Proc : <<p, t>> \in plan[r]}
Origins(p, r) == {o \in Proc : <<o, p>> \in plan[r]}
SameNode(p, q) == NodeOf[p] = NodeOf[q]
Readings == [of : {"none", "global", "xpmem"}, value : Nat]
Nothing == [of |-> "none", value |-> 0]

TypeOK ==
  /\ plan \in [1 .. Rounds -> SUBSET Edges]
  /\ round \in [Proc -> 1 .. Rounds + 1]
  /\ pc \in [Proc -> PcStates]
  /\ left \in [Proc -> SUBSET Proc]
  /\ access \in [Pairs -> 0 .. AccessRange - 1]
  /\ exposure \in [Pairs -> Nat]
  /\ global_counter \in [Proc -> Nat]
  /\ xpmem_global_counter \in [Proc -> Nat]
  /\ seen \in [Proc -> Readings]
  /\ nbi_counter \in [Proc -> Nat]
  /\ net \in [Ops \X Proc \X Proc -> Nat]

\* creation clears access and exposure, and leaves the counters as they are
Init ==
  /\ plan \in [1 .. Rounds -> SUBSET Edges]
  /\ round = [p \in Proc |-> 1]
  /\ pc = [p \in Proc |-> IF Rounds = 0 THEN "end" ELSE "post"]
  /\ left = [p \in Proc |-> {}]
  /\ access = [e \in Pairs |-> 0]
  /\ exposure = [e \in Pairs |-> 0]
  /\ global_counter = [p \in Proc |-> Unset]
  /\ xpmem_global_counter = [p \in Proc |-> Unset]
  /\ seen = [p \in Proc |-> Nothing]
  /\ nbi_counter = [p \in Proc |-> 0]
  /\ net = [r \in Ops \X Proc \X Proc |-> 0]

---------------------------------------------------------------------------
At(p, from, to) == pc[p] = from /\ pc' = [pc EXCEPT ![p] = to]

Send(op, p, q) == net' = [net EXCEPT ![<<op, p, q>>] = @ + 1]

\* dmapp_gsync_wait returns: nothing of p's is in the network
Quiet(p) == \A op \in Ops, q \in Proc : net[<<op, p, q>>] = 0

\* the call's loop goes on to member q, and no member is left after it
Member(p, q) == q \in left[p] /\ left' = [left EXCEPT ![p] = @ \ {q}]
LoopDone(p, from, to) == At(p, from, to) /\ left[p] = {}

---------------------------------------------------------------------------
(* foMPI_Win_post: reset the counters, then tell every origin.             *)

Post(p) ==
  /\ At(p, "post", "posting")
  /\ left' = [left EXCEPT ![p] = Origins(p, round[p])]
  /\ global_counter' = [global_counter EXCEPT ![p] = 0]
  /\ xpmem_global_counter' = [xpmem_global_counter EXCEPT ![p] = 0]
  /\ UNCHANGED <<plan, round, access, exposure, seen, nbi_counter, net>>

PostMember(p, q) ==
  /\ pc[p] = "posting"
  /\ Member(p, q)
  /\ IF SameNode(p, q)
     THEN exposure' = [exposure EXCEPT ![<<q, p>>] = @ + 1] /\ UNCHANGED net
     ELSE Send("expose", p, q) /\ UNCHANGED exposure
  /\ UNCHANGED <<plan, round, pc, access, counters, seen, nbi_counter>>

\* mutant: the counters are reset at the end of the call
PostReturnsLate(p) ==
  /\ LoopDone(p, "posting", "start")
  /\ global_counter' = [global_counter EXCEPT ![p] = 0]
  /\ xpmem_global_counter' = [xpmem_global_counter EXCEPT ![p] = 0]
  /\ UNCHANGED <<plan, round, left, access, exposure, seen, nbi_counter, net>>

PostReturns(p) ==
  /\ LoopDone(p, "posting", "start")
  /\ UNCHANGED <<plan, round, left, access, exposure, counters, seen, nbi_counter, net>>

---------------------------------------------------------------------------
(* foMPI_Win_start                                                         *)

Start(p) ==
  LET group == Targets(p, round[p]) IN
  /\ At(p, "start", "starting")
  /\ left' = [left EXCEPT ![p] = group]
  /\ access' = [e \in Pairs |-> IF e[1] = p /\ e[2] \in group
                                THEN (access[e] + 1) % AccessRange ELSE access[e]]
  /\ UNCHANGED <<plan, round, exposure, counters, seen, nbi_counter, net>>

\* mutant: waits until somebody has posted, ever
StartMemberAnyEpoch(p, q) ==
  /\ pc[p] = "starting"
  /\ Member(p, q)
  /\ exposure[<<p, q>>] > 0
  /\ UNCHANGED <<plan, round, pc, access, exposure, counters, seen, nbi_counter, net>>

\* the spin on member q ends
StartMember(p, q) ==
  /\ pc[p] = "starting"
  /\ Member(p, q)
  /\ access[<<p, q>>] = exposure[<<p, q>>]
  /\ UNCHANGED <<plan, round, pc, access, exposure, counters, seen, nbi_counter, net>>

StartReturns(p) ==
  /\ LoopDone(p, "starting", "access")
  /\ UNCHANGED <<plan, round, left, access, exposure, counters, seen, nbi_counter, net>>

\* an access to a target on another node (on the same node it is a memcpy)
Put(p, t) ==
  /\ pc[p] = "access"
  /\ t \in Targets(p, round[p])
  /\ ~SameNode(p, t)
  /\ nbi_counter[p] < MaxPut
  /\ Send("put", p, t)
  /\ nbi_counter' = [nbi_counter EXCEPT ![p] = @ + 1]
  /\ UNCHANGED <<plan, round, pc, left, access, exposure, counters, seen>>

---------------------------------------------------------------------------
(* foMPI_Win_complete                                                      *)

\* mutant: no flush
CompleteNoFlush(p) ==
  /\ At(p, "access", "completing")
  /\ nbi_counter' = [nbi_counter EXCEPT ![p] = 0]
  /\ left' = [left EXCEPT ![p] = Targets(p, round[p])]
  /\ UNCHANGED <<plan, round, access, exposure, counters, net, seen>>

\* foMPI_Win_flush_all
Complete(p) ==
  /\ At(p, "access", "completing")
  /\ nbi_counter[p] > 0 => Quiet(p)
  /\ nbi_counter' = [nbi_counter EXCEPT ![p] = 0]
  /\ left' = [left EXCEPT ![p] = Targets(p, round[p])]
  /\ UNCHANGED <<plan, round, access, exposure, counters, net, seen>>

CompleteMember(p, q) ==
  /\ pc[p] = "completing"
  /\ Member(p, q)
  /\ IF SameNode(p, q)
     THEN /\ xpmem_global_counter' = [xpmem_global_counter EXCEPT ![q] = @ + 1]
          /\ UNCHANGED net
     ELSE Send("done", p, q) /\ UNCHANGED xpmem_global_counter
  /\ UNCHANGED <<plan, round, pc, access, exposure, global_counter, seen, nbi_counter>>

CompleteReturns(p) ==
  /\ LoopDone(p, "completing", "wait")
  /\ UNCHANGED <<plan, round, left, access, exposure, counters, seen, nbi_counter, net>>

---------------------------------------------------------------------------
(* foMPI_Win_wait and foMPI_Win_test.  A turn reads one of the counters    *)
(* (C leaves open which) and compares the sum when it reads the other; the *)
(* origins go on adding between the two reads.  Win_test takes one turn.   *)

\* n as a signed char
Char(n) == IF n % CharRange < (CharRange + 1) \div 2 THEN n % CharRange
           ELSE (n % CharRange) - CharRange

GroupSize(p) == Cardinality(Origins(p, round[p]))

\* the operands of the sum: the one that was read before, and the other as it is now
Global(p) == IF seen[p].of = "global" THEN seen[p].value ELSE global_counter[p]
Xpmem(p) == IF seen[p].of = "xpmem" THEN seen[p].value ELSE xpmem_global_counter[p]

\* the first read
WaitReads(p) ==
  /\ pc[p] = "wait" /\ seen[p] = Nothing
  /\ \/ seen' = [seen EXCEPT ![p] = [of |-> "global", value |-> global_counter[p]]]
     \/ seen' = [seen EXCEPT ![p] = [of |-> "xpmem", value |-> xpmem_global_counter[p]]]
  /\ UNCHANGED <<plan, round, pc, left, access, exposure, counters, nbi_counter, net>>

\* the second read, and another turn
Again(p) ==
  /\ pc[p] = "wait" /\ seen[p] # Nothing
  /\ seen' = [seen EXCEPT ![p] = Nothing]
  /\ UNCHANGED <<plan, round, pc, left, access, exposure, counters, nbi_counter, net>>

\* the second read, and the end of the epoch
NextRound(p) ==
  /\ At(p, "wait", IF round[p] = Rounds THEN "end" ELSE "post")
  /\ seen[p] # Nothing
  /\ seen' = [seen EXCEPT ![p] = Nothing]
  /\ round' = [round EXCEPT ![p] = @ + 1]
  /\ UNCHANGED <<plan, left, access, exposure, counters, nbi_counter, net>>

WaitAgain(p) == Again(p) /\ Global(p) + Char(Xpmem(p)) # GroupSize(p)

\* mutant: the condition of the build without XPMEM
WaitReturnsNoXpmem(p) == NextRound(p) /\ Global(p) = GroupSize(p)

WaitReturns(p) == NextRound(p) /\ Global(p) + Char(Xpmem(p)) = GroupSize(p)

TestFalse(p) == Again(p) /\ Global(p) + Xpmem(p) # GroupSize(p)

TestTrue(p) == NextRound(p) /\ Global(p) + Xpmem(p) = GroupSize(p)

---------------------------------------------------------------------------
(* The network performs a request of p for q.                              *)

Deliver(op, p, q) ==
  /\ net[<<op, p, q>>] > 0
  /\ net' = [net EXCEPT ![<<op, p, q>>] = @ - 1]
  /\ exposure' = IF op = "expose" THEN [exposure EXCEPT ![<<q, p>>] = @ + 1] ELSE exposure
  /\ global_counter' = IF op = "done" THEN [global_counter EXCEPT ![q] = @ + 1]
                       ELSE global_counter
  /\ UNCHANGED <<plan, round, pc, left, access, xpmem_global_counter, seen, nbi_counter>>

\* every process is through, and no request is left
Finished ==
  /\ \A p \in Proc : pc[p] = "end" /\ Quiet(p)
  /\ UNCHANGED vars

CallStep(p) ==
  \/ Post(p) \/ PostReturns(p) \/ Start(p) \/ StartReturns(p)
  \/ Complete(p) \/ CompleteReturns(p) \/ WaitReads(p) \/ WaitAgain(p) \/ WaitReturns(p)
  \/ \E q \in Proc : PostMember(p, q) \/ StartMember(p, q) \/ CompleteMember(p, q)

Next ==
  \/ \E p \in Proc : CallStep(p) \/ TestFalse(p) \/ TestTrue(p) \/ (\E t \in Proc : Put(p, t))
  \/ \E op \in Ops, p \in Proc, q \in Proc : Deliver(op, p, q)
  \/ Finished

Spec == Init /\ [][Next]_vars

(* Every process goes through its rounds and the network delivers; nobody  *)
(* has to put, and a program that only ever calls Win_wait gets through.   *)
FairSpec ==
  /\ Spec
  /\ \A p \in Proc : WF_vars(CallStep(p))
  /\ \A op \in Ops, p \in Proc, q \in Proc : WF_vars(Deliver(op, p, q))

---------------------------------------------------------------------------
\* p's access epoch covers t: it may access t, or has not told it that it is through
InEpoch(p, t) ==
  \/ pc[p] = "access" /\ t \in Targets(p, round[p])
  \/ pc[p] = "completing" /\ t \in left[p]
  \/ pc[p] = "starting" /\ t \in Targets(p, round[p]) \ left[p]

\* t's exposure epoch includes p
Exposes(t, p) ==
  /\ \/ pc[t] = "posting" /\ p \notin left[t]
     \/ pc[t] \in {"start", "starting", "access", "completing", "wait"}
  /\ p \in Origins(t, round[t])

(* Access epochs lie inside the matching exposure epochs: while p may      *)
(* access t, t is in the same round, has posted to p and has not returned  *)
(* from wait (the spins of lines 52, 58 and 203 match the right epochs     *)
(* although processes may be a round apart).                               *)
EpochsMatch ==
  \A p \in Proc, t \in Proc : InEpoch(p, t) => round[t] = round[p] /\ Exposes(t, p)

(* When wait has returned, no access of the epoch is still to come: the    *)
(* flush of line 78 precedes the notification (lines 86-113).              *)
WaitMeansComplete ==
  \A p \in Proc, t \in Proc : net[<<"put", p, t>>] > 0 => Exposes(t, p) /\ InEpoch(p, t)

\* origins of t's epoch that have told t that they are through
Completed(t) ==
  {p \in Origins(t, round[t]) :
     \/ round[p] > round[t]
     \/ round[p] = round[t] /\ (pc[p] = "wait" \/ (pc[p] = "completing" /\ t \notin left[p]))}
Landing(t) == {p \in Proc : net[<<"done", p, t>>] > 0}

(* During an exposure epoch the two counters and the notifications on      *)
(* their way add up to the origins that have completed: none is lost to    *)
(* the reset of lines 154-157, none is left over from an earlier epoch.    *)
(* The types of the variables are part of the invariant.                   *)
CountersExact ==
  /\ TypeOK
  /\ \A t \in Proc :
       pc[t] \in {"posting", "start", "starting", "access", "completing", "wait"} =>
         global_counter[t] + xpmem_global_counter[t] + Cardinality(Landing(t))
           = Cardinality(Completed(t))

(* Every process gets through: no start or wait spins for ever.            *)
AllFinish == <>(\A p \in Proc : pc[p] = "end")
===========================================================================
