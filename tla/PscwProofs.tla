----------------------------- MODULE PscwProofs -----------------------------
(***************************************************************************)
(* Pscw for any processes, plans and numbers of rounds: IInv is inductive  *)
(* and gives the three safety properties of the synchronisation.           *)
(***************************************************************************)
EXTENDS Pscw, Lemmas, FiniteSetTheorems

---------------------------------------------------------------------------
(* How far a process has got in a round, with respect to another.          *)

\* t has told p that it exposes its window in round r
Posted(t, p, r) ==
  \/ round[t] > r
  \/ round[t] = r /\ \/ pc[t] = "posting" /\ p \notin left[t]
                     \/ pc[t] \in {"start", "starting", "access", "completing", "wait"}

\* p is past the spin on t of round r
Passed(p, t, r) ==
  \/ round[p] > r
  \/ round[p] = r /\ \/ pc[p] = "starting" /\ t \notin left[p]
                     \/ pc[p] \in {"access", "completing", "wait"}

\* p has told t that it is through with round r
Told(p, t, r) ==
  \/ round[p] > r
  \/ round[p] = r /\ \/ pc[p] = "completing" /\ t \notin left[p]
                     \/ pc[p] = "wait"

\* epochs of the pair e in the first k rounds
Epochs(e, k) == Cardinality({r \in 1 .. k : e \in plan[r]})

\* the last round in which t has posted to p, in which p has started, and in
\* which it is past the spin on t
PostedRound(t, p) == IF Posted(t, p, round[t]) THEN round[t] ELSE round[t] - 1
StartedRound(p) ==
  IF pc[p] \in {"starting", "access", "completing", "wait"} THEN round[p] ELSE round[p] - 1
PassedRound(p, t) == IF Passed(p, t, round[p]) THEN round[p] ELSE round[p] - 1

\* everything but the counter a turn of wait has read
Rest == <<plan, round, pc, left, access, exposure, counters, nbi_counter, net>>

---------------------------------------------------------------------------
(* The inductive invariant.                                                *)

(* Loops handle members of their own group; a process is at its end when   *)
(* its rounds are over.                                                    *)
Control ==
  \A p \in Proc :
    /\ pc[p] = "end" <=> round[p] = Rounds + 1
    /\ pc[p] = "posting" => left[p] \subseteq Origins(p, round[p])
    /\ pc[p] \in {"starting", "completing"} => left[p] \subseteq Targets(p, round[p])

(* access counts the epochs p started, in its width; exposure counts no    *)
(* more than the target posted, and all that p has waited for.             *)
PostsCounted ==
  \A p, t \in Proc :
    exposure[<<p, t>>] + net[<<"expose", t, p>>] <= Epochs(<<p, t>>, PostedRound(t, p))
StartsCounted ==
  \A p, t \in Proc : access[<<p, t>>] = Epochs(<<p, t>>, StartedRound(p)) % AccessRange
SpinsCounted ==
  \A p, t \in Proc : Epochs(<<p, t>>, PassedRound(p, t)) <= exposure[<<p, t>>]

(* Nobody leaves a round before its origins are through with it.           *)
WaitAfterTold ==
  \A p, t \in Proc : \A r \in 1 .. Rounds :
    <<p, t>> \in plan[r] /\ round[t] > r => Told(p, t, r)

(* A notification on its way is the only one, and of this epoch.           *)
ToldOnce ==
  \A p, t \in Proc :
    net[<<"done", p, t>>] > 0 =>
      net[<<"done", p, t>>] = 1 /\ p \in Completed(t) /\ Exposes(t, p)

(* Puts are in the network during the epoch they belong to, and counted.   *)
PutsInEpoch ==
  \A p, t \in Proc :
    net[<<"put", p, t>>] > 0 =>
      nbi_counter[p] > 0 /\ pc[p] = "access" /\ <<p, t>> \in plan[round[p]]

(* What a turn of wait has read is no more than the counter holds now.     *)
SeenBound ==
  \A p \in Proc :
    /\ seen[p].of # "none" => pc[p] = "wait"
    /\ seen[p].of = "global" => seen[p].value <= global_counter[p]
    /\ seen[p].of = "xpmem" => seen[p].value <= xpmem_global_counter[p]

IInv ==
  /\ Control /\ PostsCounted /\ StartsCounted /\ SpinsCounted /\ WaitAfterTold
  /\ ToldOnce /\ PutsInEpoch /\ SeenBound /\ CountersExact

---------------------------------------------------------------------------
(* Counting epochs.                                                        *)

(* Epochs counts: the rounds with edge e up to k are finitely many, and    *)
(* none up to 0.                                                           *)
LEMMA EpochsType ==
  ASSUME NEW e, NEW k \in Int
  PROVE  /\ IsFiniteSet({r \in 1 .. k : e \in plan[r]})
         /\ Epochs(e, k) \in Nat
         /\ k <= 0 => Epochs(e, k) = 0
<1>. DEFINE S == {r \in 1 .. k : e \in plan[r]}
<1>1. IsFiniteSet(1 .. k)
  BY FS_Interval
<1>2. IsFiniteSet(S)
  BY <1>1, FS_Subset
<1>3. k <= 0 => S = {}
  OBVIOUS
<1>. QED  BY <1>2, <1>3, FS_CardinalityType, FS_EmptySet DEF Epochs

(* There are no fewer epochs in more rounds.                               *)
LEMMA EpochsMonotone ==
  ASSUME NEW e, NEW k \in Int, NEW m \in Int, k <= m
  PROVE  Epochs(e, k) <= Epochs(e, m)
<1>. DEFINE S(n) == {r \in 1 .. n : e \in plan[r]}
<1>1. IsFiniteSet(S(m))
  BY EpochsType
<1>2. S(k) \in SUBSET S(m)
  OBVIOUS
<1>. QED  BY <1>1, <1>2, FS_Subset DEF Epochs

(* A round adds one epoch to the pairs of its plan.                        *)
LEMMA EpochsNext ==
  ASSUME NEW e, NEW k \in Nat \ {0}
  PROVE  Epochs(e, k) = Epochs(e, k - 1) + (IF e \in plan[k] THEN 1 ELSE 0)
<1>. DEFINE S(n) == {r \in 1 .. n : e \in plan[r]}
<1>1. IsFiniteSet(S(k - 1)) /\ Epochs(e, k - 1) \in Nat
  <2>1. k - 1 \in Int
    OBVIOUS
  <2>. QED  BY <2>1, EpochsType
<1>2. CASE e \in plan[k]
  <2>1. S(k) = S(k - 1) \cup {k} /\ k \notin S(k - 1)
    BY <1>2
  <2>. QED  BY <1>1, <1>2, <2>1, FS_AddElement DEF Epochs
<1>3. CASE e \notin plan[k]
  <2>1. S(k) = S(k - 1)
    BY <1>3
  <2>2. Epochs(e, k) = Epochs(e, k - 1)
    BY <2>1 DEF Epochs
  <2>. QED  BY <1>1, <1>3, <2>2
<1>. QED  BY <1>2, <1>3

---------------------------------------------------------------------------
(* Consequences of the invariant.                                          *)

(* The rounds of two processes, and what is counted from them, are         *)
(* numbers.                                                                *)
LEMMA RoundTypes ==
  ASSUME TypeOK, NEW p \in Proc, NEW t \in Proc
  PROVE  /\ round[p] \in Nat \ {0} /\ round[p] - 1 \in Nat /\ round[t] \in Nat \ {0}
         /\ PostedRound(t, p) \in Nat /\ StartedRound(p) \in Nat /\ PassedRound(p, t) \in Nat
         /\ PostedRound(t, p) \in Int /\ StartedRound(p) \in Int /\ PassedRound(p, t) \in Int
BY NumberAssumption DEF TypeOK, PostedRound, StartedRound, PassedRound

(* Who is past the spin has been told: exposure, which is no more than the *)
(* posts, is no less than the epochs passed.                               *)
LEMMA PassedMeansPosted ==
  ASSUME TypeOK, PostsCounted, SpinsCounted,
         NEW p \in Proc, NEW t \in Proc, NEW r \in 1 .. Rounds,
         <<p, t>> \in plan[r], Passed(p, t, r)
  PROVE  Posted(t, p, r)
<1>. DEFINE e == <<p, t>>
<1>. SUFFICES ASSUME ~ Posted(t, p, r)  PROVE FALSE
  OBVIOUS
<1>1. /\ r \in Nat \ {0} /\ r \in Int /\ r - 1 \in Int
      /\ round[p] \in Int /\ round[t] \in Int
  BY NumberAssumption, RoundTypes
<1>2. PassedRound(p, t) \in Int /\ PassedRound(p, t) >= r
  BY <1>1, RoundTypes DEF Passed, PassedRound
<1>3. PostedRound(t, p) \in Int /\ PostedRound(t, p) <= r - 1
  BY <1>1, RoundTypes DEF Posted, PostedRound
<1>4. Epochs(e, r) <= Epochs(e, PassedRound(p, t))
  BY <1>1, <1>2, EpochsMonotone
<1>5. Epochs(e, PostedRound(t, p)) <= Epochs(e, r - 1)
  BY <1>1, <1>3, EpochsMonotone
<1>6. Epochs(e, r) = Epochs(e, r - 1) + 1
  BY <1>1, EpochsNext
<1>7. /\ Epochs(e, r) \in Nat /\ Epochs(e, r - 1) \in Nat
      /\ Epochs(e, PassedRound(p, t)) \in Nat /\ Epochs(e, PostedRound(t, p)) \in Nat
  BY <1>1, <1>2, <1>3, EpochsType
<1>8. exposure[e] \in Nat /\ net[<<"expose", t, p>>] \in Nat
  BY DEF TypeOK, Pairs, Ops
<1>9. /\ Epochs(e, PassedRound(p, t)) <= exposure[e]
      /\ exposure[e] + net[<<"expose", t, p>>] <= Epochs(e, PostedRound(t, p))
  BY DEF SpinsCounted, PostsCounted
<1>. QED  BY <1>4, <1>5, <1>6, <1>7, <1>8, <1>9

(* EpochsMatch follows: a start saw more posts than there were earlier     *)
(* rounds.                                                                 *)
LEMMA InvImpliesEpochsMatch ==
  ASSUME TypeOK, Control, PostsCounted, SpinsCounted, WaitAfterTold
  PROVE  EpochsMatch
<1>. SUFFICES ASSUME NEW p \in Proc, NEW t \in Proc, InEpoch(p, t)
              PROVE  round[t] = round[p] /\ Exposes(t, p)
  BY DEF EpochsMatch
<1>. DEFINE r == round[p]
<1>1. pc[p] # "end" /\ r \in 1 .. Rounds /\ r \in Int /\ round[t] \in Int
  BY NumberAssumption DEF InEpoch, Control, TypeOK
<1>2. <<p, t>> \in plan[r] /\ Passed(p, t, r) /\ ~ Told(p, t, r)
  BY <1>1 DEF InEpoch, Control, Targets, Passed, Told
<1>3. Posted(t, p, r)
  BY <1>1, <1>2, PassedMeansPosted
<1>4. ~ (round[t] > r)
  BY <1>1, <1>2 DEF WaitAfterTold
<1>. QED  BY <1>1, <1>2, <1>3, <1>4 DEF Posted, Exposes, Origins

---------------------------------------------------------------------------
(* Types, control, and the progress of processes.                          *)

(* Sending one message keeps the type of the network.                      *)
LEMMA SendType ==
  ASSUME TypeOK, NEW op \in Ops, NEW p \in Proc, NEW q \in Proc, Send(op, p, q)
  PROVE  net' \in [Ops \X Proc \X Proc -> Nat]
<1>1. net[<<op, p, q>>] + 1 \in Nat
  BY DEF TypeOK
<1>. QED  BY <1>1 DEF TypeOK, Send

(* Every step of Win_post, start, complete and wait keeps the types.       *)
LEMMA TypeStep ==
  ASSUME TypeOK, Control, [Next]_vars
  PROVE  TypeOK'
<1>. USE NumberAssumption DEF TypeOK, At, LoopDone, Member, counters
<1>1. ASSUME NEW p \in Proc, Post(p)  PROVE TypeOK'
  BY <1>1 DEF Post, PcStates, Origins
<1>2. ASSUME NEW p \in Proc, PostReturns(p) \/ StartReturns(p) \/ CompleteReturns(p)
      PROVE  TypeOK'
  BY <1>2 DEF PostReturns, StartReturns, CompleteReturns, PcStates
<1>3. ASSUME NEW p \in Proc, NEW q \in Proc, PostMember(p, q)  PROVE TypeOK'
  <2>1. exposure' \in [Pairs -> Nat]
    <3>1. <<q, p>> \in Pairs /\ exposure[<<q, p>>] + 1 \in Nat
      BY DEF Pairs
    <3>. QED  BY <1>3, <3>1 DEF PostMember
  <2>2. net' \in [Ops \X Proc \X Proc -> Nat]
    BY <1>3, SendType DEF PostMember, Ops
  <2>3. left' \in [Proc -> SUBSET Proc]
    BY <1>3 DEF PostMember
  <2>. QED  BY <1>3, <2>1, <2>2, <2>3 DEF PostMember
<1>4. ASSUME NEW p \in Proc, Start(p)  PROVE TypeOK'
  <2>1. access' \in [Pairs -> 0 .. AccessRange - 1]
    <3>. SUFFICES ASSUME NEW e \in Pairs  PROVE (access[e] + 1) % AccessRange \in 0 .. AccessRange - 1
      BY <1>4 DEF Start
    <3>1. access[e] + 1 \in Int
      OBVIOUS
    <3>. QED  BY <3>1, ModType
  <2>. QED  BY <1>4, <2>1 DEF Start, PcStates, Targets
<1>5. ASSUME NEW p \in Proc, NEW q \in Proc, StartMember(p, q)  PROVE TypeOK'
  BY <1>5 DEF StartMember
<1>6. ASSUME NEW p \in Proc, NEW t \in Proc, Put(p, t)  PROVE TypeOK'
  <2>1. net' \in [Ops \X Proc \X Proc -> Nat]
    BY <1>6, SendType DEF Put, Ops
  <2>2. nbi_counter' \in [Proc -> Nat]
    BY <1>6 DEF Put
  <2>3. <<plan, round, pc, left, access, exposure, counters, seen>>'
          = <<plan, round, pc, left, access, exposure, counters, seen>>
    BY <1>6 DEF Put
  <2>. QED  BY <2>1, <2>2, <2>3
<1>7. ASSUME NEW p \in Proc, Complete(p)  PROVE TypeOK'
  BY <1>7 DEF Complete, PcStates, Targets
<1>8. ASSUME NEW p \in Proc, NEW q \in Proc, CompleteMember(p, q)  PROVE TypeOK'
  <2>1. net' \in [Ops \X Proc \X Proc -> Nat]
    BY <1>8, SendType DEF CompleteMember, Ops
  <2>2. xpmem_global_counter' \in [Proc -> Nat]
    <3>1. xpmem_global_counter[q] + 1 \in Nat
      OBVIOUS
    <3>2. \/ xpmem_global_counter' = xpmem_global_counter
          \/ xpmem_global_counter' = [xpmem_global_counter EXCEPT ![q] = xpmem_global_counter[q] + 1]
      BY <1>8 DEF CompleteMember
    <3>. QED  BY <3>1, <3>2
  <2>3. left' \in [Proc -> SUBSET Proc]
    BY <1>8 DEF CompleteMember
  <2>. QED  BY <1>8, <2>1, <2>2, <2>3 DEF CompleteMember
<1>9. ASSUME NEW p \in Proc, NextRound(p)  PROVE TypeOK'
  BY <1>9 DEF NextRound, PcStates, Control, Nothing, Readings
<1>10. ASSUME NEW op \in Ops, NEW p \in Proc, NEW q \in Proc, Deliver(op, p, q)  PROVE TypeOK'
  <2>1. net' \in [Ops \X Proc \X Proc -> Nat]
    <3>1. net[<<op, p, q>>] - 1 \in Nat
      BY <1>10 DEF Deliver
    <3>. QED  BY <1>10, <3>1 DEF Deliver
  <2>2. exposure' \in [Pairs -> Nat]
    <3>1. <<q, p>> \in Pairs /\ exposure[<<q, p>>] + 1 \in Nat
      BY DEF Pairs
    <3>. QED  BY <1>10, <3>1 DEF Deliver
  <2>3. global_counter' \in [Proc -> Nat]
    <3>1. global_counter[q] + 1 \in Nat
      OBVIOUS
    <3>2. \/ global_counter' = global_counter
          \/ global_counter' = [global_counter EXCEPT ![q] = global_counter[q] + 1]
      BY <1>10 DEF Deliver
    <3>. QED  BY <3>1, <3>2
  <2>. QED  BY <1>10, <2>1, <2>2, <2>3 DEF Deliver
<1>11. CASE UNCHANGED vars
  BY <1>11 DEF vars
<1>12. ASSUME NEW p \in Proc, WaitReads(p) \/ Again(p)  PROVE TypeOK'
  <2>1. /\ [of |-> "global", value |-> global_counter[p]] \in Readings
        /\ [of |-> "xpmem", value |-> xpmem_global_counter[p]] \in Readings
        /\ Nothing \in Readings
    BY DEF Nothing, Readings
  <2>2. PICK n \in Readings :
          seen' = [seen EXCEPT ![p] = n]
    BY <1>12, <2>1 DEF WaitReads, Again
  <2>3. UNCHANGED Rest
    BY <1>12 DEF WaitReads, Again, Rest
  <2>. QED  BY <2>2, <2>3 DEF Rest
<1>. QED
  BY <1>1, <1>2, <1>3, <1>4, <1>5, <1>6, <1>7, <1>8, <1>9, <1>10, <1>11, <1>12
  DEF Next, CallStep, WaitReturns, WaitAgain, TestTrue, TestFalse, Finished

(* Every step keeps what the place of a process says of its group and      *)
(* round.                                                                  *)
LEMMA ControlStep ==
  ASSUME TypeOK, Control, [Next]_vars
  PROVE  Control'
<1>. DEFINE Goal(o) == /\ pc'[o] = "end" <=> round'[o] = Rounds + 1
                       /\ pc'[o] = "posting" => left'[o] \subseteq Origins(o, round[o])'
                       /\ pc'[o] \in {"starting", "completing"}
                            => left'[o] \subseteq Targets(o, round[o])'
<1>. SUFFICES ASSUME NEW o \in Proc  PROVE Goal(o)
  BY DEF Control
<1>0. /\ pc[o] = "end" <=> round[o] = Rounds + 1
      /\ pc[o] = "posting" => left[o] \subseteq Origins(o, round[o])
      /\ pc[o] \in {"starting", "completing"} => left[o] \subseteq Targets(o, round[o])
      /\ round[o] \in 1 .. Rounds + 1
  BY DEF Control, TypeOK
<1>. USE NumberAssumption, <1>0
     DEF TypeOK, At, LoopDone, Member, Origins, Targets, counters
<1>1. ASSUME NEW p \in Proc, Post(p)  PROVE Goal(o)
  BY <1>1 DEF Post
<1>2. ASSUME NEW p \in Proc, PostReturns(p) \/ StartReturns(p) \/ CompleteReturns(p)
      PROVE  Goal(o)
  BY <1>2 DEF PostReturns, StartReturns, CompleteReturns
<1>3. ASSUME NEW p \in Proc, NEW q \in Proc, PostMember(p, q)  PROVE Goal(o)
  BY <1>3 DEF PostMember
<1>4. ASSUME NEW p \in Proc, Start(p)  PROVE Goal(o)
  BY <1>4 DEF Start
<1>5. ASSUME NEW p \in Proc, NEW q \in Proc, StartMember(p, q)  PROVE Goal(o)
  BY <1>5 DEF StartMember
<1>6. ASSUME NEW p \in Proc, NEW t \in Proc, Put(p, t)  PROVE Goal(o)
  BY <1>6 DEF Put
<1>7. ASSUME NEW p \in Proc, Complete(p)  PROVE Goal(o)
  BY <1>7 DEF Complete
<1>8. ASSUME NEW p \in Proc, NEW q \in Proc, CompleteMember(p, q)  PROVE Goal(o)
  BY <1>8 DEF CompleteMember
<1>9. ASSUME NEW p \in Proc, NextRound(p)  PROVE Goal(o)
  BY <1>9 DEF NextRound
<1>10. ASSUME NEW op \in Ops, NEW p \in Proc, NEW q \in Proc, Deliver(op, p, q)  PROVE Goal(o)
  BY <1>10 DEF Deliver
<1>11. CASE UNCHANGED Rest
  BY <1>11 DEF Rest
<1>. HIDE DEF Goal, TypeOK, At, LoopDone, Member, Origins, Targets, counters
<1>. QED
  BY <1>1, <1>2, <1>3, <1>4, <1>5, <1>6, <1>7, <1>8, <1>9, <1>10, <1>11
  DEF Next, CallStep, WaitReturns, TestTrue, Finished,
      WaitReads, WaitAgain, TestFalse, Again, Rest, vars

(* No process goes back: what it has posted, passed or told stays so.      *)
LEMMA Forward ==
  ASSUME TypeOK, [Next]_vars, NEW p \in Proc, NEW t \in Proc, NEW r \in Int
  PROVE  /\ plan' = plan /\ round'[p] >= round[p]
         /\ Posted(p, t, r) => Posted(p, t, r)'
         /\ Passed(p, t, r) => Passed(p, t, r)'
         /\ Told(p, t, r) => Told(p, t, r)'
<1>. DEFINE Goal == /\ plan' = plan /\ round'[p] >= round[p]
                    /\ Posted(p, t, r) => Posted(p, t, r)'
                    /\ Passed(p, t, r) => Passed(p, t, r)'
                    /\ Told(p, t, r) => Told(p, t, r)'
<1>. SUFFICES Goal
  OBVIOUS
<1>. USE NumberAssumption
     DEF TypeOK, At, LoopDone, Member, Posted, Passed, Told, counters
<1>1. ASSUME NEW o \in Proc, Post(o)  PROVE Goal
  BY <1>1 DEF Post
<1>2. ASSUME NEW o \in Proc, PostReturns(o) \/ StartReturns(o) \/ CompleteReturns(o)
      PROVE  Goal
  BY SMTT(60), <1>2 DEF PostReturns, StartReturns, CompleteReturns
<1>3. ASSUME NEW o \in Proc, NEW q \in Proc, PostMember(o, q)  PROVE Goal
  <2>1. plan' = plan /\ round' = round /\ pc' = pc /\ pc[o] = "posting"
    BY <1>3 DEF PostMember
  <2>2. left' = [left EXCEPT ![o] = left[o] \ {q}]
    BY <1>3 DEF PostMember
  <2>. QED  BY SMTT(60), <2>1, <2>2
<1>4. ASSUME NEW o \in Proc, Start(o)  PROVE Goal
  BY <1>4 DEF Start
<1>5. ASSUME NEW o \in Proc, NEW q \in Proc, StartMember(o, q)  PROVE Goal
  <2>1. plan' = plan /\ round' = round /\ pc' = pc /\ pc[o] = "starting"
    BY <1>5 DEF StartMember
  <2>2. left' = [left EXCEPT ![o] = left[o] \ {q}]
    BY <1>5 DEF StartMember
  <2>. QED  BY SMTT(60), <2>1, <2>2
<1>6. ASSUME NEW o \in Proc, NEW q \in Proc, Put(o, q)  PROVE Goal
  BY <1>6 DEF Put
<1>7. ASSUME NEW o \in Proc, Complete(o)  PROVE Goal
  BY <1>7 DEF Complete
<1>8. ASSUME NEW o \in Proc, NEW q \in Proc, CompleteMember(o, q)  PROVE Goal
  <2>1. plan' = plan /\ round' = round /\ pc' = pc /\ pc[o] = "completing"
    BY <1>8 DEF CompleteMember
  <2>2. left' = [left EXCEPT ![o] = left[o] \ {q}]
    BY <1>8 DEF CompleteMember
  <2>. QED  BY SMTT(60), <2>1, <2>2
<1>9. ASSUME NEW o \in Proc, NextRound(o)  PROVE Goal
  BY SMTT(60), <1>9 DEF NextRound
<1>10. ASSUME NEW op \in Ops, NEW o \in Proc, NEW q \in Proc, Deliver(op, o, q)  PROVE Goal
  BY <1>10 DEF Deliver
<1>11. CASE UNCHANGED Rest
  BY <1>11 DEF Rest
<1>. HIDE DEF Goal, TypeOK, At, LoopDone, Member, Posted, Passed, Told, counters
<1>. QED
  BY <1>1, <1>2, <1>3, <1>4, <1>5, <1>6, <1>7, <1>8, <1>9, <1>10, <1>11
  DEF Next, CallStep, WaitReturns, TestTrue, Finished,
      WaitReads, WaitAgain, TestFalse, Again, Rest, vars

---------------------------------------------------------------------------
(* The three counts.                                                       *)

\* the plan does not change, nor do the epochs of a number of rounds
LEMMA EpochsFixed ==
  ASSUME plan' = plan, NEW p \in Proc, NEW t \in Proc
  PROVE  /\ Epochs(<<p, t>>, PostedRound(t, p))' = Epochs(<<p, t>>, PostedRound(t, p)')
         /\ Epochs(<<p, t>>, StartedRound(p))' = Epochs(<<p, t>>, StartedRound(p)')
         /\ Epochs(<<p, t>>, PassedRound(p, t))' = Epochs(<<p, t>>, PassedRound(p, t)')
BY DEF Epochs

(* What is counted for a pair of processes, in memory or in the network,   *)
(* is a number.                                                            *)
LEMMA PairTypes ==
  ASSUME TypeOK, NEW p \in Proc, NEW t \in Proc
  PROVE  /\ <<p, t>> \in Pairs
         /\ \A op \in Ops : <<op, t, p>> \in Ops \X Proc \X Proc /\ net[<<op, t, p>>] \in Nat
         /\ "expose" \in Ops /\ "put" \in Ops /\ "done" \in Ops
         /\ exposure \in [Pairs -> Nat] /\ net \in [Ops \X Proc \X Proc -> Nat]
         /\ exposure[<<p, t>>] \in Nat
BY DEF TypeOK, Pairs, Ops

\* what a step does to the posts of t to p, sent or received
LEMMA PostsChange ==
  ASSUME TypeOK, [Next]_vars, NEW p \in Proc, NEW t \in Proc
  PROVE  \/ PostMember(t, p)
         \/ exposure'[<<p, t>>] + net'[<<"expose", t, p>>] = exposure[<<p, t>>] + net[<<"expose", t, p>>]
<1>. DEFINE sum == exposure[<<p, t>>] + net[<<"expose", t, p>>]
            same == exposure'[<<p, t>>] + net'[<<"expose", t, p>>] = sum
<1>. SUFFICES PostMember(t, p) \/ same
  OBVIOUS
<1>0. /\ <<p, t>> \in Pairs /\ <<"expose", t, p>> \in Ops \X Proc \X Proc
      /\ exposure \in [Pairs -> Nat] /\ net \in [Ops \X Proc \X Proc -> Nat]
      /\ exposure[<<p, t>>] \in Nat /\ net[<<"expose", t, p>>] \in Nat
  BY PairTypes
<1>1. ASSUME exposure' = exposure, net' = net  PROVE same
  BY <1>1
<1>2. ASSUME NEW o \in Proc, NEW q \in Proc, PostMember(o, q)  PROVE PostMember(t, p) \/ same
  <2>. SUFFICES ASSUME <<o, q>> # <<t, p>>  PROVE same
    BY <1>2
  <2>1. exposure'[<<p, t>>] = exposure[<<p, t>>]
    BY <1>0, <1>2 DEF PostMember
  <2>2. net'[<<"expose", t, p>>] = net[<<"expose", t, p>>]
    BY <1>0, <1>2 DEF PostMember, Send
  <2>. QED  BY <2>1, <2>2
<1>3. ASSUME NEW o \in Proc, NEW q \in Proc, Put(o, q) \/ CompleteMember(o, q)  PROVE same
  <2>1. exposure' = exposure
    BY <1>3 DEF Put, CompleteMember
  <2>2. net'[<<"expose", t, p>>] = net[<<"expose", t, p>>]
    BY <1>0, <1>3 DEF Put, CompleteMember, Send
  <2>. QED  BY <2>1, <2>2
<1>4. ASSUME NEW op \in Ops, NEW o \in Proc, NEW q \in Proc, Deliver(op, o, q)  PROVE same
  <2>1. CASE <<op, o, q>> = <<"expose", t, p>>
    BY <1>0, <1>4, <2>1 DEF Deliver
  <2>2. CASE <<op, o, q>> # <<"expose", t, p>>
    <3>1. net'[<<"expose", t, p>>] = net[<<"expose", t, p>>]
      BY <1>0, <1>4, <2>2 DEF Deliver
    <3>2. exposure'[<<p, t>>] = exposure[<<p, t>>]
      BY <1>0, <1>4, <2>2 DEF Deliver
    <3>. QED  BY <3>1, <3>2
  <2>. QED  BY <2>1, <2>2
<1>. HIDE DEF same
<1>. QED
  BY <1>1, <1>2, <1>3, <1>4
  DEF Next, CallStep, Post, PostReturns, Start, StartMember, StartReturns, Complete,
      CompleteReturns, WaitReturns, TestTrue, NextRound, Finished,
      WaitReads, WaitAgain, TestFalse, Again, Rest, vars

(* Posts that arrived or are under way are no more than the target made,   *)
(* after every step.                                                       *)
LEMMA PostsCountedStep ==
  ASSUME TypeOK, TypeOK', Control, PostsCounted, [Next]_vars
  PROVE  PostsCounted'
<1>. SUFFICES ASSUME NEW p \in Proc, NEW t \in Proc
              PROVE  exposure'[<<p, t>>] + net'[<<"expose", t, p>>]
                       <= Epochs(<<p, t>>, PostedRound(t, p))'
  BY DEF PostsCounted
<1>. DEFINE e == <<p, t>>
            k == PostedRound(t, p)
            m == PostedRound(t, p)'
            sum == exposure[<<p, t>>] + net[<<"expose", t, p>>]
<1>1. /\ plan' = plan /\ round[t] \in Nat \ {0} /\ round'[t] \in Int /\ round'[t] >= round[t]
      /\ \A r \in Int : Posted(t, p, r) => Posted(t, p, r)'
  <2>1. round[t] \in Int /\ round[t] \in Nat \ {0} /\ round'[t] \in Int
    BY SMTT(60), NumberAssumption DEF TypeOK
  <2>2. plan' = plan /\ round'[t] >= round[t] /\ \A r \in Int : Posted(t, p, r) => Posted(t, p, r)'
    BY <2>1, Forward
  <2>. QED  BY <2>1, <2>2
<1>2. k \in Int /\ m \in Int /\ k <= m
  BY <1>1 DEF PostedRound, Posted
<1>3. Epochs(e, k) \in Nat /\ Epochs(e, m) \in Nat /\ Epochs(e, k) <= Epochs(e, m)
  BY <1>2, EpochsType, EpochsMonotone
<1>4. Epochs(<<p, t>>, PostedRound(t, p))' = Epochs(e, m)
  BY <1>1, EpochsFixed
<1>5. sum <= Epochs(e, k)
  BY DEF PostsCounted
<1>6. sum \in Nat /\ exposure[<<p, t>>] \in Nat /\ net[<<"expose", t, p>>] \in Nat
  BY PairTypes
<1>7. CASE exposure'[<<p, t>>] + net'[<<"expose", t, p>>] = sum
  <2>. HIDE DEF k, m, sum
  <2>. QED  BY <1>3, <1>4, <1>5, <1>6, <1>7
<1>8. CASE PostMember(t, p)
  <2>1. k = round[t] - 1 /\ m = round[t] /\ e \in plan[round[t]]
    <3>1. pc[t] = "posting" /\ pc' = pc /\ round' = round
      BY <1>8 DEF PostMember
    <3>2. p \in left[t] /\ p \notin left'[t]
      BY <1>8 DEF PostMember, Member, TypeOK
    <3>3. e \in plan[round[t]]
      BY <3>1, <3>2 DEF Control, Origins
    <3>. QED  BY <1>1, <3>1, <3>2, <3>3 DEF PostedRound, Posted
  <2>2. Epochs(e, m) = Epochs(e, k) + 1
    BY <1>1, <2>1, EpochsNext
  <2>3. exposure'[<<p, t>>] + net'[<<"expose", t, p>>] = sum + 1
    <3>1. CASE SameNode(t, p)
      <4>1. net' = net
        BY <1>8, <3>1 DEF PostMember
      <4>2. exposure'[<<p, t>>] = exposure[<<p, t>>] + 1
        BY <1>8, <3>1, PairTypes DEF PostMember
      <4>. QED  BY <1>6, <4>1, <4>2
    <3>2. CASE ~ SameNode(t, p)
      <4>1. exposure' = exposure
        BY <1>8, <3>2 DEF PostMember
      <4>2. net'[<<"expose", t, p>>] = net[<<"expose", t, p>>] + 1
        BY <1>8, <3>2 DEF PostMember, Send, TypeOK, Ops
      <4>. QED  BY <1>6, <4>1, <4>2
    <3>. QED  BY <3>1, <3>2
  <2>. HIDE DEF k, m, sum
  <2>. QED  BY <1>3, <1>4, <1>5, <1>6, <2>2, <2>3
<1>. QED  BY <1>7, <1>8, PostsChange

\* what a step does to the starts of p
LEMMA StartsChange ==
  ASSUME TypeOK, Control, [Next]_vars, NEW p \in Proc
  PROVE  \/ Start(p)
         \/ /\ StartedRound(p)' = StartedRound(p)
            /\ \A t \in Proc : access'[<<p, t>>] = access[<<p, t>>]
<1>. DEFINE Goal == \/ Start(p)
                    \/ /\ StartedRound(p)' = StartedRound(p)
                       /\ \A t \in Proc : access'[<<p, t>>] = access[<<p, t>>]
<1>. SUFFICES Goal
  OBVIOUS
<1>. USE NumberAssumption DEF TypeOK, StartedRound, At, LoopDone
<1>1. ASSUME NEW o \in Proc, Start(o)  PROVE Goal
  <2>. SUFFICES ASSUME o # p  PROVE Goal
    BY <1>1
  <2>. QED  BY <1>1 DEF Start, Pairs
<1>2. ASSUME NEW o \in Proc, Post(o) \/ PostReturns(o) \/ StartReturns(o)
      PROVE  Goal
  BY <1>2 DEF Post, PostReturns, StartReturns
<1>3. ASSUME NEW o \in Proc, Complete(o) \/ CompleteReturns(o)  PROVE Goal
  BY <1>3 DEF Complete, CompleteReturns
<1>4. ASSUME NEW o \in Proc, NextRound(o)  PROVE Goal
  BY <1>4 DEF NextRound
<1>5. ASSUME access' = access, pc' = pc, round' = round  PROVE Goal
  BY <1>5
<1>. HIDE DEF Goal, TypeOK, StartedRound, At, LoopDone
<1>. QED
  BY <1>1, <1>2, <1>3, <1>4, <1>5
  DEF Next, CallStep, PostMember, StartMember, CompleteMember, Put, Deliver, WaitReturns,
      TestTrue, Finished,
      WaitReads, WaitAgain, TestFalse, Again, Rest, vars

(* Matches stay counted: pscw_matching_access is the number of epochs      *)
(* started.                                                                *)
LEMMA StartsCountedStep ==
  ASSUME TypeOK, TypeOK', Control, StartsCounted, [Next]_vars
  PROVE  StartsCounted'
<1>. SUFFICES ASSUME NEW p \in Proc, NEW t \in Proc
              PROVE  access'[<<p, t>>] = Epochs(<<p, t>>, StartedRound(p))' % AccessRange
  BY DEF StartsCounted
<1>. DEFINE e == <<p, t>>
            r == round[p]
<1>1. plan' = plan /\ r \in Nat \ {0}
  BY Forward, RoundTypes
<1>2. Epochs(<<p, t>>, StartedRound(p))' = Epochs(e, StartedRound(p)')
  BY <1>1, EpochsFixed
<1>3. access[e] = Epochs(e, StartedRound(p)) % AccessRange
  BY DEF StartsCounted
<1>4. ASSUME StartedRound(p)' = StartedRound(p), access'[e] = access[e]
      PROVE  access'[e] = Epochs(<<p, t>>, StartedRound(p))' % AccessRange
  BY <1>2, <1>3, <1>4
<1>5. CASE Start(p)
  <2>1. StartedRound(p) = r - 1 /\ StartedRound(p)' = r
    BY <1>1, <1>5 DEF Start, At, StartedRound, TypeOK
  <2>2. access'[e] = IF e \in plan[r] THEN (access[e] + 1) % AccessRange ELSE access[e]
    BY <1>5 DEF Start, Targets, Pairs
  <2>3. Epochs(e, r) = Epochs(e, r - 1) + (IF e \in plan[r] THEN 1 ELSE 0)
    BY <1>1, EpochsNext
  <2>4. Epochs(e, r - 1) \in Nat
    <3>1. r - 1 \in Int
      BY <1>1
    <3>. QED  BY <3>1, EpochsType
  <2>5. CASE e \in plan[r]
    <3>. DEFINE E == Epochs(e, r - 1)
    <3>1. E \in Int /\ AccessRange \in Nat \ {0}
      BY <2>4, NumberAssumption
    <3>2. Epochs(e, r) = E + 1 /\ access'[e] = ((E % AccessRange) + 1) % AccessRange
      BY <1>3, <2>1, <2>2, <2>3, <2>5
    <3>. HIDE DEF E
    <3>3. ((E % AccessRange) + 1) % AccessRange = (E + 1) % AccessRange
      <4>1. \A d \in Int : ((E % AccessRange) + d) % AccessRange = (E + d) % AccessRange
        BY <3>1, ModShift, Zenon
      <4>. QED  BY <4>1
    <3>. QED  BY <1>2, <2>1, <3>2, <3>3
  <2>6. CASE e \notin plan[r]
    <3>1. Epochs(e, r) = Epochs(e, r - 1)
      BY <2>3, <2>4, <2>6
    <3>. QED  BY <1>2, <1>3, <2>1, <2>2, <2>6, <3>1
  <2>. QED  BY <2>5, <2>6
<1>. QED  BY <1>4, <1>5, StartsChange

\* what a step does to the spins of p on t
LEMMA SpinsChange ==
  ASSUME TypeOK, Control, [Next]_vars, NEW p \in Proc, NEW t \in Proc
  PROVE  /\ PassedRound(p, t)' = PassedRound(p, t) \/ Start(p) \/ StartMember(p, t)
         /\ exposure'[<<p, t>>] >= exposure[<<p, t>>]
<1>1. exposure'[<<p, t>>] >= exposure[<<p, t>>]
  <2>. DEFINE Goal == exposure'[<<p, t>>] >= exposure[<<p, t>>]
  <2>0. exposure \in [Pairs -> Nat] /\ <<p, t>> \in Pairs /\ exposure[<<p, t>>] \in Nat
    BY PairTypes
  <2>1. ASSUME NEW o \in Proc, NEW q \in Proc, PostMember(o, q)  PROVE Goal
    BY <2>0, <2>1 DEF PostMember
  <2>2. ASSUME NEW op \in Ops, NEW o \in Proc, NEW q \in Proc, Deliver(op, o, q)  PROVE Goal
    BY <2>0, <2>2 DEF Deliver
  <2>3. ASSUME exposure' = exposure  PROVE Goal
    BY <2>0, <2>3
  <2>. HIDE DEF Goal
  <2>4. Goal
    BY <2>1, <2>2, <2>3
    DEF Next, CallStep, Post, PostReturns, Start, StartMember, StartReturns, Put, Complete,
        CompleteMember, CompleteReturns, WaitReturns, TestTrue, NextRound, Finished,
      WaitReads, WaitAgain, TestFalse, Again, Rest, vars
  <2>. QED  BY <2>4 DEF Goal
<1>2. PassedRound(p, t)' = PassedRound(p, t) \/ Start(p) \/ StartMember(p, t)
  <2>. DEFINE Goal == PassedRound(p, t)' = PassedRound(p, t) \/ Start(p) \/ StartMember(p, t)
  <2>. SUFFICES Goal
    OBVIOUS
  <2>. USE NumberAssumption DEF TypeOK, Control, PassedRound, Passed, At, LoopDone, Member
  <2>1. ASSUME NEW o \in Proc, Start(o)  PROVE Goal
    <3>. SUFFICES ASSUME o # p  PROVE Goal
      BY <2>1
    <3>. QED  BY <2>1 DEF Start
  <2>2. ASSUME NEW o \in Proc, NEW q \in Proc, StartMember(o, q)  PROVE Goal
    <3>. SUFFICES ASSUME <<o, q>> # <<p, t>>  PROVE Goal
      BY <2>2
    <3>. QED  BY <2>2 DEF StartMember
  <2>3. ASSUME NEW o \in Proc, Post(o) \/ PostReturns(o) \/ StartReturns(o)
        PROVE  Goal
    BY <2>3 DEF Post, PostReturns, StartReturns
  <2>4. ASSUME NEW o \in Proc, Complete(o) \/ CompleteReturns(o)  PROVE Goal
    BY <2>4 DEF Complete, CompleteReturns
  <2>5. ASSUME NEW o \in Proc, NextRound(o)  PROVE Goal
    BY <2>5 DEF NextRound
  <2>6. ASSUME NEW o \in Proc, NEW q \in Proc, PostMember(o, q) \/ CompleteMember(o, q)
        PROVE  Goal
    BY <2>6 DEF PostMember, CompleteMember
  <2>7. ASSUME left' = left, pc' = pc, round' = round  PROVE Goal
    BY <2>7
  <2>. HIDE DEF Goal, TypeOK, Control, PassedRound, Passed, At, LoopDone, Member
  <2>. QED
    BY <2>1, <2>2, <2>3, <2>4, <2>5, <2>6, <2>7
    DEF Next, CallStep, Put, Deliver, WaitReturns, TestTrue, Finished,
      WaitReads, WaitAgain, TestFalse, Again, Rest, vars
<1>. QED  BY <1>1, <1>2

(* A start that leaves its spin for a target has found that target's post. *)
LEMMA SpinsCountedStep ==
  ASSUME TypeOK, TypeOK', Control, StartsCounted, SpinsCounted, [Next]_vars
  PROVE  SpinsCounted'
<1>. SUFFICES ASSUME NEW p \in Proc, NEW t \in Proc
              PROVE  Epochs(<<p, t>>, PassedRound(p, t))' <= exposure'[<<p, t>>]
  BY DEF SpinsCounted
<1>. DEFINE e == <<p, t>>
            r == round[p]
            k == PassedRound(p, t)
<1>1. plan' = plan /\ r \in Nat \ {0} /\ k \in Int
  BY Forward, RoundTypes
<1>2. Epochs(<<p, t>>, PassedRound(p, t))' = Epochs(e, PassedRound(p, t)')
  BY <1>1, EpochsFixed
<1>3. Epochs(e, k) <= exposure[e] /\ Epochs(e, k) \in Nat
  BY <1>1, EpochsType DEF SpinsCounted
<1>4. exposure[e] \in Nat /\ exposure'[e] \in Nat /\ exposure'[e] >= exposure[e]
  BY PairTypes, SpinsChange DEF TypeOK
<1>5. CASE PassedRound(p, t)' = k
  <2>. HIDE DEF k
  <2>. QED  BY <1>2, <1>3, <1>4, <1>5
<1>6. CASE Start(p)
  <2>1. k = r - 1
    BY <1>6 DEF Start, At, PassedRound, Passed, TypeOK
  <2>2. PassedRound(p, t)' = IF e \in plan[r] THEN r - 1 ELSE r
    BY <1>6 DEF Start, At, PassedRound, Passed, TypeOK, Targets
  <2>3. Epochs(e, PassedRound(p, t)') = Epochs(e, k)
    BY <1>1, <1>3, <2>1, <2>2, EpochsNext
  <2>. HIDE DEF k
  <2>. QED  BY <1>2, <1>3, <1>4, <2>3
<1>7. CASE StartMember(p, t)
  <2>1. /\ pc[p] = "starting" /\ pc' = pc /\ round' = round /\ exposure' = exposure
        /\ access[e] = exposure[e] /\ t \in left[p] /\ t \notin left'[p]
    BY <1>7 DEF StartMember, Member, TypeOK
  <2>2. e \in plan[r]
    BY <2>1 DEF Control, Targets
  <2>3. k = r - 1 /\ PassedRound(p, t)' = r /\ StartedRound(p) = r
    BY <1>1, <2>1 DEF PassedRound, Passed, StartedRound
  <2>. DEFINE E == Epochs(e, r)
  <2>4. E \in Nat /\ E - 1 = Epochs(e, k)
    BY <1>1, <1>3, <2>2, <2>3, EpochsNext
  <2>5. exposure[e] = E % AccessRange
    BY <2>1, <2>3 DEF StartsCounted
  <2>. HIDE DEF E, k
  <2>6. E - 1 <= E % AccessRange
    BY <1>3, <2>4, <2>5
  <2>7. E <= E % AccessRange
    BY <2>4, <2>6, ModNotWrapped, NumberAssumption
  <2>. QED  BY <1>2, <2>1, <2>3, <2>5, <2>7 DEF E
<1>. QED  BY <1>5, <1>6, <1>7, SpinsChange

---------------------------------------------------------------------------
(* The end of an exposure epoch.                                           *)

(* The origins that completed a round are those whose notice was sent;     *)
(* they are finitely many.                                                 *)
LEMMA CompletedIsTold ==
  ASSUME TypeOK, NEW t \in Proc
  PROVE  /\ Completed(t) = {p \in Proc : <<p, t>> \in plan[round[t]] /\ Told(p, t, round[t])}
         /\ Completed(t) \subseteq Origins(t, round[t]) /\ Landing(t) \subseteq Proc
         /\ IsFiniteSet(Origins(t, round[t]))
         /\ IsFiniteSet(Completed(t)) /\ Cardinality(Completed(t)) \in Nat
         /\ IsFiniteSet(Landing(t)) /\ Cardinality(Landing(t)) \in Nat
<1>1. Completed(t) = {p \in Proc : <<p, t>> \in plan[round[t]] /\ Told(p, t, round[t])}
  BY DEF Completed, Origins, Told
<1>2. /\ Completed(t) \in SUBSET Origins(t, round[t]) /\ Landing(t) \in SUBSET Proc
      /\ Origins(t, round[t]) \in SUBSET Proc
  BY DEF Completed, Landing, Origins
<1>3. IsFiniteSet(Origins(t, round[t])) /\ IsFiniteSet(Landing(t))
  BY <1>2, ProcAssumption, FS_Subset
<1>4. IsFiniteSet(Completed(t))
  BY <1>2, <1>3, FS_Subset
<1>. QED  BY <1>1, <1>2, <1>3, <1>4, FS_CardinalityType

(* A target exposes itself to an origin exactly when its post of the round *)
(* was made.                                                               *)
LEMMA ExposesIsPosted ==
  ASSUME TypeOK, NEW p \in Proc, NEW t \in Proc
  PROVE  Exposes(t, p) <=> Posted(t, p, round[t]) /\ <<p, t>> \in plan[round[t]]
<1>1. ~ (round[t] > round[t])
  BY RoundTypes
<1>. QED  BY <1>1 DEF Exposes, Posted, Origins

(* The count of local notifications is cut to a char: that makes it less.  *)
LEMMA CharBound ==
  ASSUME NEW n \in Nat
  PROVE  Char(n) \in Int /\ Char(n) <= n
<1>1. n % CharRange \in 0 .. CharRange - 1 /\ n % CharRange <= n
  <2>1. CharRange \in Nat \ {0} /\ n \in Int
    BY NumberAssumption
  <2>2. n % CharRange \in 0 .. CharRange - 1
    BY <2>1, ModType
  <2>3. n % CharRange <= n
    BY <2>1, ModAtMost
  <2>. QED  BY <2>2, <2>3
<1>. DEFINE m == n % CharRange
<1>2. m \in Int /\ m <= n /\ CharRange \in Nat
  BY <1>1, NumberAssumption
<1>3. Char(n) = m \/ Char(n) = m - CharRange
  BY DEF Char
<1>. HIDE DEF m
<1>. QED  BY <1>2, <1>3

(* Who returns from wait has been told by all of its origins.              *)
LEMMA WaitMeansTold ==
  ASSUME TypeOK, SeenBound, CountersExact, NEW t \in Proc, WaitReturns(t) \/ TestTrue(t)
  PROVE  /\ Landing(t) = {}
         /\ \A p \in Proc : <<p, t>> \in plan[round[t]] => Told(p, t, round[t])
<1>. DEFINE O == Origins(t, round[t])
            C == Cardinality(Completed(t))
            L == Cardinality(Landing(t))
            g == global_counter[t]
            x == xpmem_global_counter[t]
            G == Global(t)
            X == Xpmem(t)
<1>1. g + x + L = C
  <2>1. pc[t] = "wait"
    BY DEF WaitReturns, TestTrue, NextRound, At
  <2>. QED  BY <2>1 DEF CountersExact
<1>2. g \in Nat /\ x \in Nat /\ L \in Nat /\ C \in Nat
  BY CompletedIsTold DEF TypeOK
<1>3. Cardinality(O) \in Nat /\ C <= Cardinality(O) /\ (Cardinality(O) = C => O = Completed(t))
  <2>1. Completed(t) \in SUBSET O /\ IsFiniteSet(O)
    BY CompletedIsTold
  <2>. QED  BY <2>1, FS_Subset, FS_CardinalityType
<1>4. \/ G + Char(X) = Cardinality(O)
      \/ G + X = Cardinality(O)
  BY DEF WaitReturns, TestTrue, GroupSize
<1>5. G \in Nat /\ G <= g /\ X \in Nat /\ X <= x /\ Char(X) \in Int /\ Char(X) <= X
  <2>1. G \in Nat /\ G <= g /\ X \in Nat /\ X <= x
    BY <1>2 DEF Global, Xpmem, SeenBound, TypeOK, Readings
  <2>. QED  BY <2>1, CharBound
<1>6. L = 0 /\ C = Cardinality(O)
  <2>. HIDE DEF O, C, L, g, x, G, X
  <2>. QED  BY <1>1, <1>2, <1>3, <1>4, <1>5
<1>7. Landing(t) = {}
  BY <1>6, CompletedIsTold, FS_EmptySet
<1>8. Origins(t, round[t]) = Completed(t)
  BY <1>3, <1>6
<1>. QED  BY <1>7, <1>8, CompletedIsTold DEF Origins

(* A target's round changes only by a Win_wait or Win_test that returns.   *)
LEMMA RoundChange ==
  ASSUME TypeOK, [Next]_vars, NEW t \in Proc
  PROVE  \/ round'[t] = round[t]
         \/ (WaitReturns(t) \/ TestTrue(t)) /\ round'[t] = round[t] + 1
<1>. DEFINE Goal == \/ round'[t] = round[t]
                    \/ (WaitReturns(t) \/ TestTrue(t)) /\ round'[t] = round[t] + 1
<1>. SUFFICES Goal
  OBVIOUS
<1>1. ASSUME NEW o \in Proc, WaitReturns(o) \/ TestTrue(o)  PROVE Goal
  <2>1. round' = [round EXCEPT ![o] = @ + 1]
    BY <1>1 DEF WaitReturns, TestTrue, NextRound
  <2>. QED  BY <1>1, <2>1 DEF TypeOK
<1>2. ASSUME round' = round  PROVE Goal
  BY <1>2
<1>. HIDE DEF Goal
<1>. QED
  BY <1>1, <1>2
  DEF Next, CallStep, Post, PostMember, PostReturns, Start, StartMember, StartReturns, Put,
      Complete, CompleteMember, CompleteReturns, Deliver, Finished,
      WaitReads, WaitAgain, TestFalse, Again, Rest, vars

(* A target is past a round only when all its origins have told it.        *)
LEMMA WaitAfterToldStep ==
  ASSUME TypeOK, SeenBound, CountersExact, WaitAfterTold, [Next]_vars
  PROVE  WaitAfterTold'
<1>. SUFFICES ASSUME NEW p \in Proc, NEW t \in Proc, NEW r \in 1 .. Rounds,
                     <<p, t>> \in plan'[r], round'[t] > r
              PROVE  Told(p, t, r)'
  BY DEF WaitAfterTold
<1>1. r \in Int /\ round[t] \in Int
  BY NumberAssumption, RoundTypes
<1>2. plan' = plan /\ (Told(p, t, r) => Told(p, t, r)')
  BY <1>1, Forward
<1>3. CASE round[t] > r
  BY <1>2, <1>3 DEF WaitAfterTold
<1>4. CASE ~ (round[t] > r)
  <2>1. r = round[t] /\ (WaitReturns(t) \/ TestTrue(t))
    BY <1>1, <1>4, RoundChange
  <2>. QED  BY <1>2, <2>1, WaitMeansTold
<1>. QED  BY <1>3, <1>4

---------------------------------------------------------------------------
(* Requests in the network.                                                *)

\* what a step does to the notification of p for t
LEMMA DoneChange ==
  ASSUME TypeOK, [Next]_vars, NEW p \in Proc, NEW t \in Proc
  PROVE  \/ net'[<<"done", p, t>>] <= net[<<"done", p, t>>]
         \/ /\ CompleteMember(p, t)
            /\ net'[<<"done", p, t>>] = net[<<"done", p, t>>] + 1
<1>. DEFINE Goal == \/ net'[<<"done", p, t>>] <= net[<<"done", p, t>>]
                    \/ /\ CompleteMember(p, t)
                       /\ net'[<<"done", p, t>>] = net[<<"done", p, t>>] + 1
<1>. SUFFICES Goal
  OBVIOUS
<1>0. /\ net \in [Ops \X Proc \X Proc -> Nat] /\ <<"done", p, t>> \in Ops \X Proc \X Proc
      /\ net[<<"done", p, t>>] \in Nat
  BY PairTypes
<1>1. ASSUME NEW o \in Proc, NEW q \in Proc, CompleteMember(o, q)  PROVE Goal
  <2>1. CASE net' = net
    BY <1>0, <2>1
  <2>2. CASE Send("done", o, q) /\ <<o, q>> # <<p, t>>
    BY <1>0, <2>2 DEF Send
  <2>3. CASE Send("done", o, q) /\ <<o, q>> = <<p, t>>
    BY <1>0, <1>1, <2>3 DEF Send
  <2>. QED  BY <1>1, <2>1, <2>2, <2>3 DEF CompleteMember
<1>2. ASSUME NEW o \in Proc, NEW q \in Proc, Put(o, q) \/ PostMember(o, q)  PROVE Goal
  <2>1. CASE net' = net
    BY <1>0, <2>1
  <2>2. CASE Send("put", o, q) \/ Send("expose", o, q)
    BY <1>0, <2>2 DEF Send
  <2>. QED  BY <1>2, <2>1, <2>2 DEF Put, PostMember
<1>3. ASSUME NEW op \in Ops, NEW o \in Proc, NEW q \in Proc, Deliver(op, o, q)  PROVE Goal
  <2>1. net' = [net EXCEPT ![<<op, o, q>>] = @ - 1]
    BY <1>3 DEF Deliver
  <2>. QED  BY <1>0, <2>1
<1>4. ASSUME net' = net  PROVE Goal
  BY <1>0, <1>4
<1>. HIDE DEF Goal
<1>. QED
  BY <1>1, <1>2, <1>3, <1>4
  DEF Next, CallStep, Post, PostReturns, Start, StartMember, StartReturns, Complete,
      CompleteReturns, WaitReturns, TestTrue, NextRound, Finished,
      WaitReads, WaitAgain, TestFalse, Again, Rest, vars

(* A process tells a target only while that exposes its window to it, and  *)
(* has not told it before.                                                 *)
LEMMA TellingOnce ==
  ASSUME TypeOK, Control, PostsCounted, SpinsCounted, WaitAfterTold, ToldOnce,
         NEW p \in Proc, NEW t \in Proc, CompleteMember(p, t)
  PROVE  /\ round[t] = round[p] /\ Exposes(t, p) /\ p \notin Completed(t)
         /\ net[<<"done", p, t>>] = 0
         /\ <<p, t>> \in plan[round[t]] /\ ~ Told(p, t, round[t]) /\ Told(p, t, round[t])'
<1>1. pc[p] = "completing" /\ t \in left[p] /\ pc' = pc /\ round' = round /\ t \notin left'[p]
  BY DEF CompleteMember, Member, TypeOK
<1>2. InEpoch(p, t)
  BY <1>1 DEF InEpoch
<1>3. round[t] = round[p] /\ Exposes(t, p)
  BY <1>2, InvImpliesEpochsMatch DEF EpochsMatch
<1>4. ~ (round[p] > round[t]) /\ round[t] \in Int
  BY <1>3, RoundTypes
<1>5. ~ Told(p, t, round[t])
  BY <1>1, <1>4 DEF Told
<1>6. p \notin Completed(t)
  BY <1>5, CompletedIsTold
<1>7. net[<<"done", p, t>>] = 0
  <2>1. net[<<"done", p, t>>] \in Nat
    BY PairTypes
  <2>. QED  BY <1>6, <2>1 DEF ToldOnce
<1>8. Told(p, t, round[t])'
  BY <1>1, <1>3 DEF Told
<1>. QED  BY <1>3, <1>5, <1>6, <1>7, <1>8, ExposesIsPosted

(* An origin tells a target once a round, and only after the post of that  *)
(* round.                                                                  *)
LEMMA ToldOnceStep ==
  ASSUME TypeOK, TypeOK', Control, PostsCounted, SpinsCounted, WaitAfterTold, ToldOnce,
         SeenBound, CountersExact, [Next]_vars
  PROVE  ToldOnce'
<1>. SUFFICES ASSUME NEW p \in Proc, NEW t \in Proc, net'[<<"done", p, t>>] > 0
              PROVE  net'[<<"done", p, t>>] = 1 /\ p \in Completed(t)' /\ Exposes(t, p)'
  BY DEF ToldOnce
<1>. PICK r \in Int : r = round[t]
  BY RoundTypes
<1>0. /\ net[<<"done", p, t>>] \in Nat /\ net'[<<"done", p, t>>] \in Nat
      /\ plan' = plan /\ ~ (r > r)
      /\ Told(p, t, r) => Told(p, t, r)'
      /\ Posted(t, p, r) => Posted(t, p, r)'
  <2>1. net[<<"done", p, t>>] \in Nat
    BY PairTypes
  <2>2. net'[<<"done", p, t>>] \in Nat
    BY DEF TypeOK, Ops
  <2>. QED  BY <2>1, <2>2, Forward
<1>1. ASSUME round'[t] = r, <<p, t>> \in plan[r], Told(p, t, r)', Posted(t, p, r)'
      PROVE  p \in Completed(t)' /\ Exposes(t, p)'
  <2>1. p \in Completed(t)'
    BY <1>0, <1>1 DEF Completed, Origins, Told
  <2>2. Exposes(t, p)'
    BY <1>0, <1>1 DEF Exposes, Origins, Posted
  <2>. QED  BY <2>1, <2>2
<1>2. CASE net'[<<"done", p, t>>] <= net[<<"done", p, t>>]
  <2>1. net[<<"done", p, t>>] = 1 /\ p \in Completed(t) /\ Exposes(t, p)
    BY <1>0, <1>2 DEF ToldOnce
  <2>2. net'[<<"done", p, t>>] = 1
    BY <1>0, <1>2, <2>1
  <2>3. p \in Landing(t)
    BY <2>1 DEF Landing
  <2>4. round'[t] = r
    BY <2>3, RoundChange, WaitMeansTold
  <2>5. <<p, t>> \in plan[r] /\ Told(p, t, r) /\ Posted(t, p, r)
    BY <2>1, CompletedIsTold, ExposesIsPosted
  <2>. QED  BY <1>0, <1>1, <2>2, <2>4, <2>5
<1>3. CASE CompleteMember(p, t) /\ net'[<<"done", p, t>>] = net[<<"done", p, t>>] + 1
  <2>1. /\ Exposes(t, p) /\ net[<<"done", p, t>>] = 0 /\ <<p, t>> \in plan[r]
        /\ Told(p, t, round[t])'
    BY <1>3, TellingOnce
  <2>2. round' = round
    BY <1>3 DEF CompleteMember
  <2>3. Posted(t, p, r)
    BY <2>1, ExposesIsPosted
  <2>4. Told(p, t, r)'
    BY <2>1, <2>2 DEF Told
  <2>. QED  BY <1>0, <1>1, <1>3, <2>1, <2>2, <2>3, <2>4
<1>. QED  BY <1>2, <1>3, DoneChange

(* A put in the network belongs to the access epoch its origin is in.      *)
LEMMA PutsInEpochStep ==
  ASSUME TypeOK, TypeOK', PutsInEpoch, [Next]_vars
  PROVE  PutsInEpoch'
<1>. SUFFICES ASSUME NEW p \in Proc, NEW t \in Proc, net'[<<"put", p, t>>] > 0
              PROVE  nbi_counter'[p] > 0 /\ pc'[p] = "access" /\ <<p, t>> \in plan'[round'[p]]
  BY DEF PutsInEpoch
<1>. DEFINE Goal == nbi_counter'[p] > 0 /\ pc'[p] = "access" /\ <<p, t>> \in plan'[round'[p]]
<1>. SUFFICES Goal
  OBVIOUS
<1>0. /\ net \in [Ops \X Proc \X Proc -> Nat] /\ <<"put", p, t>> \in Ops \X Proc \X Proc
      /\ net[<<"put", p, t>>] \in Nat /\ nbi_counter \in [Proc -> Nat]
      /\ pc \in [Proc -> PcStates] /\ round \in [Proc -> 1 .. Rounds + 1]
      /\ net[<<"put", p, t>>] > 0 =>
           nbi_counter[p] > 0 /\ pc[p] = "access" /\ <<p, t>> \in plan[round[p]]
  BY PairTypes DEF TypeOK, PutsInEpoch
<1>1. ASSUME NEW o \in Proc, NEW q \in Proc, Put(o, q)  PROVE Goal
  <2>1. CASE o = p /\ q = t
    BY <1>0, <1>1, <2>1 DEF Put, Targets
  <2>2. CASE ~ (o = p /\ q = t)
    <3>1. net'[<<"put", p, t>>] = net[<<"put", p, t>>]
      BY <1>0, <1>1, <2>2 DEF Put, Send
    <3>. QED  BY <1>0, <1>1, <3>1 DEF Put
  <2>. QED  BY <2>1, <2>2
<1>2. ASSUME NEW o \in Proc, NEW q \in Proc, PostMember(o, q) \/ CompleteMember(o, q)
      PROVE  Goal
  <2>1. net'[<<"put", p, t>>] = net[<<"put", p, t>>]
    <3>1. net' = net \/ Send("expose", o, q) \/ Send("done", o, q)
      BY <1>2 DEF PostMember, CompleteMember
    <3>. QED  BY <1>0, <3>1 DEF Send
  <2>. QED  BY <1>0, <1>2, <2>1 DEF PostMember, CompleteMember
<1>3. ASSUME NEW op \in Ops, NEW o \in Proc, NEW q \in Proc, Deliver(op, o, q)  PROVE Goal
  <2>1. net[<<"put", p, t>>] > 0
    <3>1. net' = [net EXCEPT ![<<op, o, q>>] = @ - 1]
      BY <1>3 DEF Deliver
    <3>. QED  BY <1>0, <3>1
  <2>. QED  BY <1>0, <1>3, <2>1 DEF Deliver
<1>4. ASSUME NEW o \in Proc, Complete(o)  PROVE Goal
  <2>1. net[<<"put", p, t>>] > 0
    BY <1>4 DEF Complete
  <2>2. o # p
    BY <1>0, <1>4, <2>1 DEF Complete, Quiet, Ops
  <2>. QED  BY <1>0, <1>4, <2>1, <2>2 DEF Complete, At
<1>5. ASSUME NEW o \in Proc, Post(o) \/ PostReturns(o) \/ Start(o)  PROVE Goal
  BY <1>0, <1>5 DEF Post, PostReturns, Start, At, LoopDone
<1>6. ASSUME NEW o \in Proc, StartReturns(o) \/ CompleteReturns(o)  PROVE Goal
  BY <1>0, <1>6 DEF StartReturns, CompleteReturns, At, LoopDone
<1>7. ASSUME NEW o \in Proc, NextRound(o)  PROVE Goal
  BY <1>0, <1>7 DEF NextRound, At
<1>8. ASSUME NEW o \in Proc, NEW q \in Proc, StartMember(o, q)  PROVE Goal
  BY <1>0, <1>8 DEF StartMember
<1>9. ASSUME UNCHANGED Rest  PROVE Goal
  BY <1>0, <1>9 DEF Rest
<1>. HIDE DEF Goal
<1>. QED
  BY <1>1, <1>2, <1>3, <1>4, <1>5, <1>6, <1>7, <1>8, <1>9
  DEF Next, CallStep, WaitReturns, TestTrue, Finished,
      WaitReads, WaitAgain, TestFalse, Again, Rest, vars

---------------------------------------------------------------------------
(* The counters of an exposure epoch.                                      *)

Exposed == {"posting", "start", "starting", "access", "completing", "wait"}

\* what a step does to what t counts
LEMMA CountersChange ==
  ASSUME TypeOK, [Next]_vars, NEW t \in Proc
  PROVE  \/ Post(t)
         \/ \E p \in Proc : CompleteMember(p, t) \/ Deliver("done", p, t)
         \/ /\ global_counter'[t] = global_counter[t]
            /\ xpmem_global_counter'[t] = xpmem_global_counter[t]
            /\ \A p \in Proc : net'[<<"done", p, t>>] = net[<<"done", p, t>>]
<1>. DEFINE same == /\ global_counter'[t] = global_counter[t]
                    /\ xpmem_global_counter'[t] = xpmem_global_counter[t]
                    /\ \A p \in Proc : net'[<<"done", p, t>>] = net[<<"done", p, t>>]
            Goal == \/ Post(t)
                    \/ \E p \in Proc : CompleteMember(p, t) \/ Deliver("done", p, t)
                    \/ same
<1>. SUFFICES Goal
  OBVIOUS
<1>0. /\ net \in [Ops \X Proc \X Proc -> Nat] /\ global_counter \in [Proc -> Nat]
      /\ xpmem_global_counter \in [Proc -> Nat]
      /\ \A p \in Proc : <<"done", p, t>> \in Ops \X Proc \X Proc
  BY DEF TypeOK, Ops
<1>1. ASSUME NEW o \in Proc, Post(o)  PROVE Goal
  <2>. SUFFICES ASSUME o # t  PROVE same
    BY <1>1
  <2>. QED  BY <1>0, <1>1 DEF Post
<1>2. ASSUME NEW o \in Proc, NEW q \in Proc, CompleteMember(o, q)  PROVE Goal
  <2>. SUFFICES ASSUME q # t  PROVE same
    BY <1>2
  <2>1. global_counter' = global_counter
    BY <1>2 DEF CompleteMember
  <2>2. xpmem_global_counter'[t] = xpmem_global_counter[t]
    BY <1>0, <1>2 DEF CompleteMember
  <2>3. \A p \in Proc : net'[<<"done", p, t>>] = net[<<"done", p, t>>]
    <3>1. net' = net \/ Send("done", o, q)
      BY <1>2 DEF CompleteMember
    <3>. QED  BY <1>0, <3>1 DEF Send
  <2>. QED  BY <2>1, <2>2, <2>3
<1>3. ASSUME NEW op \in Ops, NEW o \in Proc, NEW q \in Proc, Deliver(op, o, q)  PROVE Goal
  <2>. SUFFICES ASSUME op # "done" \/ q # t  PROVE same
    BY <1>3
  <2>1. xpmem_global_counter' = xpmem_global_counter
    BY <1>3 DEF Deliver
  <2>2. global_counter'[t] = global_counter[t]
    BY <1>0, <1>3 DEF Deliver
  <2>3. \A p \in Proc : net'[<<"done", p, t>>] = net[<<"done", p, t>>]
    <3>1. net' = [net EXCEPT ![<<op, o, q>>] = @ - 1]
      BY <1>3 DEF Deliver
    <3>. QED  BY <1>0, <3>1
  <2>. QED  BY <2>1, <2>2, <2>3
<1>4. ASSUME NEW o \in Proc, NEW q \in Proc, Put(o, q) \/ PostMember(o, q)  PROVE Goal
  <2>1. global_counter' = global_counter /\ xpmem_global_counter' = xpmem_global_counter
    BY <1>4 DEF Put, PostMember, counters
  <2>2. net' = net \/ Send("put", o, q) \/ Send("expose", o, q)
    BY <1>4 DEF Put, PostMember
  <2>3. \A p \in Proc : net'[<<"done", p, t>>] = net[<<"done", p, t>>]
    BY <1>0, <2>2 DEF Send
  <2>. QED  BY <2>1, <2>3
<1>5. ASSUME counters' = counters, net' = net  PROVE Goal
  BY <1>5 DEF counters
<1>. HIDE DEF Goal
<1>. QED
  BY <1>1, <1>2, <1>3, <1>4, <1>5
  DEF Next, CallStep, PostReturns, Start, StartMember, StartReturns, Complete,
      CompleteReturns, WaitReturns, TestTrue, NextRound, Finished,
      WaitReads, WaitAgain, TestFalse, Again, Rest, vars

\* who has told t after a step had told it before, or tells it now
LEMMA ToldChange ==
  ASSUME TypeOK, [Next]_vars, NEW p \in Proc, NEW t \in Proc, NEW r \in Int,
         <<p, t>> \in plan[r], Told(p, t, r)'
  PROVE  Told(p, t, r) \/ CompleteMember(p, t)
<1>. DEFINE Goal == Told(p, t, r) \/ CompleteMember(p, t)
<1>. SUFFICES Goal
  OBVIOUS
<1>. USE NumberAssumption DEF TypeOK, Told, At, LoopDone, Member
<1>1. ASSUME NEW o \in Proc, NEW q \in Proc, CompleteMember(o, q)  PROVE Goal
  <2>. SUFFICES ASSUME <<o, q>> # <<p, t>>  PROVE Told(p, t, r)
    BY <1>1
  <2>1. pc' = pc /\ round' = round /\ left' = [left EXCEPT ![o] = left[o] \ {q}]
    BY <1>1 DEF CompleteMember
  <2>. QED  BY <2>1
<1>2. ASSUME NEW o \in Proc, Complete(o)  PROVE Goal
  BY <1>2 DEF Complete, Targets
<1>3. ASSUME NEW o \in Proc, CompleteReturns(o)  PROVE Goal
  BY <1>3 DEF CompleteReturns
<1>4. ASSUME NEW o \in Proc, NextRound(o)  PROVE Goal
  BY SMTT(60), <1>4 DEF NextRound
<1>5. ASSUME NEW o \in Proc, Post(o) \/ PostReturns(o) \/ Start(o) \/ StartReturns(o)
      PROVE  Goal
  BY <1>5 DEF Post, PostReturns, Start, StartReturns
<1>6. ASSUME NEW o \in Proc, NEW q \in Proc, PostMember(o, q) \/ StartMember(o, q)
      PROVE  Goal
  <2>1. pc' = pc /\ round' = round /\ pc[o] \in {"posting", "starting"}
    BY <1>6 DEF PostMember, StartMember
  <2>2. left' = [left EXCEPT ![o] = left[o] \ {q}]
    BY <1>6 DEF PostMember, StartMember
  <2>. QED  BY <2>1, <2>2
<1>7. ASSUME left' = left, pc' = pc, round' = round  PROVE Goal
  BY <1>7
<1>. HIDE DEF Goal, TypeOK, Told, At, LoopDone, Member
<1>. QED
  BY <1>1, <1>2, <1>3, <1>4, <1>5, <1>6, <1>7
  DEF Next, CallStep, Put, Deliver, WaitReturns, TestTrue, Finished,
      WaitReads, WaitAgain, TestFalse, Again, Rest, vars

\* an exposure epoch starts in Post and lasts for the round
LEMMA ExposedChange ==
  ASSUME TypeOK, [Next]_vars, NEW t \in Proc, pc'[t] \in Exposed
  PROVE  Post(t) \/ (pc[t] \in Exposed /\ round'[t] = round[t])
<1>. DEFINE Goal == Post(t) \/ (pc[t] \in Exposed /\ round'[t] = round[t])
<1>. SUFFICES Goal
  OBVIOUS
<1>. USE DEF TypeOK, At, LoopDone, Exposed
<1>1. ASSUME NEW o \in Proc, Post(o) \/ PostReturns(o)  PROVE Goal
  BY <1>1 DEF Post, PostReturns
<1>2. ASSUME NEW o \in Proc, Start(o) \/ StartReturns(o)  PROVE Goal
  BY <1>2 DEF Start, StartReturns
<1>3. ASSUME NEW o \in Proc, Complete(o) \/ CompleteReturns(o)  PROVE Goal
  BY <1>3 DEF Complete, CompleteReturns
<1>4. ASSUME NEW o \in Proc, NextRound(o)  PROVE Goal
  BY <1>4 DEF NextRound
<1>5. ASSUME pc' = pc, round' = round  PROVE Goal
  BY <1>5
<1>. HIDE DEF Goal, TypeOK, At, LoopDone, Exposed
<1>. QED
  BY <1>1, <1>2, <1>3, <1>4, <1>5
  DEF Next, CallStep, PostMember, StartMember, CompleteMember, Put, Deliver, WaitReturns,
      TestTrue, Finished,
      WaitReads, WaitAgain, TestFalse, Again, Rest, vars

(* Both counters and the notices under way stay equal to the completed     *)
(* origins.                                                                *)
LEMMA CountersExactStep ==
  ASSUME TypeOK, TypeOK', Control, PostsCounted, SpinsCounted, WaitAfterTold, ToldOnce,
         CountersExact, [Next]_vars
  PROVE  CountersExact'
<1>. SUFFICES ASSUME NEW t \in Proc, pc'[t] \in Exposed
              PROVE  global_counter'[t] + xpmem_global_counter'[t] + Cardinality(Landing(t)')
                       = Cardinality(Completed(t)')
  BY DEF CountersExact, Exposed
<1>. PICK r \in Int : r = round[t]
  BY RoundTypes
<1>. DEFINE g == global_counter[t]
            x == xpmem_global_counter[t]
            C == Completed(t)
            L == Landing(t)
<1>0. /\ plan' = plan /\ g \in Nat /\ x \in Nat
      /\ \A p \in Proc : Told(p, t, r) => Told(p, t, r)'
      /\ \A p \in Proc : <<p, t>> \in plan[r] /\ Told(p, t, r)'
                        => Told(p, t, r) \/ CompleteMember(p, t)
      /\ \A p \in Proc : net[<<"done", p, t>>] \in Nat
  BY Forward, ToldChange, PairTypes DEF TypeOK
<1>1. /\ C = {p \in Proc : <<p, t>> \in plan[r] /\ Told(p, t, r)}
      /\ IsFiniteSet(C) /\ Cardinality(C) \in Nat /\ IsFiniteSet(L) /\ Cardinality(L) \in Nat
  BY CompletedIsTold
<1>2. round'[t] = r => C' = {p \in Proc : <<p, t>> \in plan[r] /\ Told(p, t, r)'}
  BY <1>0 DEF Completed, Origins, Told
<1>3. CASE Post(t)
  <2>1. /\ pc[t] = "post" /\ pc'[t] = "posting" /\ round' = round /\ net' = net
        /\ g' = 0 /\ x' = 0
    BY <1>3 DEF Post, At, TypeOK
  <2>2. \A p \in Proc : ~ Exposes(t, p)
    BY <2>1 DEF Exposes
  <2>3. L' = {}
    BY <2>1, <2>2 DEF Landing, ToldOnce
  <2>4. C' = {}
    <3>. SUFFICES ASSUME NEW p \in Proc, <<p, t>> \in plan[r], Told(p, t, r)'  PROVE FALSE
      BY <1>2, <2>1
    <3>1. Told(p, t, r)
      <4>1. ~ CompleteMember(p, t)
        BY <1>3, <2>1 DEF CompleteMember, Exposed
      <4>. QED  BY <1>0, <4>1
    <3>2. r \in 1 .. Rounds
      BY <2>1, NumberAssumption DEF Control, TypeOK
    <3>3. Posted(t, p, r)
      BY <3>1, <3>2, PassedMeansPosted DEF Told, Passed
    <3>. QED  BY <2>1, <2>2, <3>3, ExposesIsPosted
  <2>. QED  BY <2>1, <2>3, <2>4, FS_EmptySet
<1>4. CASE pc[t] \in Exposed /\ round'[t] = round[t]
  <2>1. g + x + Cardinality(L) = Cardinality(C)
    BY <1>4 DEF CountersExact, Exposed
  <2>2. CASE \E p \in Proc : CompleteMember(p, t)
    <3>. PICK p \in Proc : CompleteMember(p, t)
      BY <2>2
    <3>1. p \notin C /\ net[<<"done", p, t>>] = 0 /\ <<p, t>> \in plan[r] /\ Told(p, t, r)'
      <4>1. Told(p, t, round[t])' /\ round' = round
        BY TellingOnce DEF CompleteMember
      <4>. QED  BY <4>1, TellingOnce DEF Told
    <3>2. C' = C \cup {p}
      <4>1. \A q \in Proc : q # p => (Told(q, t, r)' <=> Told(q, t, r))
        BY DEF CompleteMember, Member, Told, TypeOK
      <4>. QED  BY <1>1, <1>2, <1>4, <3>1, <4>1
    <3>3. Cardinality(C') = Cardinality(C) + 1
      BY <1>1, <3>1, <3>2, FS_AddElement
    <3>4. CASE SameNode(p, t)
      <4>1. net' = net /\ g' = g /\ x' = x + 1
        BY <3>4 DEF CompleteMember, TypeOK
      <4>2. L' = L
        BY <4>1 DEF Landing
      <4>. QED  BY <1>0, <1>1, <2>1, <3>3, <4>1, <4>2
    <3>5. CASE ~ SameNode(p, t)
      <4>1. g' = g /\ x' = x /\ net' = [net EXCEPT ![<<"done", p, t>>] = @ + 1]
        BY <3>5 DEF CompleteMember, Send
      <4>2. L' = L \cup {p} /\ p \notin L
        BY <3>1, <4>1 DEF Landing, TypeOK, Ops
      <4>3. Cardinality(L') = Cardinality(L) + 1
        BY <1>1, <4>2, FS_AddElement
      <4>. QED  BY <1>0, <1>1, <2>1, <3>3, <4>1, <4>3
    <3>. QED  BY <3>4, <3>5
  <2>3. CASE \E p \in Proc : Deliver("done", p, t)
    <3>. PICK p \in Proc : Deliver("done", p, t)
      BY <2>3
    <3>1. net[<<"done", p, t>>] = 1 /\ p \in L
      BY DEF Deliver, ToldOnce, Landing
    <3>2. x' = x /\ g' = g + 1 /\ net' = [net EXCEPT ![<<"done", p, t>>] = @ - 1]
      BY DEF Deliver, TypeOK
    <3>3. C' = C
      <4>1. \A q \in Proc : Told(q, t, r)' <=> Told(q, t, r)
        BY DEF Deliver, Told
      <4>. QED  BY <1>1, <1>2, <1>4, <4>1
    <3>4. L' = L \ {p}
      <4>1. \A q \in Proc : net'[<<"done", q, t>>] = IF q = p THEN 0 ELSE net[<<"done", q, t>>]
        <5>. SUFFICES ASSUME NEW q \in Proc
                      PROVE  net'[<<"done", q, t>>] = IF q = p THEN 0 ELSE net[<<"done", q, t>>]
          OBVIOUS
        <5>1. net \in [Ops \X Proc \X Proc -> Nat] /\ <<"done", q, t>> \in Ops \X Proc \X Proc
          BY PairTypes
        <5>. QED  BY <3>1, <3>2, <5>1
      <4>. QED  BY <1>0, <4>1 DEF Landing
    <3>5. Cardinality(L') = Cardinality(L) - 1
      BY <1>1, <3>1, <3>4, FS_RemoveElement
    <3>. QED  BY <1>0, <1>1, <2>1, <3>2, <3>3, <3>5
  <2>4. CASE /\ ~ \E p \in Proc : CompleteMember(p, t)
             /\ g' = g /\ x' = x
             /\ \A p \in Proc : net'[<<"done", p, t>>] = net[<<"done", p, t>>]
    <3>1. C' = C
      BY <1>0, <1>1, <1>2, <1>4, <2>4
    <3>2. L' = L
      BY <2>4 DEF Landing
    <3>. QED  BY <2>1, <2>4, <3>1, <3>2
  <2>5. CASE Post(t)
    BY <1>4, <2>5 DEF Post, At, Exposed
  <2>. QED  BY <2>2, <2>3, <2>4, <2>5, CountersChange
<1>. QED  BY <1>3, <1>4, ExposedChange

---------------------------------------------------------------------------
(* The reads of wait and test.                                             *)

(* The counters only grow while a turn of wait has read one of them.       *)
LEMMA SeenBoundStep ==
  ASSUME TypeOK, SeenBound, [Next]_vars
  PROVE  SeenBound'
<1>. DEFINE Goal(o) == /\ seen'[o].of # "none" => pc'[o] = "wait"
                       /\ seen'[o].of = "global" => seen'[o].value <= global_counter'[o]
                       /\ seen'[o].of = "xpmem" => seen'[o].value <= xpmem_global_counter'[o]
<1>. SUFFICES ASSUME NEW o \in Proc  PROVE Goal(o)
  BY DEF SeenBound
<1>0. /\ seen[o].of # "none" => pc[o] = "wait"
      /\ seen[o].of = "global" => seen[o].value <= global_counter[o]
      /\ seen[o].of = "xpmem" => seen[o].value <= xpmem_global_counter[o]
      /\ global_counter[o] \in Nat /\ xpmem_global_counter[o] \in Nat
      /\ seen[o].value \in Nat
  BY DEF SeenBound, TypeOK, Readings
<1>. USE <1>0 DEF TypeOK, At, LoopDone, counters
<1>1. ASSUME NEW p \in Proc, Post(p)  PROVE Goal(o)
  <2>1. CASE o = p
    <3>1. pc[o] = "post" /\ seen' = seen
      BY <1>1, <2>1 DEF Post
    <3>. QED  BY <3>1
  <2>2. CASE o # p
    BY <1>1, <2>2 DEF Post
  <2>. QED  BY <2>1, <2>2
<1>2. ASSUME NEW p \in Proc,
             PostReturns(p) \/ Start(p) \/ StartReturns(p) \/ Complete(p) \/ CompleteReturns(p)
      PROVE  Goal(o)
  <2>1. seen' = seen /\ counters' = counters /\ pc[p] # "wait"
    BY <1>2 DEF PostReturns, Start, StartReturns, Complete, CompleteReturns
  <2>2. pc[o] = "wait" => pc'[o] = "wait"
    BY <1>2 DEF PostReturns, Start, StartReturns, Complete, CompleteReturns
  <2>. QED  BY <2>1, <2>2
<1>3. ASSUME NEW p \in Proc, NEW q \in Proc, CompleteMember(p, q)  PROVE Goal(o)
  <2>1. seen' = seen /\ pc' = pc /\ global_counter' = global_counter
    BY <1>3 DEF CompleteMember
  <2>2. \/ xpmem_global_counter' = xpmem_global_counter
        \/ xpmem_global_counter' = [xpmem_global_counter EXCEPT ![q] = xpmem_global_counter[q] + 1]
    BY <1>3 DEF CompleteMember
  <2>3. CASE xpmem_global_counter' = xpmem_global_counter
    BY <2>1, <2>3
  <2>4. CASE xpmem_global_counter' = [xpmem_global_counter EXCEPT ![q] = xpmem_global_counter[q] + 1]
    <3>1. \/ xpmem_global_counter'[o] = xpmem_global_counter[o]
          \/ xpmem_global_counter'[o] = xpmem_global_counter[o] + 1
      BY <2>4
    <3>2. \A n, c \in Nat : n <= c => n <= c + 1
      OBVIOUS
    <3>. QED  BY <2>1, <3>1, <3>2
  <2>. QED  BY <2>2, <2>3, <2>4
<1>4. ASSUME NEW op \in Ops, NEW p \in Proc, NEW q \in Proc, Deliver(op, p, q)  PROVE Goal(o)
  <2>1. /\ seen' = seen /\ pc' = pc /\ xpmem_global_counter' = xpmem_global_counter
        /\ global_counter'[o] >= global_counter[o] /\ global_counter'[o] \in Nat
    BY <1>4 DEF Deliver
  <2>. QED  BY <2>1
<1>5. ASSUME NEW p \in Proc, WaitReads(p) \/ Again(p) \/ NextRound(p)  PROVE Goal(o)
  <2>1. counters' = counters
    BY <1>5 DEF WaitReads, Again, NextRound
  <2>2. CASE o = p /\ WaitReads(p)
    <3>1. \/ seen'[o] = [of |-> "global", value |-> global_counter[o]]
          \/ seen'[o] = [of |-> "xpmem", value |-> xpmem_global_counter[o]]
      BY <2>2 DEF WaitReads
    <3>2. pc'[o] = "wait"
      BY <2>2 DEF WaitReads
    <3>. QED  BY <2>1, <3>1, <3>2
  <2>3. CASE o = p /\ (Again(p) \/ NextRound(p))
    BY <2>3 DEF Again, NextRound, Nothing
  <2>4. CASE o # p
    <3>1. seen'[o] = seen[o] /\ pc'[o] = pc[o]
      BY <1>5, <2>4 DEF WaitReads, Again, NextRound
    <3>. QED  BY <2>1, <3>1
  <2>. QED  BY <1>5, <2>2, <2>3, <2>4
<1>6. ASSUME pc' = pc, seen' = seen, counters' = counters  PROVE Goal(o)
  BY <1>6
<1>. HIDE DEF Goal, TypeOK, At, LoopDone
<1>. QED
  BY <1>1, <1>2, <1>3, <1>4, <1>5, <1>6
  DEF Next, CallStep, PostMember, StartMember, Put, WaitAgain, WaitReturns, TestFalse,
      TestTrue, Finished, vars

---------------------------------------------------------------------------
(* The theorems.                                                           *)

(* The invariant holds in every reachable state.                           *)
THEOREM Invariant == Spec => []IInv
<1>1. Init => IInv
  <2>. SUFFICES ASSUME Init  PROVE IInv
    OBVIOUS
  <2>1. TypeOK
    BY NumberAssumption DEF Init, TypeOK, PcStates, Pairs, Ops, Nothing, Readings
  <2>2. Control
    BY NumberAssumption DEF Init, Control
  <2>3. \A p, t \in Proc : /\ PostedRound(t, p) = 0 /\ StartedRound(p) = 0
                           /\ PassedRound(p, t) = 0
    BY DEF Init, PostedRound, StartedRound, PassedRound, Posted, Passed
  <2>4. \A p, t \in Proc : Epochs(<<p, t>>, 0) = 0
    <3>1. 0 \in Int /\ 0 <= 0
      OBVIOUS
    <3>. QED  BY <3>1, EpochsType
  <2>5. \A p, t \in Proc : /\ access[<<p, t>>] = 0 /\ exposure[<<p, t>>] = 0
                           /\ net[<<"expose", t, p>>] = 0 /\ net[<<"put", p, t>>] = 0
                           /\ net[<<"done", p, t>>] = 0
    BY DEF Init, Pairs, Ops
  <2>6. 0 % AccessRange = 0
    BY NumberAssumption, ModSmall
  <2>7. PostsCounted /\ StartsCounted /\ SpinsCounted
    <3>. SUFFICES ASSUME NEW p \in Proc, NEW t \in Proc
                  PROVE  /\ exposure[<<p, t>>] + net[<<"expose", t, p>>]
                              <= Epochs(<<p, t>>, PostedRound(t, p))
                         /\ access[<<p, t>>] = Epochs(<<p, t>>, StartedRound(p)) % AccessRange
                         /\ Epochs(<<p, t>>, PassedRound(p, t)) <= exposure[<<p, t>>]
      BY DEF PostsCounted, StartsCounted, SpinsCounted
    <3>1. /\ Epochs(<<p, t>>, PostedRound(t, p)) = 0 /\ Epochs(<<p, t>>, StartedRound(p)) = 0
          /\ Epochs(<<p, t>>, PassedRound(p, t)) = 0
      BY <2>3, <2>4
    <3>2. /\ access[<<p, t>>] = 0 /\ exposure[<<p, t>>] = 0 /\ net[<<"expose", t, p>>] = 0
      BY <2>5
    <3>. QED  BY <2>6, <3>1, <3>2
  <2>8. WaitAfterTold
    BY NumberAssumption DEF Init, WaitAfterTold
  <2>9. ToldOnce /\ PutsInEpoch
    <3>1. ASSUME NEW p \in Proc, NEW t \in Proc
          PROVE  ~ (net[<<"done", p, t>>] > 0) /\ ~ (net[<<"put", p, t>>] > 0)
      <4>1. net[<<"done", p, t>>] = 0 /\ net[<<"put", p, t>>] = 0
        BY <2>5
      <4>. QED  BY <4>1
    <3>. QED  BY <3>1 DEF ToldOnce, PutsInEpoch
  <2>10. SeenBound /\ CountersExact
    BY <2>1 DEF Init, SeenBound, Nothing, CountersExact
  <2>. QED  BY <2>1, <2>2, <2>7, <2>8, <2>9, <2>10 DEF IInv
<1>2. IInv /\ [Next]_vars => IInv'
  <2>. SUFFICES ASSUME IInv, [Next]_vars  PROVE IInv'
    OBVIOUS
  <2>1. TypeOK /\ TypeOK' /\ Control /\ Control'
    BY TypeStep, ControlStep DEF IInv, CountersExact
  <2>2. PostsCounted' /\ StartsCounted' /\ SpinsCounted'
    BY <2>1, PostsCountedStep, StartsCountedStep, SpinsCountedStep DEF IInv
  <2>3. WaitAfterTold' /\ ToldOnce' /\ PutsInEpoch' /\ SeenBound' /\ CountersExact'
    BY <2>1, WaitAfterToldStep, ToldOnceStep, PutsInEpochStep, SeenBoundStep,
       CountersExactStep DEF IInv
  <2>. QED  BY <2>1, <2>2, <2>3 DEF IInv
<1>. QED  BY <1>1, <1>2, PTL DEF Spec

(* Access epochs lie inside the matching exposure epochs, however far the  *)
(* processes run ahead of each other (lines 52, 58 and 203 of              *)
(* fompi_win_pscw.c).                                                      *)
THEOREM EpochsMatchCorrect == Spec => []EpochsMatch
<1>1. IInv => EpochsMatch
  BY InvImpliesEpochsMatch DEF IInv, CountersExact
<1>. QED  BY <1>1, Invariant, PTL

(* When wait has returned, no access of the epoch is in the network (lines *)
(* 78 and 86-113).                                                         *)
THEOREM WaitMeansCompleteCorrect == Spec => []WaitMeansComplete
<1>1. IInv => WaitMeansComplete
  <2>. SUFFICES ASSUME IInv, NEW p \in Proc, NEW t \in Proc, net[<<"put", p, t>>] > 0
                PROVE  Exposes(t, p) /\ InEpoch(p, t)
    BY DEF WaitMeansComplete
  <2>1. InEpoch(p, t)
    BY DEF IInv, PutsInEpoch, InEpoch, Targets
  <2>. QED  BY <2>1, InvImpliesEpochsMatch DEF IInv, CountersExact, EpochsMatch
<1>. QED  BY <1>1, Invariant, PTL

(* The two counters and the notifications on their way are the origins     *)
(* that have completed: the reset of lines 154-157 loses none.             *)
THEOREM CountersExactCorrect == Spec => []CountersExact
<1>1. IInv => CountersExact
  BY DEF IInv
<1>. QED  BY <1>1, Invariant, PTL
===========================================================================
