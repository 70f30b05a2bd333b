# Verification of foMPI-NA

foMPI-NA is an implementation of MPI-3 one-sided communication, with notified
access, on Cray DMAPP, uGNI and XPMEM.  This directory holds TLA+ models of its
core, TLC configurations that check them on small instances, and proofs that
TLAPS checks for every value of the parameters.

    tlc -config MCWinLock.cfg MCWinLock     # one run
    tlapm WinLockProofs.tla                 # one module of proofs

The modules follow the default build of `Makefile.inc`: `NDEBUG`, `UGNI` and
`XPMEM` defined, `UGNI_WIN_RELATED_SRC_CQ` and `FOMPI_INLINE_INJECT` not.

## 1. The system

A window is memory every process of a communicator exposes to the others.
Origins access it through the NIC, which executes puts, gets and 64-bit atomics
on remote memory without the target's CPU, or by loads and stores when the
target runs on the same node (XPMEM).  The library keeps its own shared state in
each process's window descriptor (`foMPI_Win_desc_t`, fompi_internal.h) and
changes it by the same remote atomics.  No process runs code for another, so
all coordination is by spinning on words others change.

| Component | State | Operations | Hard parts | What makes it correct |
|---|---|---|---|---|
| locks and flush (`fompi_win_lock.c`) | `lock_mutex` per rank, `lock_all_mutex` on the master; per process `excl_locks`, `local_exclusive_count`, `nbi_counter` | Win_lock, unlock, lock_all, unlock_all, flush* | two-level test and back-off by separate remote atomics; releases that stay in the network; spins | exclusion, exact accounting of the words, puts inside epochs, waiters served |
| post/start/complete/wait (`fompi_win_pscw.c`) | `pscw_matching_exposure`, `pscw_matching_access`, `global_counter`, `xpmem_global_counter` | Win_post, start, complete, wait, test | epochs of different groups overlap; two counters fed by CPU and NIC; reset of counters while others run; widths | epochs match, wait means complete, progress |
| fence (`fompi_win_fence.c`) | none of its own | Win_fence | flush then barrier | nothing of an epoch is left in the network when it ends |
| notification matching (`fompi_notif.c`) | three queues: XPMEM ring, uGNI destination queue, queue of unexpected notifications; `found` of every request | Notify_init, test and wait functions | events drained for one request belong to another; wildcards; a test gives up half way | each notification counted once, oldest first, false answers right |
| requests (`fompi_req.c`) | `active`, kind, callbacks | Start, Test, Wait, Testany, Waitany, Request_free | persistent or not, null handles, round robin start | completion is reported when and only when it is there |
| XPMEM ring (`fompi_notif_xpmem.c`) | ring, `count`, insertion and extraction index, array lock (`tail`, flags) | init, push, pop, lock, unlock | many pushers, one popper without lock; full ring | a FIFO, one pusher at a time, every push returns |
| unexpected queue (`fompi_notif_uq.c`) | doubly linked list of heap nodes | push, pop, search and remove | relinking at the ends and in the middle | list stays linked, oldest match is found |
| put, get, notified access (`fompi_win_rma.c`) | `nbi_counter`, requests, temporary registrations | Put, Get, Rput, Rget and the notified variants | two networks (DMAPP, uGNI) without mutual order; blocks; completion queue | data before notification, flush means done |
| uGNI communicator (`fompi_comm.c`) | ring of descriptor pointers, `counter_ugni_nbi`, local completion queue | post, dequeue, flush | completions out of order; queue as long as the ring | no descriptor in two transactions, no overrun |
| dynamic windows (`fompi_win_dynamic_create.c`, `fompi_win_rma.c`) | list of attached memory in the owner, `dynamic_id`, `dynamic_mutex`; copies of the list at the others | attach, detach, lookup at every access | the list is walked remotely while it changes; stale copies; spin mutex | walks stay in registered memory, copies are current |
| accumulate and atomics (`fompi_win_rma.c`, `fompi_op.c.m4`, `fompi_helper.c`) | `mutex` of the window | Accumulate, Get_accumulate, Fetch_and_op, Compare_and_swap | a mutex without a holder beside network atomics; errors found with the mutex held | each word's updates atomic, mutex given back |
| creation and free (`fompi_win_create.c`, `fompi_win_allocate.c`, `fompi_win_dynamic_create.c`, `fompi_win_free.c`, `fompi_seg.c`) | the descriptor; what is registered, exported, mapped | collective calls over the window and over the node | paths that differ by flavor, size and ranks of the node; memory given back while others can reach it | usable while open, nothing left after |
| start and end of the library (`fompi_overloaded.c`, `fompi_comm.c`) | layers initialised; the uGNI communicator | foMPI_Init, foMPI_Finalize | layers the program brought up itself | everything back as it was found |
| datatypes as blocks (`fompi_win_rma.c`, vendored `mpitypes`) | a cache of ten lists of blocks | every transfer with a derived type, Type_free | handles MPI uses again; eviction in the middle of a call; coalescing | the bytes MPI's type maps name, in their order |
| Fortran bindings (`fompi_fortran.c`) | tables of windows and requests, free lists | every binding that makes or frees one | tables that grow; tests that free a request and answer false | one entry, one variable |
| topology (`libtopodisc`), attributes, names, groups, timing | | local | | calls to libraries |

Interaction: unlock, complete and fence flush the window's operations before
they release or notify (WinLock, Pscw and RmaOrigin each model the flush they
need, Lifecycle the one of a fence); a notified put leaves an event in the ring or the destination queue of
its target, which the matching consumes (XpmemQueue and Notification share that
interface); matching keeps what it cannot use in the unexpected queue
(NotifUq); requests drive matching and RMA completion (both modules contain
`_foMPI_Test_Wait` for their kind of request); operations on dynamic windows
look their target up in a copy of its list (DynamicWindow); a transfer is cut
into blocks by the cache of datatypes (BlockCache) before it is sent
(RmaOrigin).

Not considered: `libpgt-0.2` (instrumentation), the parts of `mpitypes` that
foMPI does not reach (packing, printing), tests, generated code, and the calls
that only forward to MPI.
PROJECT.json lists every component with its status, and the hazards of
the code at their lines.

## 2. The modules

Every module has one action per step that other processes or the network can
see: one per remote atomic, per flag written in shared memory, per instruction
of a lock-free structure; local computation between two such steps is part of
the step before or after it.  A definition marked *mutant* is a wrong version of
the one below it; the mutants of PROJECT.json show that every property
notices a plausible mistake in the code.

**WinLock** (with AbstractWinLock and WinLockProofs) models
`fompi_win_lock.c`.  The words keep the code's names.  `lock_all_mutex` is a
record of its two 32-bit halves, and adding to one wraps inside that half;
`WordsAccounted`, with `HalfAssumption`, shows that nothing ever does wrap, so
the record is as good as the 64-bit word.  `net` holds the non-blocking
requests of each process (`Handle` of them at most): puts, and the releases
`ReleaseMaster`, `ReleaseShared` and `ReleaseAll` issue; `Deliver` lets them take
effect in any order.  `pc` names the places where a call waits or where the next
remote atomic is due: an exclusive lock is `LockExclusive`, `ExclMaster`,
`ExclAcquire` or `ExclBusy` and `ExclBackoff`; the shared and the lock_all
requests register (`LockShared`, `LockAll`) and poll (`SharedGranted`,
`AllGranted`); a read that finds the word still taken is `SpinAgain`.  Programs obey MPI: no rank is locked twice, and lock_all is not
mixed with locks.  AbstractWinLock says what locks promise: a rank is locked
exclusively by one process or shared by some, lock_all shares all, a release may
linger, and puts take effect under the lock that covers them.

**Pscw** models `fompi_win_pscw.c`.  A behaviour starts with any plan of who
accesses whom in each round; processes go through their rounds at their own pace.
Group loops (`PostMember`, `StartMember`, `CompleteMember`) handle one member per
step.  Win_wait and Win_test read one counter (`WaitReads`), and compare the sum
when they read the other (`WaitReturns` or `WaitAgain`, `TestTrue` or `TestFalse`);
which of the two is first is left open, as C leaves it, and origins add in between.
The counters of a new window hold whatever the memory held (`Unset`): the first
Win_post resets them, creation does not.  `Char` is the cast in Win_wait,
`AccessRange` the width of the origin's count.

**XpmemQueue** (with AbstractFifo) models `fompi_notif_xpmem.c` instruction by
instruction: ticket, spin, the writes of the entry's two fields (`WriteTag`,
`WriteSource`) and of the index (`Advance`), publication by the atomic add to
`count` (`Publish`), the two writes of unlock, and the pop, which takes no lock and
reads the entry's fields one by one (`PopSource`, `PopTag`).

**Notification** models `fompi_notif.c` and, for its requests, `fompi_req.c`.  The
two input queues are sequences: XpmemQueue shows that the ring is a FIFO.  A
step is one notification taken from a queue: `SearchUq` takes the oldest that matches
out of `uq`, again and again until `UqSearched`, then the poll loop begins.  `place`
says where a call is; `got` and `used` are history: which
notifications `found` counts, and which were counted by completed requests.

**NotifUq** (with AbstractUq) models `fompi_notif_uq.c` pointer by pointer, with
nodes that malloc hands out again with their old contents.

**RmaOrigin** models one origin: operations split into DMAPP blocks or posted as
one uGNI transaction (`fompi_win_rma.c`), the descriptor ring and its completion
queue (`fompi_comm.c`), flushes, and requests of Rput and Rget
(`fompi_req.c`).  `Land` completes a DMAPP block, `Complete` a transaction, in
any order.  How many blocks a datatype gives is an input.

**DynamicWindow** models `fompi_win_dynamic_create.c` and the lookup in
`fompi_win_rma.c`: the mutex, the two steps of attach (link in, fill), detach, and the
walk of the list, one blocking get per step.  Every process may walk, the owner
included.

**Accumulate** (with AbstractAtomics) models the calls that update words of a
target, and the window mutex of `fompi_helper.c`.  A kind of call is its name, a
class of types and a class of operations; `Way` says how it goes: to the NIC's
atomics, as a put, as a blocking swap, or by get, compute and put under the mutex.
`Supported` are the operations `foMPI_RMA_op` knows for a type.  Programs use a mix
of kinds chosen in Init, any that MPI allows, also one whose kinds go different
ways.  Since the code does not keep those apart, `ImplementsAtomics` promises something
only where a mix is `Covered` (its kinds go one way, and `disp_unit` does not cut a
Get_accumulate short; see section 6).  AbstractAtomics has updates that were called for, each of which
takes effect once, in one step, and none of which is left when its process has
flushed; the refinement maps `todo` to the words of a call that are still in the
network, wait for the mutex, or were got and will be put.

**Lifecycle** models foMPI_Init and Finalize, the tear-up and tear-down of the uGNI
communicator, creation by Win_create, Win_allocate and Win_create_dynamic, fences, and
Win_free.  What a process owns is a set of resources (`has`): heap blocks,
registrations, exports, mappings, completion queues, endpoints, MPI objects.
Collective calls are counted: a process leaves its k-th when all have entered
theirs, over all processes (`entered`) or over the node (`enteredNode`), so a
process that skips one shows as a wait that does not end.  `GlobalToLocal` is the
search for a rank on the node, with its two cases.  A scenario says which windows
a program opens, who contributes memory, which layers the program brought up, and
the ranks of each node.

**Datatypes** models the part of `src/mpitypes` a transfer goes through: sizes and
bounds of a type (`Footprint`), the tree of dataloops each constructor makes, with
its coalescing and special cases (`Built` is what the library keeps with a
type), and the walk over the tree that counts and
lists contiguous blocks.  Its second part is MPI's definition, the type map byte
by byte.  **BlockCache** models the cache of such lists in `fompi_win_rma.c`: the
search from the last hit, eviction, the walk over the origin's and the target's
list side by side, the cut at the borders of memory regions, and Type_free.

**FortranTables** models the two tables of `fompi_fortran.c`, their free lists and
the bindings that take and give back entries.

**LocalState** puts NotifUq, BlockCache and FortranTables side by side: what one
process keeps to itself.  They share no state and are worked on by one thread, so
a behaviour works on one of them, `focus`; every reachable state of each is
reached, without the product of all three.  It extends **LocalTables**, which holds
the two of them that are proved about, and BlockCache, whose types are trees.

## 3. The runs

| Run | Shows | Instance |
|---|---|---|
| MCWinLock | `WordsAccounted`, `CountMatchesList`, `PutsCovered`, refinement `ImplementsLocks` | 2 processes, 2 ranks, 2 locks held at a time, 2 requests in flight each |
| MCWinLockServed | `MutualExclusion`, `NoBarging`, liveness `SharedServed`, `AllServed` | 3 processes, 1 rank, 1 request in flight each |
| MCPscw | `EpochsMatch`, `WaitMeansComplete`, `CountersExact`, liveness `AllFinish` | 3 processes on 2 nodes, 2 rounds, every pair of plans over 3 edges, counters that begin at 2 |
| MCXpmemQueue | `OnePusher`, refinement `ImplementsFifo`, liveness `PushReturns` | 3 pushers, ring of 2, 5 pushes, up to 3 unread: pushers meet a full ring |
| MCXpmemQueueFull | finding: `CountBounded` is violated | 2 pushers, ring of 1 |
| MCNotification | `CountedOnce`, `OldestFirst`, `FalseMeansMissing` | 2 sources, 2 tags, 2 notifications each, 3 requests with wildcards |
| MCRmaOrigin | `DescriptorIdle`, `CqNotOverrun`, `NotifiedMeansData`, `FlushMeansDone`, `RegisteredWhileUsed`, liveness `CallReturns` | 3 operations, 2 descriptors, 2 blocks each |
| MCRmaOriginTest | finding: `ReportedMeansDone` is violated | 2 operations |
| MCDynamicWindow | `OneInside`, `ReadsRegistered`, `CopyFresh`, `ListWhole`, `AccessCurrent` | owner and reader, 3 regions, 3 nodes, 5 changes |
| MCAccumulate | `MutexAccounted`, refinement `ImplementsAtomics`, liveness `UpdatesReturn` | 2 processes, 2 words of 4 values, 8 mixes of kinds, dynamic and not, one of which goes two ways |
| MCLifecycle | `WindowUsable`, `FenceComplete`, `NothingLeft`, liveness `CallsReturn` | 3 processes on 2 nodes, 2 windows one after the other, 3 fences on each, 3 scenarios |
| MCLocalState | `WellLinked`, refinement `ImplementsUq`; `TransfersRight`; `HandlesDistinct` | 3 list nodes, 2 sources, 2 tags; 26 types under one handle and 1 under another, 2 slots, 2 windows; 2 windows and 3 requests of Fortran, tables of 2 that grow by 2 |

`TypeOK` of a module is the first conjunct of one of its invariants, the first the
table names for it, so every run that checks that invariant checks the types as
well; WinLock's is proved for every value of the constants and not run.

**Bounds.**  Constants bound what programs do, never what the library does:
`MaxHeld` (locks held), `MaxNbi` (operations before a program flushes), `Handle`
(requests in flight), `Rounds`, `MaxPut`, `Credit` (notifications left unread),
`MaxPush` (numbering of notifications), `MaxSend`, `Node`, `MaxBlock`, `Id` and
`MaxId` (changes of a list), `TailMax` (pushes into a ring).  In MCWinLockServed three
processes are a holder, a requester that backs off and a waiter.  MCWinLock has two ranks
for the count of exclusive locks, which skips the master for the second, and two
requests in flight, so that a release may overtake a put; its four properties are
proved for any number of processes.  Five pushes wrap around the
ring of two twice and around the three flags of the lock once.  Two rounds let an
early process meet counters and posts of the round before.  A ring of two has
a wrapped and an unwrapped state, empty, partly full and full.  Three list
nodes have a first, a middle and a last.  Two descriptors complete in the other
order than they were posted, and the third operation finds the ring empty.
In Accumulate a process has one request at a time to a word in flight and swaps
in an operand of its own; `Modulus` bounds the values, `Compare` what
Compare_and_swap looks for, and two words show a call that is done with one and not
with the other.  `DispUnit` is 8, the size of the words, so that direct calls of
Get_accumulate are covered (section 6).  In Lifecycle, `Lives`,
`Fences` and `MaxPuts` bound the program and `Namers` the processes that call
Win_set_name; two windows show what is left of the first when the second is made,
two epochs between three fences a put that is late, and two nodes, one of one
process, ranks that follow one another and ranks that do not.  In LocalState, `Slots`
(10 in the code) is 2, the least that holds both entries of one call, so every new
pair evicts; `First` and `Growth` (100 each) are 2; `Counts` are the numbers of
elements of a call, and the types were chosen for the paths of the constructors.
`Half`, `AccessRange` and `CharRange` stand for integer widths
and are chosen so that the passing runs stay inside them, as `TailMax` stays inside the
int of the tickets (see section 6 for what happens outside).

**Symmetry** is used in runs without liveness only (processes, ranks,
handles, pushers, nodes, regions, sources, tags), never over a set whose
elements a definition distinguishes; in MCLocalState over the list's nodes alone.

**Deadlock** is checked except in MCDynamicWindow, where a detach of memory that is not
attached keeps the mutex (section 6), and everyone else then spins.  In
WinLock and Pscw a spin is a step, so what the check finds there is a process that can
neither go on nor spin; whether spins end is a matter of the liveness properties.

**Fairness.**  A process that is inside a call keeps executing it, and the network
delivers: WF on a process's `CallStep` (or the steps of a push), on `Deliver`, `Land`
and `Complete`.  Beyond that:
- WinLock: programs leave their epochs (WF of unlock), which MPI demands.  That is all:
  nothing is assumed about which reads of a spin meet a free word.  lock_all is served
  only when exclusive requests stop competing with it (`<>[]` nobody is `Requesting`,
  the condition in `AllServed`); while they keep coming the code promises nothing, since
  two requesters that back off in turns keep the low half above zero at every
  read.  `SharedServed` needs no such condition: a registered shared request keeps new
  exclusive requests out.
- Accumulate: SF of `SetMutex`: a process that finds the mutex free again and
  again gets it once; under weak fairness alone two others could hand it to each other
  for ever.
- Lifecycle: programs go on to the next fence, to Win_free and to foMPI_Finalize.
- XpmemQueue: the owner keeps popping (WF of `Pop`), and SF of `FindRoom`: a
  pusher spins on a `count` that is below the limit again and again, and reads it
  once while it is.
- RmaOrigin and Pscw need weak fairness only; in Pscw that includes both reads of
  Win_wait, in either order.
- Nothing is assumed about who wins a compare-and-swap, so no property says that
  a particular process gets the `dynamic_mutex` of a dynamic window.

## 4. Proofs

TLAPS checks the following for every value of the constants that satisfies the
named assumptions of the modules.  A module of proofs extends the module it is about;
**Lemmas** holds what several of them need.

| Module | Theorem | States |
|---|---|---|
| WinLockProofs | `TypeCorrect` | `Spec => []TypeOK`; no lock word goes below zero and no half of `lock_all_mutex` wraps |
| | `Exclusion` | `Spec => []MutualExclusion` |
| | `Accounting` | `Spec => []WordsAccounted` |
| | `Coverage` | `Spec => []PutsCovered` |
| | `CountAgrees` | `Spec => []CountMatchesList` |
| | `Refinement` | `Spec => ImplementsLocks`, the abstract readers/writer locks |
| | `SharedNotOvertaken` | `Spec => NoBarging` |
| PscwProofs | `EpochsMatchCorrect`, `WaitMeansCompleteCorrect`, `CountersExactCorrect` | the three invariants of Pscw |
| NotificationProofs | `OnePusherCorrect` | `Spec => []OnePusher` |
| | `QueueImplementsFifo` | `Spec => ImplementsFifo` |
| | `RoomIsEnough` | `Credit <= Capacity => (Spec => [](CountBounded /\ ~overrun))` |
| | `NotificationsCountedOnce`, `NotificationsOldestFirst`, `NotificationsFalseMeansMissing` | the three properties of Notification |
| RmaOriginProofs | `DescriptorIdleCorrect`, `CqNotOverrunCorrect`, `NotifiedMeansDataCorrect`, `FlushMeansDoneCorrect`, `RegisteredWhileUsedCorrect` | the safety properties of RmaOrigin |
| DynamicWindowProofs | `OneInsideCorrect`, `ReadsRegisteredCorrect`, `CopyFreshCorrect`, `ListWholeCorrect`, `AccessCurrentCorrect` | the properties of DynamicWindow |
| AccumulateProofs | `MutexAccountedCorrect` | `Spec => []MutexAccounted` |
| | `CallsImplementAtomics` | `Spec => ImplementsAtomics`: every mix MPI allows and any `disp_unit`; the property itself says for which the code is atomic |
| LibraryProofs | `LifeInvariant` | `Spec => []LifeInv`, the inductive invariant of Lifecycle |
| | `FencesSeparateEpochs`, `WindowsStayUsable`, `NothingIsLeft` | `FenceComplete`, `WindowUsable` and `NothingLeft` of Lifecycle |
| | `WellLinkedCorrect`, `QueueImplementsUq` | the list of NotifUq is one list, and implements AbstractUq |
| | `HandlesDistinctCorrect` | `Fortran!Spec => []HandlesDistinct` |

**Assumptions.**  They are named in the modules and TLC evaluates them for every
instance.  Sets of processes, ranks, request handles, pushers, operations, list nodes and
words are finite, names for "nothing" name nothing else, and bounds are naturals.
Beyond that:
- WinLock: a half of the word is larger than the number of processes plus the number
  of requests they can have in flight (`HalfAssumption`; 2^32 in the code);
- Pscw: the counters of a new window may hold any natural (`Unset`), and
  `AccessRange` is at least 2 (2^32 in the code).  That the origin's count
  wraps does no harm to the safety properties: a wrapped count makes Win_start
  wait longer, never shorter;
- XpmemQueue: at most `TailMax` pushes go into a ring while its window lives, for any
  natural `TailMax` (2^31 - 1 in the code, where the int of the tickets ends; section 6
  says what happens then).  Node sizes and `TailMax` are not related;
- Accumulate: `Or` of two values is a value;
- Lifecycle: the scenarios are of their type, and the groups of the nodes put every process on
  exactly one node (`ScenarioAssumption`, `NodesAssumption`); there is a process and a
  fence, as many windows in a row, and any mix of their kinds, as one likes;
- LocalTables: the tables begin with and grow by at least one entry, and no variable is
  both a window and a request.

### The arguments

**WinLock.**  `MutualExclusion` alone is not inductive: whether an
exclusive request may take a rank depends on words that mix holders, waiters and
releases still in the network.  `IInv` therefore adds
- `WordsAccounted`: each word is the number of contributions of each kind, by the
  place each process is at and the requests in flight, so that a compare-and-swap
  that finds zero proves that nobody holds, waits or is about to release;
- `Control`: what the place of a process says about its lists and its requests
  (for example, that a process which has flushed has no request in flight);
- `Requests`: every request in flight is one its issuer could have issued;
- `AllExcludes`: while somebody holds lock_all, nobody holds or is just about to
  take an exclusive lock: the second level of the protocol;
- `CountMatchesList`, which ties `local_exclusive_count` to the list, without which a
  process would skip the master wrongly; and `PutsCovered`.

The proof has one lemma per conjunct that each action can disturb.  The words are sums of
cardinalities, so `OneMore`, `OneLess`, `Subsets`, `IssueAdds` and `DeliverRemoves` say
how a set of processes or requests changes when one joins or leaves, and
`MasterBounds`, `BackoffCounted`, `LockAllCounted` and
`MasterReleased` that a term a step subtracts is there.  `NoCarry` uses
`HalfAssumption`.  The refinement maps `excl`, `shared` and the accesses in flight to
sets computed from `excl_locks`, `shared_locks`, `all_locked` and `net`; every action is
an abstract action or leaves those sets alone (`NextRefines`).

**Pscw.**  Posts and starts of a pair of processes are counted, not numbered, so the
invariant counts the rounds in which the pair meets (`Epochs`): the posts that arrived
or are under way are no more than the target made (`PostsCounted`), the origin's count is the
epochs it started (`StartsCounted`), and what it has waited for has arrived
(`SpinsCounted`).  An origin past its spin for the k-th common epoch thus proves that the
target has posted k times, and since the target leaves no round before its origins have
told it (`WaitAfterTold`), both are in the same round: `EpochsMatch`.  `CountersExact` and
`ToldOnce` say that the two counters and the notices under way are exactly the origins
that are through, so a Win_wait that sees the size of its group has them all; and
`PutsInEpoch` that these have flushed.  Wait reads the counters one after the other: what
it read first is no more than what is there now (`SeenBound`), since only Win_post
takes from a counter and it is not called meanwhile, and the counters are never more than
the size of the group: so two readings that add up to it are both of what is there.

**XpmemQueue.**  The tickets of those in the lock are the last ones drawn, modulo the
number of flags, each in one hand (`TicketsInOrder`), and there are tickets left for every
push that has begun (`TicketsLeft`); who holds the lock has the
oldest (`HolderAtHead`); the one flag that is set is that of the oldest ticket
(`OneFlag`).  Modular arithmetic is in Lemmas (`ModDistinct`, `ModUnique`, `ModShift`).  `RingAligned` gives the ring as long as nothing was written
into a full one (`overrun`): the insertion index is the extraction index plus what is
published and written.  What the holder has written of its entry, field by field, is what it
sends (`Written`), and what the owner has read of the oldest entry is still there.  From this
the abstract queue is read off, entry by entry
(`ContentsIs`), a publication is a send and a read is a receive.  `RoomIsEnough` states
the condition under which the reservation is void: what MCXpmemQueueFull refutes cannot
happen when programs never leave more unread than the ring holds.

**Notification.**  That no notification is lost or counted twice needs to know where
each one is.  `NotifInv` has
- `Order`: the numbers of a source ascend along each queue, what is in `uq` is older than
  what is in the ring or in the destination queue, and a source uses one of these two;
- `AllInOnePlace`: a notification that has arrived is counted in exactly one of the three
  queues, in the counts of the requests and in those already completed (`Places`), one that
  has not in none;
- `GotCounted`: `found` is the number of notifications it stands for, all of which match;
- `Searched`: once the search of `uq` is over and more is needed, nothing in `uq` matches,
  also of what the poll loop has put there since;
- `EnoughKept`: if what had arrived when the call began was enough, then what the call has
  still to look at is enough (`Reach`).

`Order` and `Searched` give `OldestFirst`: whatever is counted from the ring or the
destination queue has nothing older before it in `uq`.  `EnoughKept` gives
`FalseMeansMissing`.  Sequences are dealt with by `Without` and `Append`: what a sequence
that loses or gains one element has to do with the one before, so no fact about
filtering is needed.

**RmaOrigin.**  The free descriptors are the `Free` entries of the ring from `extr_ind` on:
they are all different and none is posted or in the completion queue (`RingFree`,
`EventsDistinct`), whatever the order of completions has done to the ring.  The counter is
exactly what is posted plus what has completed and was not read.  `NetworkCounted` and
`CallControl` say where a call may be when blocks of its operation are in
the network; a flush waits for both counters and so for everything.

**DynamicWindow.**  There is a sequence of nodes `L` the pointers spell out
(`Linked`, `Ended`), whose filled nodes hold the attached regions with their present
registrations (`Contents`); who is copying has copied a prefix of it and stands at the next node
(`Walks`); and who has a copy made at the present `dynamic_id` has a copy of `L` (`Fresh`).
The mutex keeps the owner's changes apart from the walks, and `dynamic_id` goes up before
the mutex is given back.  `Found` carries what a lookup relies on after
the mutex was released: what is accessed stays attached, and nothing else can change its
registration.  `List`, the walk over `next`, is a recursive function; that it is `L`
follows from its definition by the least place at which it would differ (`ListIsChain`).

**Accumulate.**  The mutex is taken exactly while a process is between getting and
giving it back (`MutexAccounted`).  Every request in flight is of a call that goes directly, or
the get or put of the call that has the mutex (`RequestOK`), and a word that was got under the
mutex stays as it was until it is put (`WordKept`): this holds only where
the kinds of calls of a program go one way (`OneWay`), since the NIC does not ask for the
mutex, and so it is a condition in the invariant and in the property, and none of Init.  In the refinement the put under the mutex is the moment of the update.

**Lifecycle.**  A process learns of the others by collective calls alone, so everything
rests on how far apart processes can be.  `Counting` says that the place, the window and
the epoch of a process determine how many collectives it has entered (`Earlier` are those
before its window, `Calls` those of a window, one fewer when it is dynamic), and
`Barriers` that nobody is behind the last collective another one has left.  From these two
follows `WindowLife`: if a process has gathered the others' addresses for a window, every
other is at that window, and in no later epoch than a process that is between two fences; and
nobody is past the first barrier of Win_free before everybody is in it.  The rest of `LifeInv` says what that is
worth:
- `Knowing`: what a process holds of the others' addresses and mappings is of this window;
- `Owning`: what it owns lies between the least that its place demands and that plus what
  programs may add (a name, copies of dynamic lists); `Made`, `Mappings` and `WindowHas` spell out
  what each call of window creation contributes;
- `Attaching` and `InNetwork`: regions are attached in the epochs in which others access
  them, and a put in the network is of the epoch its origin is in, since a fence flushes
  first; `Layering`: Finalize shuts the layers foMPI_Init has started, and PMI.

`FenceComplete` and `WindowUsable` follow from `InNetwork` (`PendingLife`), `Knowing` and `Owning`
by `WindowLife`.  For `NothingLeft`, `ShutAll` compares all that the calls of
creation make, kind by kind, with all that Win_free gives back: it takes back every resource of the
window and none that outlives it.

**LocalTables.**  *NotifUq*: there is a sequence `L` of different nodes that is the list from
the tail along `prev` and, backwards, from the head along `next`; a push adds a node at the end of `L`, which is the head of the list, and a
removal takes one out (`Without`), by cases of the head, the tail and the middle
(`DetachPointers`).  Both walks are recursive functions and equal `L` since two walks along the same
pointers agree (`WalkUnique`).  The abstract queue is `L` read through the nodes' data; the
search stops at the oldest match.  *FortranTables*: `Sound` says of a table that its
variables hold different indices, none of them free, that no index is lost, and, what the
property does not say and the proof needs, that the free indices no entry was ever
assigned to are the highest, in order, at the end of the list: so an index that is
taken is never beyond the entry after the last one assigned (`IndexIsNew`).  Every call takes an
index (`TakeKeeps`), gives one back (`GiveBackKeeps`), or clears the entry of an
operation that was tested and keeps its index (`ClearKeeps`).

TLC agreed with each of these invariants on the instances of the runs, or on smaller ones,
before it was proved.

### What is only model-checked

- All liveness (`SharedServed`, `AllServed`, `AllFinish`, `PushReturns`,
  `CallReturns`, `UpdatesReturn`, `CallsReturn`): it rests on fairness, that is on ENABLED, which the
  prover does not handle.
- `TransfersRight` of BlockCache: datatypes are trees and its operators are RECURSIVE, which
  the prover does not take; what such an operator computes for every input is an
  induction over data in any case.
- That the queues of Notification are the ring of XpmemQueue and the list of NotifUq: each is proved
  to implement a sequence, but the three modules are not composed.

## 5. What is not modelled

Topology (`libtopodisc`: who shares a node is a constant of the models; what the search
leaves behind is counted in `TopologyLoses` of Lifecycle), timing and
tracing, attributes and groups (local getters, or calls that answer that they are
not supported), and bindings that only forward their arguments.  In the modelled
parts:
- everywhere: the `assert` arguments and MPI_PROC_NULL, Win_sync (a memory
  barrier), status objects, errors of DMAPP and uGNI (the code aborts), and
  programs that break MPI's rules.  Memory is sequentially consistent: the code
  relies on x86 order and locked instructions for the XPMEM structures;
- RmaOrigin: transfers on one node, which are memory copies and complete when the
  call returns; MCLifecycle has them as steps without a request;
- Accumulate: the arithmetic of each C type (two operations stand for those that
  the NIC has and that it has not, one type for each way); on one node, copies by
  loads and stores are treated like requests that are in flight; nothing is
  promised about the order of a process's own updates;
- Lifecycle: releases of locks and PSCW epochs in the network while a window is
  freed, the addresses and sizes of what is exchanged, and job attributes;
- Datatypes: darray, the pair types of MINLOC and MAXLOC, the Fortran types with a
  precision, and loops of kind struct, which are made for heterogeneous systems only
  (foMPI passes the flag 0 throughout, which is homogeneous); packing and printing.

## 6. What the models show of the code

Two runs show a disagreement between the code and what its comments say:
- *MCXpmemQueueFull.*  `xpmem_notif_push` tests `count` before it takes the lock
  (`fompi_notif_xpmem.c:116-117`) and not again, so all pushers that saw the last
  free entry push, and unread entries are overwritten.
- *MCRmaOriginTest.*  `_foMPI_Test_Wait` frees a request that is not persistent
  whatever the test answered (`fompi_req.c:228`): after a foMPI_Test that says false
  the handle is null, and the next says true while the operation is under way.

Limits of the passing runs, where the code behaves differently beyond them:
- Win_wait casts `xpmem_global_counter` to `char` (`fompi_win_pscw.c:203`; Win_test
  does not).  In Pscw, with a group as large as half of `CharRange`, `AllFinish`
  fails: 128 origins on the target's node in the code.
- `pscw_matching_access` is 32 bits wide and compared with a 64-bit count
  (`fompi_win_pscw.c:58`).  With `Rounds >= AccessRange` Win_start never returns: 2^32
  epochs in the code.
- The ticket of a ring is an int that only grows (`fompi_notif_xpmem.c:19-21`).  After 2^31
  pushes it is negative, and so is most often the slot computed from it: the lock then
  spins on, and clears, memory before its flags.  `TailMax` keeps the model, the run and the
  theorems before that point, and nothing is claimed beyond it.  2^32 changes of a
  dynamic window's list (`fompi_win_dynamic_create.c:189`) are not followed
  either: `MaxId` stays inside the width.
- The low half of `lock_all_mutex` counts requesters and holders, so its least
  significant bit does not say whether an exclusive lock is held, as
  `fompi_internal.h:313` has it, and two requesters that back off in turns can keep
  lock_all waiting for ever with no exclusive lock anywhere.  `AllServed` is therefore
  conditional: it is checked with three processes, of which two may compete as
  described, and promises the grant only if exclusive requests stop.
- foMPI_Wait does not make a persistent notification request inactive
  (`fompi_req.c:231` with the dummy flag of `fompi_notif.c:51`), so Waitany may report
  it again.  The model does the same.
- A request that matches any source looks at the ring first and starts over after
  each event (`fompi_notif.c:172`): while others keep the ring filled, it does not
  reach the destination queue.  No liveness is claimed of a wait on notifications.
- Win_detach of memory that is not attached returns with `dynamic_mutex` held
  (`fompi_win_dynamic_create.c:242, 285`).  MCDynamicWindow has such calls
  (`Unknown = TRUE`): everyone who needs the mutex afterwards waits for ever.
- *Accumulate.*  Calls that go different ways are not atomic with each other: the
  mutex does not keep the NIC out.  A sum of a derived type of 64-bit integers beside
  a sum of the basic type, for one, which MPI allows, loses updates; so do the two calls of
  the first of `MCMixes` in a dynamic window, where Get_accumulate takes the mutex and
  Accumulate does not.  The run has these behaviours and checks the mutex and the return
  of calls in them, but `ImplementsAtomics` claims nothing there, and without
  `Covered` it fails.
- The default build defines NDEBUG (`Makefile.inc:10`), so the result of
  `foMPI_RMA_op` is not looked at in Accumulate and Get_accumulate: for an operation
  that is not supported they put back a buffer that was never written.  Such
  kinds are not run.  Fetch_and_op looks at it, and skips the put.
- Get_accumulate's direct way counts elements as `target_count * disp_unit / 8`
  (`fompi_win_rma.c:2198`): with a `disp_unit` of 1 it fetches and adds to an eighth
  of the words.  `Covered` leaves out such calls, and no others: a `disp_unit` other than
  8 harms none of the other ways.  On one node the direct ways of BOR, BAND and BXOR give the NIC an
  address of the process's own mapping, which is not the target's.
- *Lifecycle.*  `NothingLeft` names what is never given back (`Lost`).  Of every window: the
  destination queue and the head of its list of unexpected notifications
  (`_fompi_notif_uq_finalize` frees the nodes and sets the pointer to NULL), the block that
  Win_allocate takes for size 0, and the copy of its own list that a process makes
  when it accesses itself in a dynamic window.  Of foMPI_Init: three arrays of the
  communicator (`group_ranks`, `data_desc_array`, `data_desc_ptr`) and the MPI group of
  `fompi_comm.c:59`, the communicator and the group of the node
  (`fompi_overloaded.c:114-117`), and, with more than one process, two arrays of the search for
  the node (`findcliques.c:72, 127`).  PMI is finalised whoever initialised it
  (`fompi_overloaded.c:205`), and Win_free takes back the export of memory others
  have still mapped, which is safe because a mapping is not used again after the
  first barrier.
- *Datatypes.*  The model follows the code in what it does and the run leaves these
  out: indexed types in bytes whose first blocks are empty address the rest of their
  displacements as ints (`dataloop_create_indexed.c:142, 171`); a contig over a contig
  is coalesced when the inner type is as long as its data, also when the elements
  of the inner loop are not (`dataloop_create_contig.c:63`); a derived type without data never reaches its last
  block (`fompi_win_rma.c:377, 827`); blocks are listed up to the span of the data and
  not its size, which cuts the list short for a type of negative extent
  (`fompi_win_rma.c:294`); and the test whether one region holds a transfer
  takes data to start at the displacement (`fompi_win_rma.c:845`).
- *Fortran.*  A wait or test on the null request (index -1) reads before the table;
  programs of the model do not make one.

## 7. Plan

Done: WinLock, Pscw, XpmemQueue, Notification, RmaOrigin, DynamicWindow, Accumulate,
NotifUq, FortranTables and Lifecycle with their proofs; Datatypes and BlockCache.  Every
safety property a passing run checks is proved, but for `TransfersRight`.  What is left, most
important first:
1. *Rings*: two XpmemQueue instances and the programs of both owners; whether
   pushers of full rings can wait for each other for ever.
2. Composition of Notification with XpmemQueue and NotifUq in place of its sequences.
3. Releases of locks and PSCW epochs in Lifecycle.
