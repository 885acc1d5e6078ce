# Verification of TransGC

TransGC is HotSpot 6 with a *transactional* young generation. Objects that a
server allocates while it serves one request (a *transaction*) are put into one
of `MAX_TRANSEDEN` transaction edens. When the request is over nearly all of
them are dead, so the eden can be collected alone. This directory models the
part of the VM that makes this work and shows that it keeps transactions apart;
and it models the parts of the VM this rests on: native monitors, parking and
safepoints.

## 1. Inventory

### Parts and how they interact

Source paths are relative to `src/src/share/vm`.

| part | code | state | operations |
|---|---|---|---|
| pool of edens | `memory/transNewGeneration.*`, `memory/space.*` (`TransEden`) | per eden: `state`, `transID`, `trained`, contents; `_assignedCount`, `_availableCount`, `_collectableCount`; `trans_lock` | `getTransEdenToAllocate`, `should_allocate`, `par_allocate`, `set_transEden_collectable`, `collectResettableTransEden`, `reset_transEden(s)`, `collectTransEden` |
| transaction detection | `runtime/thread.*`, `runtime/sharedRuntime.cpp`, `gc_interface/collectedHeap.inline.hpp`, `os_linux.cpp` (`Parker::park`) | per thread: `_transID`, `_transEdenID`, `_pooled`, `_monitor_filter`, TLAB | birth of a worker, begin (leaving `await()`, or first allocation after `park()`), end (`park()`, `await()`, `exit()`) |
| allocation policy | `memory/collectorPolicy.cpp`, `memory/genCollectedHeap.cpp` | local to a request | `mem_allocate_with_pretenuring`: the gate that decides to reclaim, the choice of generation, the retry under `Heap_lock` |
| collection of one eden | `memory/genCollectedHeap.cpp`, `memory/transNewGeneration.cpp`, `gc_implementation/shared/vmGCOperations.*` | `total_collections`, the operation's snapshot of it | `VM_CollectTransEden` |
| other collections | `memory/genCollectedHeap.cpp` | | `VM_TypeGenCollectForAllocation`, full collections, reset of the pool under `DebugTypeGenGC` |
| safepoints | `runtime/safepoint.cpp`, `runtime/interfaceSupport.hpp`, `runtime/thread.cpp` | `_state`, `_waiting_to_block`, thread states, polls, `Threads_lock`, `Safepoint_lock` | `begin`, `block`, `end`, thread state transitions, start and exit of threads |
| native monitors | `runtime/mutex.*` | lock word with `cxq`, `EntryList`, `OnDeck`, `WaitSet`, `_owner`, `_snuck` | `lock`, `try_lock`, `unlock`, `wait`, `notify`, `notify_all` |
| residual training | `memory/transNewGeneration.cpp`, `memory/universe.inline.hpp` | counters, `_training_done` | `trainingResidual` |
| evacuation | `memory/transNewGeneration.cpp`, closures | object graph, forwarding pointers | copy to old, promotion failure |
| full compaction | `memory/genMarkSweep.cpp`, `memory/space.*` | compaction point, forwarding | mark, forward, adjust, move |
| remembered sets | `memory/cardTableRS.cpp` | card states | write barrier, scan, clear |
| parking | `os_linux.cpp` | `_Event` or `_counter`, mutex, condition, `_nParked` | `park`, `park(millis)`, `unpark` |

A worker that allocates for a transaction without an eden asks the pool for one
under `trans_lock`. When none is Available and one is Collectable the worker
itself makes one: with a VM operation at a safepoint, or, once the training of
residual classes is over and `Pretenure` and `AVOID_COLLECT_TRAINED` are set, by
resetting trained edens in place while everybody else runs. The end of a
transaction only marks its eden Collectable. A complete collection moves the
contents of all edens elsewhere and, under `DebugTypeGenGC`, resets the pool
while transactions are running.

The copying inside the collection of one eden is `Evacuation`. The VM operation
runs at a safepoint, which `TransNewGeneration` takes as two atomic steps:
`StoppedAtSafepoint` of `Safepoint` is what justifies that. `Safepoint` in turn
takes the `Threads_lock` and the `Safepoint_lock` as atomic, which is what
`NativeMonitor` shows of a monitor by refining `AbstractMonitor`; and
`NativeMonitor` takes the event a thread parks on as a permit that is given and
taken exactly once, which is what `Parking` shows of `PlatformEvent`.

### What is hard

* The fields of an eden, the three counts and the fields of a thread are
  written one after the other, mostly without a lock. `trans_lock` orders the
  allocating threads among themselves only.
* Decisions are made on values that are old when they are used: the gate's two
  counts, the collection count in a queued VM operation, the eden cached in a
  thread, the answer of `should_allocate`.
* `park()` publishes the eden before it retires the TLAB inside it.
* A collection may be refused, fail in the middle, be disabled, or be beaten by
  another one.
* The pool is reset under running transactions.
* In-place resets race with each other and with allocation.
* A promotion fails in the middle, when some references already lead to copies.
* Monitors, safepoints and parking are built on stores by one thread and loads
  by another without a common lock; a window of one instruction decides.

`PROJECT.json` lists each such hazard at its line.

## 2. Modules

| module | content |
|---|---|
| `TransPool` | what the pool promises: one transaction per eden, its objects only, kept until it has ended or a whole-heap collection moved them |
| `TransNewGeneration` | the pool, the workers and the VM operations; properties; mutants |
| `Evacuation` | the collection of one eden over an object graph |
| `Compaction` | phases 2 and 4 of a full collection |
| `AbstractMonitor` | what a monitor promises: one holder, one waiter released by one `notify` |
| `NativeMonitor` | the VM's `Monitor` |
| `Safepoint` | the rendezvous of all threads |
| `Parking` | `PlatformEvent` and `Parker` |
| `MCTransNewGeneration` | instances of `TransNewGeneration` for TLC (symmetry) |
| `TransNewGenerationInv` | type correctness; the inductive invariant; steps of a worker's life preserve it |
| `TransNewGenerationSafety` | steps of allocation and VM operations preserve it; the safety theorems, the refinement of `TransPool` and the action properties |
| `TransNewGenerationCounts` | the three counts of the pool |
| `EvacuationProofs` | the remembered set, the references and the object graph across collections of edens |
| `CompactionProofs` | destinations and memory during a full collection |
| `NativeMonitorProofs` | mutual exclusion, the lists, the refinement of `AbstractMonitor` |
| `SafepointProofs`, `ParkingProofs` | inductive invariants and theorems of these two |

Operators whose comment begins with "Mutant of" are wrong variants of the
definition that follows them. No specification uses them; each is what a
plausible slip would make of that code, and violates the property that
`PROJECT.json` names with it.

### TransNewGeneration

State. `transID`, `transEdenID`, `pooled`, `monitored`, `tlab` are the fields of
a `JavaThread` (`tlab[t]` is the eden the TLAB lies in, `NULL` if none or
outside the pool). `state`, `edenTransID`, `trained`, `objs` are those of a
`TransEden`; `objs[e]` is the set of transactions with objects in `e`, which is
all that isolation can tell apart. The counts and `trans_lock` have the code's
names. `pc`, `ret`, `idx`, `got`, `wantTlab`, `didSomething` are the control of
a thread inside the VM; `beaten[t]` says that `total_collections` moved since
`t`'s VM operation read it, which is all that `skip_operation` compares.

Steps. Every access that another thread can observe is a step, so
`set_transEden_collectable` is `EndCheck`, `EndState`, `EndCount`, and
`collectResettableTransEden` is `ResetScan` to `ResetClear` in the order of the
code. Accesses that only the owner of `trans_lock` or of the field can observe
are merged with the step before. A count is changed atomically (`cmpxchg` in a
loop). A safepoint is reached only when every thread is in Java code, waits for
its VM operation, waits for `Heap_lock`, or does not exist (`SafePCs`);
`trans_lock` is taken *without safepoint check*, so its waiters are not safe.
What happens at a safepoint is one step, because nobody else runs.

| action | code |
|---|---|
| `transCheckBeforeRun`, `StartTransaction`, `Begin` | birth of a worker, new transaction id, forgetting the old eden |
| `Park`, `AwaitEntry`, `Exit`, then `EndCheck` ... `EndReset`, `Retire` | the three ways a transaction ends |
| `AllocInTlab` | allocation inlined in compiled code |
| `Allocate`, `GateCollectable`, `GateAvailable`, `Returned`, `Retry` | `mem_allocate_with_pretenuring` |
| `Lock`, `Cached`, `Scan`, `Take`, `Taken` | `getTransEdenToAllocate` |
| `ResetScan` ... `ResetClear` | `collectResettableTransEden` |
| `SafepointBegin`, `SkipOperation`, `CollectTransEden` | `VM_CollectTransEden` |
| `SafepointBeginGC`, `OtherCollection` | any other collection |

The constants are the command line flags that change control, and `Env`, the
things the rest of the VM may do: collect for other reasons (`gc`), find the old
generation too full (`unsafe`), run out of space while promoting
(`promotion_failure`), disable collections (`gc_locker`).

Abstractions. A request that gets no room in an eden is served outside the
pool, in the local young or the old generation. An eden may be full at any
time. The TCP accept thread has been found. Training may end at any evacuation
(`ExamineResiduals`). Transaction ids do not wrap: a fresh id is one that no
thread, eden or object carries. A collection that finds no eden Collectable does
nothing. In the code it then asks for eden number 2, which exists for a
`MAX_TRANSEDEN` of 3 or more (the default is 5) and is not Collectable either.

### Evacuation

The heap is a range of addresses, one object at each: local young generation,
edens, old generation. `ref` is the field of each object (and the references
outside the heap), `hashed` the objects with an identity hash in their mark
word, `card` the old objects on dirty cards. Between collections the program
allocates (`Allocate`), stores (`Store`, with its card mark) and ends
transactions. `collectTransEden` sets up the roots; then each step is one call
of `do_oop`: `SkipFields` (nothing to do but the barrier), `UpdateField` (to an
object already forwarded), `Promote`, `FailPromotion`, with the stack of
objects that could not be promoted drained first, as
`handle_promotion_failure` does. References that need no promotion commute, and are
handled before those that do. `FreeEden` and `KeepEden` are the two ends of
`collectTransEden`. Whether a promotion finds room is open at each object.

With TransGC the scan of the cards does not clean them
(`cardTableModRefBS.cpp:444-454`), so `card` only grows. That
`remove_forwarding_pointers` resets the mark of every object of *every* eden is
in the model: an object of another eden loses its hash, and `GraphPreserved`
therefore speaks of the hashes of the collected eden only.

`FullCollectionFirst` says that after a failed promotion the next collection is
a full one, as generational collectors assume; the model then collects no more
edens, since a full collection is the subject of `Compaction`. The code does not
enforce it (see `skipped_eden`).

### NativeMonitor

One step is one access to shared state. `locked` and `cxq` are the lock word,
which one CAS reads and writes together. `OnDeck` names the heir presumptive or
holds `LBIT`, the inner lock. The lists are sequences; the code links them
through one field of the thread's event, so that `OnOneList` is what makes this
right. `lock` is `Lock`, `TrySpin`, `ILock`, `AcquireOrPush`, `CheckOnDeck`,
`Park`, `OnDeckLoop`, `ClearOnDeck`, `LeaveTBIVM`; `IUnlock` is `DropLock` to
`Resample`; `wait` is `Wait`, `AddToWaitSet`, `IUnlock`, `WaitLoop`,
`RemoveFromWaitSet`, and either path of `lock`; `notify` is `NotifyPop`,
`NotifyPush`, `NotifyDone`, and `notify_all` repeats it. Safepoints come and go;
during one the VM thread may take the lock although its byte is set, if nobody
owns it, because the thread that set the byte is stopped before `set_owner`.

### Safepoint

`thread_state` is `JavaThread::_thread_state` with its transition states. A
transition is `LeaveVM` or `Return` (first store), `CheckState` (the load of
`_state`), `Arrive` (second store); between the last two `Block`, `CallBack`,
`Resume` are `SafepointSynchronize::block`. `begin` is `Begin` (the
`Threads_lock`), `Synchronize`, `ArmPolls`, `Examine` of each thread,
`AllExamined`, `WaitToBlock`, `WakeUp`, `Synchronized`; `end` is `DisarmPolls`,
`Desynchronize`, `Restart`. `LockThreads`, `Acquire`, `AddThread`,
`RemoveThread` start and end threads. What happens under the `Safepoint_lock`
without waiting is one step.

### Parking

One thread parks, any number of others publish a condition and unpark it. The
condition variable may wake without reason. `_Event` is changed by CAS;
`_counter` in the fast path of `Parker::park` is not under the mutex, and the
store there is `pending` until `Drain`, which any later lock or atomic
instruction forces: the store buffer of x86. `workaround` is the flag
`WorkAroundNPTLTimedWaitHang` (signal before or after the mutex is released).

### Compaction

A full collection computes for each live object where it will go (phase 2,
`SCAN_AND_FORWARD`) and later moves them all (phase 4, `SCAN_AND_COMPACT`), both
from the old generation to the young ones. The heap is a row of spaces in that
order. `used`, `starts`, `live` describe its blocks when the collection starts
and are arbitrary; `mem` says which word of which object an address holds, so
that a copy over an object is seen. `EnterSpace`, `LeaveSpace` are the head and
the tail of the scan of a space, `Forward` and `SkipDead` the two cases of its
loop, `SwitchSpace` one turn of the loop in `CompactibleSpace::forward` that
looks for room and skips the transaction generation. `CompactBlock` moves one
object, `ResetSpace` sets the new top. One thread runs all of it; the steps are
kept apart because the properties are about the states between them.

Left out: marking and the adjusting of pointers (phases 1 and 3), the permanent
generation, offset tables, a to-space left full by a failed promotion. `allowed`
starts from any member of `DeadWood`, for the ratio is a flag and each
`MarkSweepAlwaysCompactCount`-th collection allows none. The threading of dead
ranges and the shortcut over the unmoved prefix in phase 4 decide only how fast
the next live object is found.

`Overfull` says whether the survivors of the old generation and of the edens
may exceed the old generation. The code does not test this before it compacts.

## 3. What TLC checks

`cd tla; tlc -config X.cfg M`, with `X` and `M` as in the tables. Deadlock is
checked in every run but the two of `Evacuation`, which may use up its bound of
steps.

| run | module, cfg | instance | properties |
|---|---|---|---|
| `recovery` | `MCTransNewGeneration`, `Recovery` | 2 threads, 2 edens, 3 ids, default flags, fairness | `AssignedHasOneOwner`, `PoolAccounting`, `CollectableAccounting`, `CollectionHasWork`, `PoolRecovers` |
| `pool` | `MCTransNewGeneration`, `Pool` | 2 x 2, 3 ids, park mode, worker born in a transaction, trained edens erased, pool reset by complete collections, refused, failing and disabled collections | `IInv`, `Isolation`, `TlabInOwnEden`, `AllocateFindsEden`, `OnlyOwnerPublishes`, `OnlyEndedEdensAreFreed`, `ImplementsPool` |
| `solo_reset` | `MCTransNewGeneration`, `SoloReset` | 1 thread, 2 edens, in-place reset | `PoolAccounting`, `CollectableAccounting` |
| `evacuation` | `Evacuation`, `Evacuation` | 2 roots, 2 edens of 2 objects, 1 young and 2 old objects, 4 steps of the program | `TypeOK`, `NoDangling`, `RemSetComplete`, `GraphPreserved` |
| `full_compaction` | `Compaction`, `FullCompaction` | 2 edens, all heaps of 10 words, not `Overfull` | `TypeOK`, `ScannedBeforeUse`, `NothingOverwritten`, `HeapCompacted`, `CompactionSucceeds` |
| `monitor` | `NativeMonitor`, `Monitor` | 2 Java threads that lock, wait and notify, and the VM thread | `MutualExclusion`, `LockByteHeldByOne`, `OnOneList`, `QueuedAreParked`, `OnDeckStable`, `ImplementsMonitor`, `Progress` |
| `safepoint` | `Safepoint`, `Safepoint` | 2 threads, one of them still to be started | `StoppedAtSafepoint`, `WaitsForTheRest`, `NoDeadlockFatal`, `PollsOnlyWhileSynchronizing`, `SafepointReached`, `ThreadsResume` |
| `parking` | `Parking`, `Parking` | both primitives, 3 unparkers | `TypeOK`, `NoStrandedWaiter`, `ReturnTakesPermit`, `EventConditionSeen` |

The type invariants of `TransNewGeneration`, `Safepoint` and `NativeMonitor`,
`LockFreeAtSafepoint` and `OwnerNeverBlocks` have no place in these runs because
they are proved (section 4); `IInv` implies the first and the fourth.

Bounds. Two threads and two edens let every pair of handlers interleave and
leave a choice of eden. Three ids are one more than there are edens or threads,
so a start of a transaction is delayed only when old ids occupy every eden.
Threads and ids are symmetric in `pool`; the liveness runs use no symmetry.
`full_compaction` starts from every layout of an old space of 3 words, two edens
and a young eden of 2, and a from space of 1, with objects of 1 and 2 words:
objects that fit and that do not, a change of space within and across
generations, and dead runs that are kept, refused or left all occur. In
`evacuation` four allocations and stores (`MaxSteps`) build shared, cyclic and
disconnected graphs, with references between the edens and from and
to every generation, and the old generation may be full. In `monitor` two Java
threads and the VM thread fill the queue and the wait set while the inner lock
is held; in `safepoint` any number of safepoints follow each other; three
unparkers can stand at three different points of `unpark`. The safety properties
are proved for every number and size (section 4).

Fairness. `Fairness` says that a thread inside the VM takes its next step, that
the VM thread serves the operation that was queued and that `trans_lock` is
eventually obtained: operating system scheduling, and `VMThread::loop`. Nothing
is assumed of what the program does. `recovery` has an empty `Env`: when
another kind of collection beats the worker's operation, or its collection is
refused, disabled or fails, the code does not try again but lets the transaction
allocate locally, and with any of these `PoolRecovers` does not hold. In `Compaction`
fairness says that the VM thread does not stop in the middle. In `NativeMonitor`
every thread that can run does, owners unlock, and safepoints end; the lock is
handed over competitively, so `Progress` promises that someone gets it and not
who. In `Safepoint` VM code ends in a transition, Java code meets a poll once
polls are armed, and `begin` looks at every thread again and again; native code
and what a blocked thread waits for may take for ever. `ThreadsResume` lets
a stopped thread starve only if others take the `Threads_lock`, which is handed
over competitively too, infinitely often; a lock that somebody keeps, because
`begin` does not end, `end` does not unlock or an owner is stopped itself, is no
excuse. In `Parking` running threads run and stores reach memory; timeouts
and spurious wake-ups are never assumed to happen.

### Disagreements found

* `concurrent_reset`: two workers reset the same trained eden. Between the two
  resets the eden is handed to the new transaction of one of them, which then
  loses it to the second reset.
* `compaction_overlap`: if the survivors of the old generation and of the edens
  do not fit the old generation, `forward` skips the edens and sends survivors
  to the local young generation. When that is scanned afterwards its compaction
  top is set back to the bottom, because a comment says nothing can have been
  compacted into it yet. The same instance also reaches `phase = "failed"`: the edens
  are no destination even for their own survivors, so enough live data leaves
  `forward` without a space, against its assertion "compaction must succeed".
* `skipped_eden`: after a failed promotion the eden stays Collecting, and the
  next collection of another eden excludes every Collecting eden from its
  roots. An object that only the failed eden refers to is not promoted, and its
  memory is freed under the program.
* `lost_permit`: `Parker::park` consumes a permit with a plain store and returns.
  The store may still be in the store buffer when the thread finds its condition
  false; another thread publishes the condition and calls `unpark`, whose permit
  the store then erases. The thread parks for ever although its condition holds.

Each is the violation its cfg of the same name (`ConcurrentReset`,
`CompactionOverlap`, `SkippedEden`, `LostPermit`) finds. Two more were met and
have no run of their own. `collectTransEden` decrements
`_collectableCount` and then returns if the old generation is too full
(`transNewGeneration.cpp:1987`) without giving the count back, which the other
failing path does, so `CollectableAccounting` is checked without `unsafe`
collections. And that other path (line 2152) leaves the eden Collecting and
counted: the gate may stop the world for it, but no collection takes it again,
so `CollectionHasWork` is checked without failing promotions.

`concurrent_reset` needs `Pretenure` and `AVOID_COLLECT_TRAINED`, both off by
default. In that race a worker may also lose its eden between `should_allocate`
and `par_allocate`.

## 4. What is proved

Of the pool, for every number of threads, edens and ids, every combination of
the other flags and every `Env`:

* `TypeCorrect`: `Spec => []TypeOK`, from `PoolAssumption` only.
* assuming `NonResettable` (not both of `Pretenure` and
  `AVOID_COLLECT_TRAINED`; `concurrent_reset` shows why): `Invariance` (`IInv`),
  `TransactionsAreIsolated`, `NoEdenIsLost`, `TlabsStayHome`,
  `AllocationFindsItsEden`, `LockIsFreeAtSafepoints`, `PoolRefinement`,
  `RunningTransactionsKeepTheirEden`, `OwnersPublish`.
* assuming also a finite set of threads: `CountsAgree` (`PoolAccounting`);
  `CollectionsFindAnEden` (`CollectionHasWork`) if promotions do not fail; and
  `CollectableCountAgrees` (`CollectableAccounting`) if moreover no collection is
  given up as unsafe. Section 3 says what the excluded paths do to the count.

Of a collection of one eden, for every size of the spaces, number of edens and
number of steps of the program: `EvacuationTypes`, `RememberedSetComplete`; and,
assuming `FullCollectionFirst` (`skipped_eden` shows why),
`NoDanglingReferences` and `CollectionPreservesGraph` (`GraphPreserved`).

Of a full collection, for spaces and objects of every size, assuming that it is
not `Overfull` (`compaction_overlap` shows why): `ForwardFindsSpace` (it never
fails), `CompactionTypes`, `SpacesAreScannedFirst`, `CopiesOverwriteNothing`,
`HeapIsCompacted`.

Of the rest, from assumptions that only type the constants and keep them apart:
`WorldIsStopped`, `CountIsExact`, `NoFatalDeadlock`, `PollsAreExpected`,
`OwnerIsNotStopped` of `Safepoint` (for a finite set of threads);
`MonitorIsExclusive`, `LockByteIsExact`, `OnDeckIsStable`,
`ThreadsAreOnOneList`, `QueuedThreadsPark`, `MonitorRefinement` of
`NativeMonitor`; and `WordInRange`, `WaiterIsSignalled`, `ParkTakesPermit` of
`Parking`.

### Along which arguments

The theorems about the pool rest on `IInv`, the type invariant and eleven
conjuncts. None of the properties is inductive: that objects in an eden belong to
its transaction holds because a TLAB lies in the eden of its thread's transaction (`TlabInv`), which
holds because a thread that runs a transaction and the eden that carries its id
name each other (`CacheInv`, `MatchInv`), which needs ids to be unique among
threads (`UniqueInv`), an eden on offer to be clean (`EdenInv`), a thread inside
`getTransEdenToAllocate` to own `trans_lock` (`LockInv`, `TakeInv`), the answer
it carries out to be still valid (`GotInv`), a thread that waits for a VM
operation to stand still (`RequestInv`), and each control point to be reached
only in or out of a transaction (`LifeInv`). `OwnerInv` says that some thread
holds every Assigned eden. The proof has one lemma per action, under it one step
per conjunct. The refinement mapping hides an eden's owner while it is
Available, so `Scan` (state first, id later) stutters and `Take` is `Acquire`.

The counts are compared with cardinalities (`PoolCount`, `Surplus`). All actions
but one change the state of at most one eden and the control of at most one
thread, so that one lemma (`CountMove`: what changing a function at one point
does to the number of its arguments with given values) reduces them to
arithmetic. The exception is `reset_transEdens` after a full collection: it frees all
edens and sets the counts anew, when no thread is between two updates. For
`CollectionHasWork` the count need not be exact: `Surplus`, the Collectable edens
that `_collectableCount` misses, is never negative, and a worker on its way from
the gate to its VM operation either finds an eden Collectable or has been beaten
(`WorkInv`).

`Evacuation` rests on three layers. `Shape`: an old object with a reference into
a younger generation is on a dirty card or still to be scanned. `Covered`: a
reference from outside into the eden being collected is in a field that is still
to be scanned, or leads to an object that stays because its promotion failed, and
the objects that stay refer to such objects or are on the stack; what the program
reaches is therefore in use when the eden is freed. `SameGraph`: read through the forwarding pointers,
the heap is all the time the graph it was when the collection began, and no
hash of the collected eden is lost. Reachability along paths is a recursive function; what is needed of
it follows from the least path that would be a counterexample, which the
well-foundedness of the natural numbers provides.

`Compaction` rests on `CInv`. In phase 2 the destinations of the objects passed
so far fill each space from its bottom up to its level without gap or overlap
(`CoverInv`, `ApartInv`) and are not above the objects they are for
(`PlacedInv`).
The words of the old generation and of the edens that are yet to be passed fit
above `compact_top`, dead wood included (`RoomInv`, a cardinality); so `forward`
leaves the old space only while the local young generation is scanned, and an
object always fits the space it is in: no space is filled before it is scanned
and there always is one. In phase 4 a copy goes to a lower address or stays, thus only
over words of its own or of objects that have been moved, and destinations do not overlap: each
object is intact where it was until it is moved, then where it is to be
(`MemInv`).

`Safepoint` rests on `SInv`, which begins, as all of them do, with the type
invariant. That all threads are stopped is not inductive: it
holds because `begin` ends when `_waiting_to_block` is 0, this is the number of
threads not accounted for (`WaitsForTheRest`, a cardinality), and a thread that
is accounted for is where it cannot go on. The last is `SyncInv`, which says for
each phase of `begin` and `end` what a thread's `type` and `called_back` imply
for its state and control; `PCInv` ties control to states, `OwnerInv` says
where an owner of the `Threads_lock` can be, and `LockInv` when the VM thread
has which lock.

`NativeMonitor` rests on `MInv`: who has set the lock byte (`HeldInv`,
`PairInv`), that a byte passed by a sneaking VM thread belongs to a thread
stopped on its way out of `ThreadBlockInVM` (`SneakInv`, `StopInv`), that the
inner lock has one holder and that only the `OnDeck` thread is at the points
where `OnDeck` is cleared (`PosInv`, `ThreadInv`). The lists need a second
invariant, `LInv`: no list holds a thread twice and no two share one
(`QueueInv`), a thread's control point says on which it is, and what a notifier
has taken from the wait set is asleep and on no list, then on a queue
(`PlaceInv`, `NotifyInv`). In the refinement the holder is the thread that has
the lock byte and the waiters are the wait set; everything that moves threads
between the queues stutters.

`Parking` rests on `PInv`: what `_Event` can be at each control point
(`WordInv`), where the parking thread holds the mutex (`PosInv`), what an
unparker that has raised the word still has to do (`UnparkInv`), and that one of
them will signal (`SignalInv`).

Only model-checked: liveness under fairness, which the proof system cannot do
(`PoolRecovers`, `CompactionSucceeds`, `Progress`, `SafepointReached`,
`ThreadsResume`, `EventConditionSeen`); and the counts when edens are reset in
place (`solo_reset`): `IInv` excludes the control points of such a reset
(`LifeInv`). All other invariants, action
properties and refinements that the runs check are proved.

## 5. Not modelled

* Pool: children of a transaction (`CountChildrenForTrans`), which copy their
  parent's two fields in two steps; the counters of `trainingResidual`, which
  only decide when training ends (and of which `total_residual_count` returns
  another counter); wrap-around of transaction ids after 2^32 transactions.
* Evacuation: the permanent generation, weak references, arrays and objects of
  several fields; the copying collection of the local young generation; what
  happens to edens after a failed promotion other than `skipped_eden`.
* Compaction: marking, adjusting of pointers, offset tables.
* Monitors: `jvm_raw_lock`, `lock_without_safepoint_check` by Java threads (a
  path of `lock` without `ThreadBlockInVM`), `notify` by the VM thread after it
  snuck, `NativeMonitorFlags` other than the default, suspension in
  `wait`, lock ranks (debug builds).
* Safepoints: external suspension, terminated threads still on the list,
  statistics and the timeout (logging), the queue of VM operations.
* Parking: `TryPark`, `FilterSpuriousWakeups` switched off, interrupts of
  `Parker::park` (a return without a permit, as the timeout is).
* Java monitors, biased locking, compilers, interpreter, class loading, the
  other collectors, JNI and JVMTI. They meet the transaction edens only through
  allocation, safepoints and `GC_locker`, which are in the model. They make up
  nearly all of the source, and most of it is sequential code that generates or
  describes other code, of which a model would repeat the text and check
  nothing.
