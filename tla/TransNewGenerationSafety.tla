---------------------- MODULE TransNewGenerationSafety ----------------------
(***************************************************************************)
(* The safety of the pool: park, await and exit, allocation (the gate,     *)
(* getTransEdenToAllocate and its three call sites) and the VM operations  *)
(* preserve the invariant of TransNewGenerationInv, so it holds always;    *)
(* and with it the pool implements TransPool.                              *)
(***************************************************************************)
EXTENDS TransNewGenerationInv

-----------------------------------------------------------------------------
(* Steps that move one thread and leave the pool alone *)

Plain == {"java", "gate1", "gate2", "vmop", "lock", "retry"}

\* t moves to l between labels where it holds no lock and publishes nothing; it
\* may lose its TLAB, and calls getTransEdenToAllocate only to ask for an eden.
PlainStep(t, l) ==
  /\ UNCHANGED <<transID, transEdenID, pooled, monitored, state, edenTransID,
                 objs, trans_lock, idx, got, safepoint, requester>>
  /\ \A u \in Threads : tlab'[u] \in {tlab[u], NULL}
  /\ \A u \in Threads \ {t} : ret'[u] = ret[u]
  /\ pc[t] \in Plain
  /\ pc[t] = "vmop" => ~safepoint
  /\ pc' = [pc EXCEPT ![t] = l]
  /\ l \in Plain \cup {"endcheck", "retire"}
  /\ l = "lock" => ret'[t] # "alloc"
  /\ l = "retire" => transID[t] = NoTrans
  /\ l \notin {"java", "retire"} => transID[t] # NoTrans

\* Such a step keeps the invariant.
LEMMA PlainStepKeeps ==
  ASSUME Types, SafeInv, NEW t \in Threads, NEW l, PlainStep(t, l)
  PROVE  SafeInv'
<1>1. /\ l \in Plain \cup {"endcheck", "retire"}
      /\ l = "lock" => ret'[t] # "alloc"
      /\ l = "retire" => transID[t] = NoTrans
      /\ l \notin {"java", "retire"} => transID[t] # NoTrans
  BY Zenon DEF PlainStep
<1>2. /\ pc'[t] = l
      /\ \A u \in Threads \ {t} : pc'[u] = pc[u] /\ ret'[u] = ret[u]
  BY Zenon DEF Types, PlainStep
<1>3. /\ UNCHANGED <<transID, transEdenID, pooled, monitored, state, edenTransID,
                     objs, trans_lock, idx, got, safepoint, requester>>
      /\ pc[t] \in Plain /\ (pc[t] = "vmop" => ~safepoint)
  BY Zenon DEF PlainStep
<1>4. \A u \in Threads : tlab'[u] \in {tlab[u], NULL}
  BY Zenon DEF PlainStep
<1> USE DEF SafeInv, Plain
<1>5. LockInv'
  BY Zenon, <1>1, <1>2, <1>3 DEF LockInv, LockPCs
<1>6. LifeInv'
  BY <1>1, <1>2, <1>3 DEF LifeInv, ResetPCs, LockPCs, InTransaction
<1>7. UniqueInv'
  BY Zenon, <1>3 DEF UniqueInv
<1>8. CacheInv'
  BY <1>1, <1>2, <1>3 DEF CacheInv
<1>9. MatchInv'
  BY Zenon, <1>1, <1>2, <1>3 DEF MatchInv, Matches
<1>10. TakeInv'
  BY <1>1, <1>2, <1>3 DEF TakeInv
<1>11. GotInv'
  BY Zenon, <1>1, <1>2, <1>3 DEF GotInv, Matches
<1>12. EdenInv'
  BY Zenon, <1>3 DEF EdenInv
<1>13. OwnerInv'
  <2>1. \A u \in Threads, e \in Edens : Holds(u, e) => Holds(u, e)'
    BY Zenon, <1>1, <1>2, <1>3 DEF Holds
  <2> QED
    BY Zenon, <1>3, <2>1 DEF OwnerInv
<1>14. TlabInv'
  BY Zenon, <1>2, <1>3, <1>4 DEF TlabInv
<1>15. RequestInv'
  BY Zenon, <1>2, <1>3 DEF RequestInv
<1> QED
  BY Zenon, <1>5, <1>6, <1>7, <1>8, <1>9, <1>10, <1>11, <1>12, <1>13, <1>14, <1>15

\* So does a step that changes nothing the invariant speaks of but the
\* safepoint.
LEMMA SafepointOnlyKeeps ==
  ASSUME SafeInv, RequestInv',
         UNCHANGED <<transID, transEdenID, pooled, monitored, tlab, state,
                     edenTransID, objs, trans_lock, pc, ret, idx, got>>
  PROVE  SafeInv'
<1> USE DEF SafeInv
<1>1. LockInv' /\ LifeInv' /\ UniqueInv'
  BY Zenon DEF LockInv, LifeInv, UniqueInv
<1>2. CacheInv' /\ MatchInv' /\ TakeInv' /\ GotInv'
  BY DEF CacheInv, MatchInv, TakeInv, GotInv, Matches
<1>3. EdenInv' /\ OwnerInv' /\ TlabInv'
  BY Zenon DEF EdenInv, OwnerInv, TlabInv, Holds
<1> QED
  BY Zenon, <1>1, <1>2, <1>3

\* park() only decides whether there is a transaction to end.
LEMMA ParkStep ==
  ASSUME Types, SafeInv, NEW t \in Threads, Park(t)
  PROVE  SafeInv'
<1>1. CASE transID[t] # NoTrans
  <2>1. PlainStep(t, "endcheck")
    BY Zenon, <1>1 DEF Park, AtSafe, At, Goto, threadVars, edenVars, vmVars, Types, Plain,
                 PlainStep
  <2> QED
    BY Zenon, <2>1, PlainStepKeeps
<1>2. CASE transID[t] = NoTrans
  <2>1. PlainStep(t, "retire")
    BY Zenon, <1>2 DEF Park, AtSafe, At, Goto, threadVars, edenVars, vmVars, Types, Plain,
                 PlainStep
  <2> QED
    BY Zenon, <2>1, PlainStepKeeps
<1> QED
  BY Zenon, <1>1, <1>2

\* await() retires the TLAB first.
LEMMA AwaitEntryStep ==
  ASSUME Types, SafeInv, NEW t \in Threads, AwaitEntry(t)
  PROVE  SafeInv'
<1>1. CASE transID[t] # NoTrans
  <2>1. PlainStep(t, "endcheck")
    BY Zenon, <1>1 DEF AwaitEntry, AtSafe, At, Goto, edenVars, vmVars, Types, Plain,
                 PlainStep
  <2> QED
    BY Zenon, <2>1, PlainStepKeeps
<1>2. CASE transID[t] = NoTrans
  <2>1. PlainStep(t, "retire")
    BY Zenon, <1>2 DEF AwaitEntry, AtSafe, At, Goto, edenVars, vmVars, Types, Plain,
                 PlainStep
  <2> QED
    BY Zenon, <2>1, PlainStepKeeps
<1> QED
  BY Zenon, <1>1, <1>2

\* exit() retires the TLAB first.
LEMMA ExitStep ==
  ASSUME Types, SafeInv, NEW t \in Threads, Exit(t)
  PROVE  SafeInv'
<1>3. monitored[t]
  BY Zenon DEF Exit, AtSafe, At, SafeInv, LifeInv
<1>1. CASE transID[t] # NoTrans
  <2>1. PlainStep(t, "endcheck")
    BY Zenon, <1>1, <1>3 DEF Exit, AtSafe, At, Goto, edenVars, vmVars, Types, Plain,
                 PlainStep
  <2> QED
    BY Zenon, <2>1, PlainStepKeeps
<1>2. CASE transID[t] = NoTrans
  <2>1. PlainStep(t, "retire")
    BY Zenon, <1>2, <1>3 DEF Exit, AtSafe, At, Goto, edenVars, vmVars, Types, Plain,
                 PlainStep
  <2> QED
    BY Zenon, <2>1, PlainStepKeeps
<1> QED
  BY Zenon, <1>1, <1>2

-----------------------------------------------------------------------------
(* Allocation *)

\* A TLAB allocation goes to the transaction's own eden.
LEMMA AllocInTlabStep ==
  ASSUME Types, SafeInv, NEW t \in Threads, AllocInTlab(t)
  PROVE  SafeInv'
<1> USE NobodyAssumption
    DEF Types, IndexPCs, threadVars, edenVars, countVars, vmVars, regVars, At,
        AtSafe, Goto, SafeInv
<1>1. LockInv'
  BY Zenon DEF AllocInTlab, LockInv, LockPCs
<1>2. LifeInv'
  BY Zenon DEF AllocInTlab, LifeInv, ResetPCs, LockPCs, InTransaction
<1>3. UniqueInv'
  BY Zenon DEF AllocInTlab, UniqueInv
<1>4. CacheInv'
  BY DEF AllocInTlab, CacheInv
<1>5. MatchInv'
  BY Zenon DEF AllocInTlab, MatchInv, Matches
<1>6. TakeInv'
  BY DEF AllocInTlab, TakeInv, TlabInv, UniqueInv
<1>7. GotInv'
  BY Zenon DEF AllocInTlab, GotInv, Matches
<1>8. EdenInv'
  BY DEF AllocInTlab, EdenInv, TlabInv
<1>9. OwnerInv'
  BY Zenon DEF AllocInTlab, OwnerInv, Holds
<1>10. TlabInv'
  BY Zenon DEF AllocInTlab, TlabInv
<1>11. RequestInv'
  BY Zenon DEF AllocInTlab, RequestInv
<1> QED
  BY Zenon, <1>1, <1>2, <1>3, <1>4, <1>5, <1>6, <1>7, <1>8, <1>9, <1>10, <1>11

\* A request enters the gate.
LEMMA AllocateStep ==
  ASSUME Types, SafeInv, NEW t \in Threads, Allocate(t)
  PROVE  SafeInv'
<1>1. PlainStep(t, "gate1")
  BY Zenon DEF Allocate, AtSafe, At, Goto, edenVars, vmVars, Types, Plain, PlainStep
<1> QED
  BY Zenon, <1>1, PlainStepKeeps

\* The gate reads the Collectable count.
LEMMA GateCollectableStep ==
  ASSUME Types, SafeInv, NEW t \in Threads, GateCollectable(t)
  PROVE  SafeInv'
<1>0. transID[t] # NoTrans
  BY Zenon DEF GateCollectable, AtSafe, At, SafeInv, LifeInv, InTransaction
<1>1. CASE collectableCount >= 1
  <2>1. PlainStep(t, "gate2")
    BY Zenon, <1>0, <1>1 DEF GateCollectable, Call, AtSafe, At, Goto, threadVars, edenVars,
                 vmVars, Types, Plain, PlainStep
  <2> QED
    BY Zenon, <2>1, PlainStepKeeps
<1>2. CASE ~(collectableCount >= 1)
  <2>1. PlainStep(t, "lock")
    BY Zenon, <1>0, <1>2 DEF GateCollectable, Call, AtSafe, At, Goto, threadVars, edenVars,
                 vmVars, Types, Plain, PlainStep
  <2> QED
    BY Zenon, <2>1, PlainStepKeeps
<1> QED
  BY Zenon, <1>1, <1>2

\* The gate reads the available count; it never chooses the reset path.
LEMMA GateAvailableStep ==
  ASSUME Types, SafeInv, NonResettable, NEW t \in Threads, GateAvailable(t)
  PROVE  SafeInv'
<1>0. transID[t] # NoTrans
  BY Zenon DEF GateAvailable, AtSafe, At, SafeInv, LifeInv, InTransaction
<1>1. CASE availableCount < 1
  <2>1. PlainStep(t, "vmop")
    BY Zenon, <1>0, <1>1 DEF GateAvailable, NonResettable, Call, AtSafe, At, Goto, threadVars, edenVars,
                 vmVars, Types, Plain, PlainStep
  <2> QED
    BY Zenon, <2>1, PlainStepKeeps
<1>2. CASE ~(availableCount < 1)
  <2>1. PlainStep(t, "lock")
    BY Zenon, <1>0, <1>2 DEF GateAvailable, Call, AtSafe, At, Goto, threadVars, edenVars,
                 vmVars, Types, Plain, PlainStep
  <2> QED
    BY Zenon, <2>1, PlainStepKeeps
<1> QED
  BY Zenon, <1>1, <1>2

\* The object allocated in the returned eden belongs to its transaction.
LEMMA ReturnedStep ==
  ASSUME Types, SafeInv, NEW t \in Threads, Returned(t)
  PROVE  SafeInv'
<1> USE NobodyAssumption
    DEF Types, IndexPCs, threadVars, edenVars, countVars, vmVars, regVars, At,
        AtSafe, Goto, SafeInv
<1>1. LockInv'
  BY DEF Returned, Call, LockInv, LockPCs
<1>2. LifeInv'
  BY DEF Returned, Call, LifeInv, GotInv, ResetPCs, LockPCs, InTransaction
<1>3. UniqueInv'
  BY Zenon DEF Returned, Call, UniqueInv
<1>4. CacheInv'
  BY DEF Returned, Call, CacheInv
<1>5. MatchInv'
  BY DEF Returned, Call, MatchInv, GotInv, Matches
<1>6. TakeInv'
  BY DEF Returned, Call, TakeInv, GotInv, UniqueInv, Matches
<1>7. GotInv'
  BY DEF Returned, Call, GotInv, Matches
<1>8. EdenInv'
  BY DEF Returned, Call, EdenInv, GotInv, Matches
<1>9. OwnerInv'
  BY DEF Returned, Call, OwnerInv, Holds
<1>10. TlabInv'
  BY DEF Returned, Call, TlabInv, GotInv, Matches
<1>11. RequestInv'
  BY Zenon DEF Returned, Call, RequestInv
<1> QED
  BY Zenon, <1>1, <1>2, <1>3, <1>4, <1>5, <1>6, <1>7, <1>8, <1>9, <1>10, <1>11

\* After Heap_lock the request starts over.
LEMMA RetryStep ==
  ASSUME Types, SafeInv, NEW t \in Threads, Retry(t)
  PROVE  SafeInv'
<1>0. transID[t] # NoTrans
  BY Zenon DEF Retry, AtSafe, At, SafeInv, LifeInv, InTransaction
<1>1. CASE Goto(t, "java") /\ UNCHANGED ret
  <2>1. PlainStep(t, "java")
    BY Zenon, <1>0, <1>1 DEF Retry, Call, AtSafe, At, Goto, threadVars, edenVars,
                 vmVars, Types, Plain, PlainStep
  <2> QED
    BY Zenon, <2>1, PlainStepKeeps
<1>2. CASE Call(t, "should")
  <2>1. PlainStep(t, "lock")
    BY Zenon, <1>0, <1>2 DEF Retry, Call, AtSafe, At, Goto, threadVars, edenVars,
                 vmVars, Types, Plain, PlainStep
  <2> QED
    BY Zenon, <2>1, PlainStepKeeps
<1> QED
  BY Zenon, <1>1, <1>2 DEF Retry

\* trans_lock is taken when it is free.
LEMMA LockStep ==
  ASSUME Types, SafeInv, NEW t \in Threads, Lock(t)
  PROVE  SafeInv'
<1> USE NobodyAssumption
    DEF Types, IndexPCs, threadVars, edenVars, countVars, vmVars, regVars, At,
        AtSafe, Goto, SafeInv
<1>1. LockInv'
  BY Zenon DEF Lock, LockInv, LockPCs
<1>2. LifeInv'
  BY Zenon DEF Lock, LifeInv, ResetPCs, LockPCs, InTransaction
<1>3. UniqueInv'
  BY Zenon DEF Lock, UniqueInv
<1>4. CacheInv'
  BY DEF Lock, CacheInv
<1>5. MatchInv'
  BY Zenon DEF Lock, MatchInv, Matches
<1>6. TakeInv'
  BY Zenon DEF Lock, TakeInv
<1>7. GotInv'
  BY Zenon DEF Lock, GotInv, Matches
<1>8. EdenInv'
  BY Zenon DEF Lock, EdenInv
<1>9. OwnerInv'
  BY Zenon DEF Lock, OwnerInv, Holds
<1>10. TlabInv'
  BY Zenon DEF Lock, TlabInv
<1>11. RequestInv'
  BY Zenon DEF Lock, RequestInv
<1> QED
  BY Zenon, <1>1, <1>2, <1>3, <1>4, <1>5, <1>6, <1>7, <1>8, <1>9, <1>10, <1>11

\* The cached eden is still Assigned to the transaction, unless the pool
\* was reset; the transaction is ditched only in the second case.
LEMMA CachedStep ==
  ASSUME Types, SafeInv, NEW t \in Threads, Cached(t)
  PROVE  SafeInv'
<1> USE NobodyAssumption
    DEF Types, IndexPCs, threadVars, edenVars, countVars, vmVars, regVars, At,
        AtSafe, Goto, SafeInv
<1>1. LockInv'
  BY DEF Cached, CachedEden, SearchEden, Return, LockInv, LockPCs
<1>2. LifeInv'
  BY DEF Cached, CachedEden, SearchEden, Return, LifeInv, ResetPCs, LockPCs,
         InTransaction
<1>3. UniqueInv'
  BY DEF Cached, CachedEden, SearchEden, Return, UniqueInv
<1>4. CacheInv'
  BY DEF Cached, CachedEden, SearchEden, Return, CacheInv
<1>5. MatchInv'
  BY DEF Cached, CachedEden, SearchEden, Return, MatchInv, Matches
<1>6. TakeInv'
  BY DEF Cached, CachedEden, SearchEden, Return, TakeInv, MatchInv, Matches
<1>7. GotInv'
  BY DEF Cached, CachedEden, SearchEden, Return, GotInv, CacheInv, MatchInv,
         LockPCs, LifeInv, InTransaction, Matches
<1>8. EdenInv'
  BY Zenon DEF Cached, CachedEden, SearchEden, Return, EdenInv
<1>9. OwnerInv'
  BY DEF Cached, CachedEden, SearchEden, Return, OwnerInv, Holds
<1>10. TlabInv'
  BY DEF Cached, CachedEden, SearchEden, Return, TlabInv, CacheInv
<1>11. RequestInv'
  BY Zenon DEF Cached, CachedEden, SearchEden, Return, RequestInv
<1> QED
  BY Zenon, <1>1, <1>2, <1>3, <1>4, <1>5, <1>6, <1>7, <1>8, <1>9, <1>10, <1>11

\* The eden found Available is empty and has no transaction; a transaction
\* that goes local owned none.
LEMMA ScanStep ==
  ASSUME Types, SafeInv, NEW t \in Threads, Scan(t)
  PROVE  SafeInv'
<1> USE NobodyAssumption
    DEF Types, IndexPCs, threadVars, edenVars, countVars, vmVars, regVars, At,
        AtSafe, Goto, SafeInv
<1>1. LockInv'
  BY DEF Scan, Return, LockInv, LockPCs
<1>2. LifeInv'
  BY DEF Scan, Return, LifeInv, ResetPCs, LockPCs, InTransaction
<1>3. UniqueInv'
  BY DEF Scan, Return, UniqueInv
<1>4. CacheInv'
  BY DEF Scan, Return, CacheInv
<1>5. MatchInv'
  BY DEF Scan, Return, MatchInv, Matches
<1>6. TakeInv'
  BY DEF Scan, Return, TakeInv, EdenInv
<1>7. GotInv'
  BY DEF Scan, Return, GotInv, TakeInv, Matches
<1>8. EdenInv'
  BY DEF Scan, Return, EdenInv
<1>9. OwnerInv'
  BY DEF Scan, Return, OwnerInv, TakeInv, Holds
<1>10. TlabInv'
  BY DEF Scan, Return, TlabInv, CacheInv, TakeInv
<1>11. RequestInv'
  BY DEF Scan, Return, RequestInv
<1> QED
  BY Zenon, <1>1, <1>2, <1>3, <1>4, <1>5, <1>6, <1>7, <1>8, <1>9, <1>10, <1>11

\* No other eden carries the id that is written.
LEMMA TakeStep ==
  ASSUME Types, SafeInv, NEW t \in Threads, Take(t)
  PROVE  SafeInv'
<1> USE NobodyAssumption
    DEF Types, IndexPCs, threadVars, edenVars, countVars, vmVars, regVars, At,
        AtSafe, Goto, SafeInv
<1>1. LockInv'
  BY Zenon DEF Take, LockInv, LockPCs
<1>2. LifeInv'
  BY DEF Take, LifeInv, ResetPCs, LockPCs, InTransaction
<1>3. UniqueInv'
  BY DEF Take, UniqueInv, CacheInv, TakeInv, LifeInv, InTransaction
<1>4. CacheInv'
  BY DEF Take, CacheInv, TakeInv, UniqueInv, LockPCs, LifeInv, InTransaction
<1>5. MatchInv'
  BY DEF Take, MatchInv, TakeInv, LockPCs, LifeInv, InTransaction, Matches
<1>6. TakeInv'
  BY DEF Take, TakeInv, LockInv, LockPCs
<1>7. GotInv'
  BY DEF Take, GotInv, TakeInv, Matches
<1>8. EdenInv'
  BY Zenon DEF Take, EdenInv, TakeInv
<1>9. OwnerInv'
  BY DEF Take, OwnerInv, Holds
<1>10. TlabInv'
  BY DEF Take, TlabInv, TakeInv
<1>11. RequestInv'
  BY Zenon DEF Take, RequestInv
<1> QED
  BY Zenon, <1>1, <1>2, <1>3, <1>4, <1>5, <1>6, <1>7, <1>8, <1>9, <1>10, <1>11

\* The thread that leaves with an eden has it cached.
LEMMA TakenStep ==
  ASSUME Types, SafeInv, NEW t \in Threads, Taken(t)
  PROVE  SafeInv'
<1> USE NobodyAssumption
    DEF Types, IndexPCs, threadVars, edenVars, countVars, vmVars, regVars, At,
        AtSafe, Goto, SafeInv
<1>1. LockInv'
  BY Zenon DEF Taken, Return, LockInv, LockPCs
<1>2. LifeInv'
  BY Zenon DEF Taken, Return, LifeInv, ResetPCs, LockPCs, InTransaction
<1>3. UniqueInv'
  BY Zenon DEF Taken, Return, UniqueInv
<1>4. CacheInv'
  BY DEF Taken, Return, CacheInv, TakeInv
<1>5. MatchInv'
  BY Zenon DEF Taken, Return, MatchInv, Matches
<1>6. TakeInv'
  BY DEF Taken, Return, TakeInv
<1>7. GotInv'
  BY DEF Taken, Return, GotInv, TakeInv, LockPCs, LifeInv, InTransaction,
         Matches
<1>8. EdenInv'
  BY Zenon DEF Taken, Return, EdenInv
<1>9. OwnerInv'
  BY DEF Taken, Return, OwnerInv, TakeInv, LockPCs, LifeInv, InTransaction,
         Holds
<1>10. TlabInv'
  BY DEF Taken, Return, TlabInv
<1>11. RequestInv'
  BY Zenon DEF Taken, Return, RequestInv
<1> QED
  BY Zenon, <1>1, <1>2, <1>3, <1>4, <1>5, <1>6, <1>7, <1>8, <1>9, <1>10, <1>11

-----------------------------------------------------------------------------
(* VM operations *)

\* An operation is queued by a thread that waits for it.
LEMMA SafepointBeginStep ==
  ASSUME Types, SafeInv, NEW t \in Threads, SafepointBegin(t)
  PROVE  SafeInv'
<1>1. RequestInv'
  BY Zenon DEF SafepointBegin, AtSafe, At, RequestInv
<1> QED
  BY Zenon, <1>1, SafepointOnlyKeeps DEF SafepointBegin, threadVars, edenVars, regVars

\* An operation that lost the race goes on to allocate.
LEMMA SkipOperationStep ==
  ASSUME Types, SafeInv, NEW t \in Threads, SkipOperation(t)
  PROVE  SafeInv'
<1>0. transID[t] # NoTrans
  BY Zenon DEF SkipOperation, AtSafe, At, SafeInv, LifeInv, InTransaction
<1>1. PlainStep(t, "lock")
  BY Zenon, <1>0 DEF SkipOperation, Call, AtSafe, At, Goto, threadVars, edenVars, vmVars,
              Types, Plain, PlainStep
<1> QED
  BY Zenon, <1>1, PlainStepKeeps

\* What VM_CollectTransEden::doit does to the pool: nothing, or it frees one
\* Collectable eden, or leaves it Collecting.
CollectEffect(t) ==
  /\ AllSafe /\ safepoint /\ requester = t
  /\ pc' = [pc EXCEPT ![t] = "lock"] /\ ret' = [ret EXCEPT ![t] = "route"]
  /\ safepoint' = FALSE
  /\ tlab' = tlab \/ tlab' = [u \in Threads |-> NULL]
  /\ UNCHANGED <<transID, transEdenID, pooled, monitored, trans_lock, idx, got>>
  /\ \/ UNCHANGED <<state, edenTransID, objs>>
     \/ \E e \in Edens :
          /\ state[e] = "Collectable"
          /\ \/ /\ state' = [state EXCEPT ![e] = "Available"]
                /\ edenTransID' = [edenTransID EXCEPT ![e] = NoTrans]
                /\ objs' = [objs EXCEPT ![e] = {}]
             \/ /\ state' = [state EXCEPT ![e] = "Collecting"]
                /\ UNCHANGED <<edenTransID, objs>>

\* collectTransEden frees or keeps a Collectable eden and touches no other.
LEMMA CollectTransEdenEffect ==
  ASSUME NEW t \in Threads, CollectTransEden(t)
  PROVE  CollectEffect(t)
<1>1. /\ tlab' = tlab \/ tlab' = [u \in Threads |-> NULL]
      /\ safepoint' = FALSE
  BY Zenon DEF CollectTransEden, Collection, Resume
<1>2. CASE UNCHANGED <<state, edenTransID, objs>>
  BY Zenon, <1>1, <1>2 DEF CollectTransEden, Call, Goto, CollectEffect
<1>3. ASSUME NEW e \in Edens, FirstCollectable(e),
             CollectByReset(e) \/ CollectUnsafe(e) \/ CollectByEvacuation(e)
               \/ CollectFails(e)
      PROVE  CollectEffect(t)
  BY Zenon, <1>1, <1>3 DEF CollectTransEden, Call, Goto, CollectEffect, FirstCollectable,
       CollectByReset, CollectUnsafe, CollectByEvacuation, CollectFails, ResetEden
<1> QED
  BY Zenon, <1>2, <1>3 DEF CollectTransEden

\* No thread stopped at a safepoint is tied to a Collectable eden.
LEMMA CollectTransEdenStep ==
  ASSUME Types, SafeInv, NEW t \in Threads, CollectTransEden(t)
  PROVE  SafeInv'
<1> USE NobodyAssumption
    DEF Types, IndexPCs, threadVars, edenVars, countVars, vmVars, regVars, At,
        AtSafe, Goto, SafeInv
<1>0. CollectEffect(t)
  BY Zenon, CollectTransEdenEffect
<1>1. LockInv'
  BY <1>0 DEF CollectEffect, AllSafe, SafePCs, LockInv, LockPCs
<1>2. LifeInv'
  BY <1>0 DEF CollectEffect, AllSafe, SafePCs, LifeInv, RequestInv, ResetPCs,
         LockPCs, InTransaction
<1>3. UniqueInv'
  BY <1>0 DEF CollectEffect, AllSafe, SafePCs, UniqueInv
<1>4. CacheInv'
  BY <1>0 DEF CollectEffect, AllSafe, SafePCs, CacheInv
<1>5. MatchInv'
  BY <1>0 DEF CollectEffect, AllSafe, SafePCs, MatchInv, Matches
<1>6. TakeInv'
  BY <1>0 DEF CollectEffect, AllSafe, SafePCs, TakeInv
<1>7. GotInv'
  BY <1>0 DEF CollectEffect, AllSafe, SafePCs, GotInv, Matches
<1>8. EdenInv'
  BY <1>0 DEF CollectEffect, AllSafe, SafePCs, EdenInv
<1>9. OwnerInv'
  BY <1>0 DEF CollectEffect, AllSafe, SafePCs, OwnerInv, Holds
<1>10. TlabInv'
  BY <1>0 DEF CollectEffect, AllSafe, SafePCs, TlabInv, CacheInv
<1>11. RequestInv'
  BY Zenon, <1>0 DEF CollectEffect, AllSafe, SafePCs, RequestInv
<1> QED
  BY Zenon, <1>1, <1>2, <1>3, <1>4, <1>5, <1>6, <1>7, <1>8, <1>9, <1>10, <1>11

\* Another collection is requested.
LEMMA SafepointBeginGCStep ==
  ASSUME Types, SafeInv, SafepointBeginGC
  PROVE  SafeInv'
<1>1. RequestInv'
  BY Zenon, NobodyAssumption DEF SafepointBeginGC, RequestInv
<1> QED
  BY Zenon, <1>1, SafepointOnlyKeeps DEF SafepointBeginGC, threadVars, edenVars, regVars

\* A collection of the heap empties edens, and may reset all of them.
LEMMA OtherCollectionStep ==
  ASSUME Types, SafeInv, OtherCollection
  PROVE  SafeInv'
<1> USE NobodyAssumption
    DEF Types, IndexPCs, threadVars, edenVars, countVars, vmVars, regVars, At,
        AtSafe, Goto, SafeInv
<1>1. LockInv'
  BY Zenon DEF OtherCollection, Collection, Resume, AllSafe, SafePCs, LockInv, LockPCs
<1>2. LifeInv'
  BY Zenon DEF OtherCollection, Collection, Resume, AllSafe, SafePCs, LifeInv,
         ResetPCs, LockPCs, InTransaction
<1>3. UniqueInv'
  BY DEF OtherCollection, Collection, Resume, AllSafe, SafePCs, UniqueInv
<1>4. CacheInv'
  BY DEF OtherCollection, Collection, Resume, AllSafe, SafePCs, CacheInv
<1>5. MatchInv'
  BY DEF OtherCollection, Collection, Resume, AllSafe, SafePCs, MatchInv,
         Matches
<1>6. TakeInv'
  BY Zenon DEF OtherCollection, Collection, Resume, AllSafe, SafePCs, TakeInv
<1>7. GotInv'
  BY Zenon DEF OtherCollection, Collection, Resume, AllSafe, SafePCs, GotInv, Matches
<1>8. EdenInv'
  BY DEF OtherCollection, Collection, Resume, AllSafe, SafePCs, EdenInv
<1>9. OwnerInv'
  BY DEF OtherCollection, Collection, Resume, AllSafe, SafePCs, OwnerInv, Holds
<1>10. TlabInv'
  BY Zenon DEF OtherCollection, Collection, Resume, AllSafe, SafePCs, TlabInv
<1>11. RequestInv'
  BY SMTT(20) DEF OtherCollection, Collection, Resume, AllSafe, SafePCs, RequestInv
<1> QED
  BY Zenon, <1>1, <1>2, <1>3, <1>4, <1>5, <1>6, <1>7, <1>8, <1>9, <1>10, <1>11

\* Without resettable edens no thread is ever inside
\* collectResettableTransEden.
LEMMA ResetUnreachable ==
  ASSUME SafeInv, NEW t \in Threads
  PROVE  /\ ~ResetScan(t) /\ ~ResetDecCollectable(t) /\ ~ResetState(t)
         /\ ~ResetTrans(t) /\ ~ResetDecAssigned(t) /\ ~ResetIncAvailable(t)
         /\ ~ResetClear(t)
BY Zenon DEF SafeInv, LifeInv, ResetPCs, At, ResetScan, ResetDecCollectable, ResetState,
       ResetTrans, ResetDecAssigned, ResetIncAvailable, ResetClear

\* A step that changes nothing keeps the invariant.
LEMMA StutterStep ==
  ASSUME SafeInv, UNCHANGED vars
  PROVE  SafeInv'
<1>1. RequestInv'
  BY Zenon DEF SafeInv, RequestInv, vars, vmVars
<1> QED
  BY Zenon, <1>1, SafepointOnlyKeeps DEF vars, threadVars, edenVars, regVars

\* Every step keeps the invariant, one lemma per action.
LEMMA IInvStep ==
  ASSUME NonResettable, IInv, [Next]_vars
  PROVE  IInv'
<1>1. TypeInv'
  BY Zenon, TypeStep DEF IInv
<1>2. Types /\ SafeInv
  BY Zenon, TypesFromTypeInv DEF IInv
<1>3. ASSUME NEW t \in Threads, Internal(t)
      PROVE  SafeInv'
  BY Zenon, <1>2, <1>3, ResetUnreachable,
     BeginStep, EndCheckStep, EndStateStep, EndCountStep, EndResetStep,
     RetireStep, GateCollectableStep, GateAvailableStep, ReturnedStep,
     RetryStep, LockStep, CachedStep, ScanStep, TakeStep, TakenStep,
     SafepointBeginStep, SkipOperationStep, CollectTransEdenStep
     DEF Internal
<1>4. ASSUME NEW t \in Threads, Application(t)
      PROVE  SafeInv'
  BY Zenon, <1>2, <1>4,
     transCheckBeforeRunStep, StartTransactionStep, AllocInTlabStep,
     AllocateStep, ParkStep, AwaitEntryStep, ExitStep
     DEF Application
<1>5. SafeInv'
  BY Zenon, <1>2, <1>3, <1>4, SafepointBeginGCStep, OtherCollectionStep, StutterStep
     DEF Next
<1> QED
  BY Zenon, <1>1, <1>5 DEF IInv

\* The invariant holds when the pool is constructed: every eden is on offer.
LEMMA IInvInit == Init => IInv
<1> SUFFICES ASSUME Init
             PROVE  IInv
  OBVIOUS
<1>1. TypeInv /\ Types
  BY Zenon, TypeInit, TypesFromTypeInv
<1>2. LockInv /\ LifeInv /\ UniqueInv
  BY Zenon, NobodyAssumption DEF Init, LockInv, LockPCs, LifeInv, ResetPCs, InTransaction,
                          UniqueInv
<1>3. CacheInv /\ MatchInv /\ TakeInv /\ GotInv
  BY Zenon DEF Init, CacheInv, MatchInv, TakeInv, GotInv
<1>4. EdenInv /\ OwnerInv
  BY Zenon DEF Init, EdenInv, OwnerInv
<1>5. TlabInv /\ RequestInv
  BY Zenon DEF Init, TlabInv, RequestInv
<1> QED
  BY Zenon, <1>1, <1>2, <1>3, <1>4, <1>5 DEF IInv, SafeInv

\* The inductive invariant holds always, whatever the numbers of threads and of
\* edens: who holds trans_lock and where, which eden each cache, lookup and TLAB
\* names, and what an eden may hold in each of its states.
THEOREM Invariance ==
  ASSUME NonResettable
  PROVE  Spec => []IInv
<1>1. IInv /\ [Next]_vars => IInv'
  BY Zenon, IInvStep
<1> QED
  BY IInvInit, <1>1, PTL DEF Spec

-----------------------------------------------------------------------------
(* What the invariant gives *)

\* Objects of two transactions never share an eden, and an eden on offer is
\* empty, whatever the interleaving of the workers and the VM operations.
THEOREM TransactionsAreIsolated ==
  ASSUME NonResettable
  PROVE  Spec => []Isolation
<1>1. IInv => Isolation
  BY Zenon DEF IInv, SafeInv, EdenInv, Isolation
<1> QED
  BY <1>1, Invariance, PTL

\* Two threads never hold the same eden: ids are unique, and an eden without
\* an id is held by the owner of trans_lock.
LEMMA OneHolder ==
  ASSUME Types, SafeInv, NEW e \in Edens, NEW t \in Threads, NEW u \in Threads,
         Holds(t, e), Holds(u, e)
  PROVE  t = u
<1> USE DEF SafeInv
<1>1. CASE pc[t] \in {"take", "taken"} /\ pc[u] \in {"take", "taken"}
  BY Zenon, <1>1 DEF LockInv, LockPCs
<1>2. CASE pc[t] \notin {"take", "taken"} /\ pc[u] \notin {"take", "taken"}
  BY Zenon, <1>2 DEF Holds, UniqueInv
<1>3. CASE pc[t] \in {"take", "taken"} /\ pc[u] \notin {"take", "taken"}
  BY <1>3 DEF Holds, UniqueInv, TakeInv, Types
<1>4. CASE pc[t] \notin {"take", "taken"} /\ pc[u] \in {"take", "taken"}
  BY <1>4 DEF Holds, UniqueInv, TakeInv, Types
<1> QED
  BY Zenon, <1>1, <1>2, <1>3, <1>4

\* No Assigned eden is lost: exactly one thread holds it and will publish it.
THEOREM NoEdenIsLost ==
  ASSUME NonResettable
  PROVE  Spec => []AssignedHasOneOwner
<1>1. ASSUME IInv
      PROVE  AssignedHasOneOwner
  <2> SUFFICES ASSUME NEW e \in Edens, state[e] = "Assigned"
               PROVE  \E t \in Threads :
                        Holds(t, e) /\ \A u \in Threads \ {t} : ~Holds(u, e)
    BY Zenon DEF AssignedHasOneOwner
  <2>1. Types /\ SafeInv
    BY Zenon, <1>1, TypesFromTypeInv DEF IInv
  <2>2. PICK t \in Threads : Holds(t, e)
    BY Zenon, <2>1 DEF SafeInv, OwnerInv
  <2> QED
    BY Zenon, <2>1, <2>2, OneHolder
<1> QED
  BY <1>1, Invariance, PTL

\* An open TLAB never points into an eden another transaction may get.
THEOREM TlabsStayHome ==
  ASSUME NonResettable
  PROVE  Spec => []TlabInOwnEden
<1>1. ASSUME IInv
      PROVE  TlabInOwnEden
  <2>1. Types /\ SafeInv
    BY Zenon, <1>1, TypesFromTypeInv DEF IInv
  <2> QED
    BY <2>1 DEF Types, SafeInv, TlabInv, CacheInv, TlabInOwnEden
<1> QED
  BY <1>1, Invariance, PTL

\* The assertion of par_allocate never fails: should_allocate's answer is
\* still true when the eden is fetched again.
THEOREM AllocationFindsItsEden ==
  ASSUME NonResettable
  PROVE  Spec => []AllocateFindsEden
<1>1. IInv => AllocateFindsEden
  BY Zenon DEF IInv, SafeInv, GotInv, AllocateFindsEden
<1> QED
  BY <1>1, Invariance, PTL

\* The VM thread never waits at a safepoint for a lock a stopped thread holds.
THEOREM LockIsFreeAtSafepoints ==
  ASSUME NonResettable
  PROVE  Spec => []LockFreeAtSafepoint
<1>1. ASSUME IInv
      PROVE  LockFreeAtSafepoint
  <2>1. trans_lock \in Threads \cup {NoThread}
    BY Zenon, <1>1 DEF IInv, TypeInv, TypeOK
  <2> QED
    BY Zenon, <1>1, <2>1 DEF IInv, SafeInv, LockInv, LockPCs, SafePCs, AllSafe,
                      LockFreeAtSafepoint
<1> QED
  BY <1>1, Invariance, PTL

-----------------------------------------------------------------------------
(* The pool implements TransPool *)

\* The refinement mapping.
OwnerBar == [e \in Edens |-> IF state[e] = "Available" THEN NoTrans
                                                       ELSE edenTransID[e]]
EndedBar == [e \in Edens |-> state[e] \in {"Collectable", "Collecting"}]

\* A step that leaves the edens alone is a stuttering step of TransPool.
LEMMA SameEdens ==
  ASSUME UNCHANGED <<state, edenTransID, objs>>
  PROVE  UNCHANGED Pool!poolVars
BY Zenon DEF Pool!poolVars

\* Everything else leaves the edens alone.
EdenStep(t) == \/ EndState(t) \/ AllocInTlab(t) \/ Returned(t) \/ Scan(t)
               \/ Take(t) \/ CollectTransEden(t)

\* Every step but the six of EdenStep leaves the edens alone.
LEMMA QuietSteps ==
  ASSUME SafeInv, NEW t \in Threads, Internal(t) \/ Application(t), ~EdenStep(t)
  PROVE  UNCHANGED <<state, edenTransID, objs>>
<1> USE DEF edenVars
<1>1. CASE \/ Begin(t) \/ EndCheck(t) \/ EndCount(t) \/ EndReset(t) \/ Retire(t)
           \/ GateCollectable(t) \/ GateAvailable(t) \/ Retry(t)
  BY Zenon, <1>1 DEF Begin, EndCheck, EndCount, EndReset, Retire, GateCollectable,
              GateAvailable, Retry
<1>2. CASE Lock(t) \/ Taken(t) \/ SafepointBegin(t) \/ SkipOperation(t)
  BY Zenon, <1>2 DEF Lock, Taken, SafepointBegin, SkipOperation
<1>4. CASE Cached(t)
  BY ZenonT(60), <1>4 DEF Cached
<1>3. CASE Application(t)
  <2>1. CASE transCheckBeforeRun(t) \/ StartTransaction(t) \/ Allocate(t)
    BY SMTT(20), <2>1 DEF transCheckBeforeRun, StartTransaction, Allocate
  <2>2. CASE Park(t) \/ AwaitEntry(t) \/ Exit(t)
    BY Zenon, <2>2 DEF Park, AwaitEntry, Exit
  <2> QED
    BY Zenon, <1>3, <2>1, <2>2 DEF Application, EdenStep
<1> QED
  BY Zenon, <1>1, <1>2, <1>3, <1>4, ResetUnreachable DEF Internal, EdenStep

-----------------------------------------------------------------------------
(* Each step that touches an eden is a step of TransPool *)

\* Publishing an eden is Finish: its transaction is still its owner.
LEMMA EndStateIsFinish ==
  ASSUME Types, SafeInv, NEW t \in Threads, EndState(t)
  PROVE  Pool!Finish(transEdenID[t])
<1> DEFINE e == transEdenID[t]
<1>1. /\ e \in Edens /\ edenTransID[e] # NoTrans /\ state[e] = "Assigned"
  BY DEF Types, SafeInv, EndState, At, MatchInv, Matches, CacheInv, LifeInv,
         InTransaction
<1>2. /\ UNCHANGED <<edenTransID, objs>>
      /\ state' = [state EXCEPT ![e] = "Collectable"]
  BY Zenon DEF EndState
<1> QED
  BY Zenon, <1>1, <1>2 DEF Pool!Finish, Types

\* An object of the eden's own transaction is what Fill allows.
LEMMA FillStep ==
  ASSUME Types, SafeInv, NEW e \in Edens, NEW t \in Threads,
         transID[t] # NoTrans, edenTransID[e] = transID[t],
         pc[t] \notin {"endcount", "endreset"},
         objs' = [objs EXCEPT ![e] = @ \cup {transID[t]}],
         UNCHANGED <<state, edenTransID>>
  PROVE  Pool!Fill(e)
<1>1. state[e] = "Assigned"
  BY Zenon DEF SafeInv, CacheInv
<1>2. objs[e] \cup {transID[t]} = {edenTransID[e]}
  BY Zenon DEF SafeInv, EdenInv
<1> QED
  BY Zenon, <1>1, <1>2 DEF Pool!Fill, Types

\* Bumping the TLAB is Fill.
LEMMA AllocInTlabIsFill ==
  ASSUME Types, SafeInv, NEW t \in Threads, AllocInTlab(t)
  PROVE  Pool!Fill(tlab[t]) /\ tlab[t] \in Edens
<1>1. /\ tlab[t] \in Edens /\ transID[t] # NoTrans
      /\ edenTransID[tlab[t]] = transID[t] /\ pc[t] = "java"
  BY DEF Types, SafeInv, AllocInTlab, AtSafe, At, TlabInv
<1>2. /\ objs' = [objs EXCEPT ![tlab[t]] = @ \cup {transID[t]}]
      /\ UNCHANGED <<state, edenTransID>>
  BY Zenon DEF AllocInTlab
<1> QED
  BY Zenon, <1>1, <1>2, FillStep

\* Allocating in the eden getTransEdenToAllocate returned is Fill.
LEMMA ReturnedIsFill ==
  ASSUME Types, SafeInv, NEW t \in Threads, Returned(t)
  PROVE  \/ UNCHANGED <<state, edenTransID, objs>>
         \/ Pool!Fill(got[t]) /\ got[t] \in Edens
<1> SUFFICES ASSUME ~ UNCHANGED objs
             PROVE  Pool!Fill(got[t]) /\ got[t] \in Edens
  BY SMTT(20) DEF Returned
<1>1. /\ got[t] # NULL /\ pc[t] = "returned"
      /\ objs' = [objs EXCEPT ![got[t]] = @ \cup {transID[t]}]
      /\ UNCHANGED <<state, edenTransID>>
  BY Zenon DEF Returned, At
<1>2. /\ got[t] \in Edens /\ transID[t] # NoTrans
      /\ edenTransID[got[t]] = transID[t]
  BY SMTT(20), <1>1 DEF Types, SafeInv, GotInv, Matches
<1> QED
  BY Zenon, <1>1, <1>2, FillStep

\* Marking the eden Assigned is invisible until the id is written.
LEMMA ScanIsInvisible ==
  ASSUME Types, SafeInv, NEW t \in Threads, Scan(t)
  PROVE  UNCHANGED Pool!poolVars
<1>1. CASE UNCHANGED <<state, edenTransID, objs>>
  BY Zenon, <1>1, SameEdens
<1>2. CASE state[idx[t]] = "Available" /\ idx[t] \in Edens
             /\ state' = [state EXCEPT ![idx[t]] = "Assigned"]
             /\ UNCHANGED <<edenTransID, objs>>
  <2>1. edenTransID[idx[t]] = NoTrans
    BY Zenon, <1>2 DEF SafeInv, EdenInv
  <2> QED
    BY <1>2, <2>1 DEF Pool!poolVars, Types
<1> QED
  BY Zenon, <1>1, <1>2 DEF Scan, Types

\* Writing the id is Acquire: the transaction owns no other eden.
LEMMA TakeIsAcquire ==
  ASSUME Types, SafeInv, NEW t \in Threads, Take(t)
  PROVE  \E e \in Edens : \E x \in TransIDs : Pool!Acquire(e, x)
<1>1. /\ pc[t] = "take"
      /\ edenTransID' = [edenTransID EXCEPT ![idx[t]] = transID[t]]
      /\ UNCHANGED <<state, objs>>
  BY SMTT(20) DEF Take, At
<1>2. /\ idx[t] \in Edens /\ transID[t] \in TransIDs /\ transID[t] # NoTrans
      /\ edenTransID[idx[t]] = NoTrans /\ state[idx[t]] = "Assigned"
      /\ transEdenID[t] = NULL
  BY <1>1 DEF Types, IndexPCs, SafeInv, TakeInv, LifeInv, InTransaction, LockPCs
<1>3. \A f \in Edens : edenTransID[f] # transID[t]
  BY <1>1, <1>2 DEF SafeInv, CacheInv, Types
<1>4. PICK e \in Edens, x \in TransIDs : e = idx[t] /\ x = transID[t]
  BY Zenon, <1>2
<1>5. Pool!Acquire(e, x)
  BY Zenon, <1>1, <1>2, <1>3, <1>4 DEF Pool!Acquire, Types
<1> QED
  BY Zenon, <1>5

\* collectTransEden is Reclaim, or invisible when it keeps the eden.
LEMMA CollectIsReclaim ==
  ASSUME Types, SafeInv, NEW t \in Threads, CollectTransEden(t)
  PROVE  \/ UNCHANGED Pool!poolVars
         \/ \E e \in Edens : Pool!Reclaim(e)
<1>1. CollectEffect(t)
  BY Zenon, CollectTransEdenEffect
<1>2. CASE UNCHANGED <<state, edenTransID, objs>>
  BY Zenon, <1>2, SameEdens
<1>3. ASSUME NEW e \in Edens, state[e] = "Collectable",
             state' = [state EXCEPT ![e] = "Available"],
             edenTransID' = [edenTransID EXCEPT ![e] = NoTrans],
             objs' = [objs EXCEPT ![e] = {}]
      PROVE  Pool!Reclaim(e)
  <2>1. OwnerBar' = [OwnerBar EXCEPT ![e] = NoTrans]
    BY Zenon, <1>3 DEF OwnerBar, Types
  <2>2. EndedBar' = [EndedBar EXCEPT ![e] = FALSE]
    <3>1. \A f \in Edens : (state'[f] \in {"Collectable", "Collecting"})
                             = IF f = e THEN FALSE
                               ELSE state[f] \in {"Collectable", "Collecting"}
      <4>1. /\ state'[e] = "Available"
            /\ \A f \in Edens \ {e} : state'[f] = state[f]
        BY Zenon, <1>3 DEF Types
      <4>2. (state'[e] \in {"Collectable", "Collecting"}) = FALSE
        BY <4>1
      <4> SUFFICES ASSUME NEW f \in Edens
                   PROVE  (state'[f] \in {"Collectable", "Collecting"})
                            = IF f = e THEN FALSE
                              ELSE state[f] \in {"Collectable", "Collecting"}
        BY Zenon
      <4>3. CASE f = e
        BY Zenon, <4>2, <4>3
      <4>4. CASE f # e
        BY <4>1, <4>4, Zenon
      <4> QED
        BY Zenon, <4>3, <4>4
    <3> QED
      BY <3>1, Zenon DEF EndedBar
  <2>3. EndedBar[e]
    BY Zenon, <1>3 DEF EndedBar
  <2> QED
    BY Zenon, <1>3, <2>1, <2>2, <2>3 DEF Pool!Reclaim, OwnerBar, EndedBar
<1>4. ASSUME NEW e \in Edens, state[e] = "Collectable",
             state' = [state EXCEPT ![e] = "Collecting"],
             UNCHANGED <<edenTransID, objs>>
      PROVE  UNCHANGED Pool!poolVars
  BY <1>4 DEF Pool!poolVars, Types
<1> QED
  BY Zenon, <1>1, <1>2, <1>3, <1>4 DEF CollectEffect

\* Any other collection is Compact, or leaves the edens alone.
LEMMA OtherCollectionIsCompact ==
  ASSUME Types, OtherCollection
  PROVE  UNCHANGED Pool!poolVars \/ Pool!Compact
<1>1. CASE UNCHANGED <<state, edenTransID, objs>>
  BY Zenon, <1>1, SameEdens
<1>2. CASE objs' = [e \in Edens |-> {}] /\ UNCHANGED <<state, edenTransID>>
  BY Zenon, <1>2 DEF Pool!Compact
<1>3. CASE /\ objs' = [e \in Edens |-> {}]
           /\ state' = [e \in Edens |-> "Available"]
           /\ edenTransID' = [e \in Edens |-> NoTrans]
  <2>1. OwnerBar' = [e \in Edens |-> NoTrans]
    BY Zenon, <1>3 DEF OwnerBar
  <2>2. EndedBar' = [e \in Edens |-> FALSE]
    <3>1. \A e \in Edens : (state'[e] \in {"Collectable", "Collecting"}) = FALSE
      BY <1>3
    <3> QED
      BY <3>1, Zenon DEF EndedBar
  <2> QED
    BY Zenon, <1>3, <2>1, <2>2 DEF Pool!Compact, OwnerBar, EndedBar
<1> QED
  BY Zenon, <1>1, <1>2, <1>3 DEF OtherCollection

\* Every step is a step of TransPool or a stutter.
LEMMA PoolStep ==
  ASSUME IInv, [Next]_vars
  PROVE  [Pool!PoolNext]_(Pool!poolVars)
<1>1. Types /\ SafeInv
  BY Zenon, TypesFromTypeInv DEF IInv
<1>2. ASSUME NEW t \in Threads, Internal(t) \/ Application(t)
      PROVE  [Pool!PoolNext]_(Pool!poolVars)
  <2>1. CASE ~EdenStep(t)
    BY Zenon, <1>1, <1>2, <2>1, QuietSteps, SameEdens
  <2>2. CASE EndState(t)
    <3>1. transEdenID[t] \in Edens
      BY Zenon, <1>1, <2>2 DEF SafeInv, MatchInv, Matches, EndState, At
    <3>2. Pool!Finish(transEdenID[t])
      BY Zenon, <1>1, <2>2, EndStateIsFinish
    <3> QED
      BY Zenon, <3>1, <3>2 DEF Pool!PoolNext, Pool!Finish
  <2>3. CASE AllocInTlab(t)
    BY Zenon, <1>1, <2>3, AllocInTlabIsFill DEF Pool!PoolNext
  <2>4. CASE Returned(t)
    BY Zenon, <1>1, <2>4, ReturnedIsFill, SameEdens DEF Pool!PoolNext
  <2>5. CASE Scan(t)
    BY Zenon, <1>1, <2>5, ScanIsInvisible
  <2>6. CASE Take(t)
    <3>1. \E e \in Edens : \E x \in TransIDs : Pool!Acquire(e, x)
      BY Zenon, <1>1, <2>6, TakeIsAcquire
    <3> QED
      BY Zenon, <3>1 DEF Pool!PoolNext
  <2>7. CASE CollectTransEden(t)
    BY Zenon, <1>1, <2>7, CollectIsReclaim DEF Pool!PoolNext
  <2> QED
    BY Zenon, <2>1, <2>2, <2>3, <2>4, <2>5, <2>6, <2>7 DEF EdenStep
<1>3. CASE SafepointBeginGC
  BY Zenon, <1>3, SameEdens DEF SafepointBeginGC, edenVars
<1>4. CASE OtherCollection
  BY Zenon, <1>1, <1>4, OtherCollectionIsCompact DEF Pool!PoolNext
<1>5. CASE UNCHANGED vars
  BY Zenon, <1>5, SameEdens DEF vars, edenVars
<1> QED
  BY Zenon, <1>2, <1>3, <1>4, <1>5 DEF Next

\* The workers, the lock, the counts and the safepoints together keep the
\* promise of TransPool.
THEOREM PoolRefinement ==
  ASSUME NonResettable
  PROVE  Spec => ImplementsPool
<1>1. Init => Pool!PoolInit
  <2> SUFFICES ASSUME Init
               PROVE  Pool!PoolInit
    OBVIOUS
  <2>1. OwnerBar = [e \in Edens |-> NoTrans]
    BY Zenon DEF Init, OwnerBar
  <2>2. EndedBar = [e \in Edens |-> FALSE]
    <3>1. \A e \in Edens : (state[e] \in {"Collectable", "Collecting"}) = FALSE
      BY DEF Init
    <3> QED
      BY <3>1, Zenon DEF EndedBar
  <2>3. objs = [e \in Edens |-> {}]
    BY Zenon DEF Init
  <2> QED
    BY Zenon, <2>1, <2>2, <2>3 DEF Pool!PoolInit, OwnerBar, EndedBar
<1>2. IInv /\ [Next]_vars => [Pool!PoolNext]_(Pool!poolVars)
  BY Zenon, PoolStep
<1> QED
  BY <1>1, <1>2, Invariance, PTL DEF Spec, ImplementsPool, Pool!PoolSpec

-----------------------------------------------------------------------------
(* What a step may never do *)

\* The steps that change the state of an eden.
StateChange(e) ==
  \/ \E t \in Threads : EndState(t) /\ transEdenID[t] = e
  \/ \E t \in Threads : Scan(t) /\ state[e] = "Available" /\ state'[e] = "Assigned"
  \/ \E t \in Threads : /\ CollectTransEden(t) /\ state[e] = "Collectable"
                        /\ state'[e] \in {"Available", "Collecting"}
  \/ OtherCollection /\ state'[e] = "Available"

\* Nothing else changes the state of an eden.
LEMMA StateChanges ==
  ASSUME IInv, [Next]_vars, NEW e \in Edens, state'[e] # state[e]
  PROVE  StateChange(e)
<1>1. Types /\ SafeInv
  BY Zenon, TypesFromTypeInv DEF IInv
<1>2. ASSUME NEW t \in Threads, Internal(t) \/ Application(t)
      PROVE  StateChange(e)
  <2>1. CASE ~EdenStep(t) \/ AllocInTlab(t) \/ Returned(t) \/ Take(t)
    <3>1. CASE ~EdenStep(t)
      BY Zenon, <1>1, <1>2, <3>1, QuietSteps DEF StateChange, IInv
    <3>2. CASE AllocInTlab(t) \/ Returned(t) \/ Take(t)
      BY Zenon, <3>2 DEF AllocInTlab, Returned, Take
    <3> QED
      BY Zenon, <2>1, <3>1, <3>2
  <2>2. CASE EndState(t)
    BY Zenon, <1>1, <2>2 DEF EndState, StateChange, Types
  <2>3. CASE Scan(t)
    BY Zenon, <1>1, <2>3 DEF Scan, StateChange, Types
  <2>4. CASE CollectTransEden(t)
    <3>1. CollectEffect(t)
      BY Zenon, <2>4, CollectTransEdenEffect
    <3> QED
      BY SMTT(20), <1>1, <2>4, <3>1 DEF CollectEffect, StateChange, Types
  <2> QED
    BY ZenonT(60), <2>1, <2>2, <2>3, <2>4 DEF EdenStep
<1>3. CASE SafepointBeginGC
  BY Zenon, <1>3 DEF SafepointBeginGC, edenVars
<1>4. CASE OtherCollection
  BY Zenon, <1>4 DEF OtherCollection, StateChange
<1>5. CASE UNCHANGED vars
  BY Zenon, <1>5 DEF vars, edenVars
<1> QED
  BY Zenon, <1>2, <1>3, <1>4, <1>5 DEF Next

\* No step takes an eden away from a transaction that still runs, unless the
\* whole heap was collected and the pool reset.
THEOREM RunningTransactionsKeepTheirEden ==
  ASSUME NonResettable
  PROVE  Spec => OnlyEndedEdensAreFreed
<1>1. ASSUME IInv, [Next]_vars
      PROVE  [\A e \in Edens : state[e] # "Available" /\ state'[e] = "Available" =>
                state[e] = "Collectable" \/ (safepoint /\ requester = NoThread)]_vars
  <2> SUFFICES ASSUME NEW e \in Edens, state[e] # "Available",
                      state'[e] = "Available"
               PROVE  state[e] = "Collectable" \/ (safepoint /\ requester = NoThread)
    OBVIOUS
  <2>1. StateChange(e)
    BY Zenon, <1>1, StateChanges
  <2>2. Types
    BY Zenon, <1>1, TypesFromTypeInv DEF IInv
  <2> QED
    BY Zenon, <2>1, <2>2 DEF StateChange, EndState, OtherCollection, Types
<1> QED
  BY <1>1, Invariance, PTL DEF Spec, OnlyEndedEdensAreFreed

\* An eden becomes Collectable only by the step of the thread whose
\* transaction owns it.
THEOREM OwnersPublish ==
  ASSUME NonResettable
  PROVE  Spec => OnlyOwnerPublishes
<1>1. ASSUME IInv, [Next]_vars
      PROVE  [\A e \in Edens : state[e] # "Collectable" /\ state'[e] = "Collectable" =>
                /\ state[e] = "Assigned"
                /\ \E t \in Threads : /\ transID[t] = edenTransID[e]
                                      /\ transEdenID[t] = e /\ pc[t] = "endstate"]_vars
  <2> SUFFICES ASSUME NEW e \in Edens, state[e] # "Collectable",
                      state'[e] = "Collectable"
               PROVE  /\ state[e] = "Assigned"
                      /\ \E t \in Threads : /\ transID[t] = edenTransID[e]
                                            /\ transEdenID[t] = e /\ pc[t] = "endstate"
    OBVIOUS
  <2>1. StateChange(e)
    BY SMTT(20), <1>1, StateChanges
  <2>2. PICK t \in Threads : EndState(t) /\ transEdenID[t] = e
    BY SMTT(20), <2>1 DEF StateChange
  <2>3. pc[t] = "endstate" /\ edenTransID[e] = transID[t] /\ transID[t] # NoTrans
    BY SMTT(20), <1>1, <2>2 DEF EndState, At, IInv, SafeInv, MatchInv, Matches, LifeInv,
                      InTransaction
  <2> QED
    BY ZenonT(60), <1>1, <2>2, <2>3 DEF IInv, SafeInv, CacheInv
<1> QED
  BY <1>1, Invariance, PTL DEF Spec, OnlyOwnerPublishes
=============================================================================
