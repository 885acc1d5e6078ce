------------------------- MODULE TransNewGeneration -------------------------
(***************************************************************************)
(* The pool of transaction edens (TransEden) of TransNewGeneration, the    *)
(* worker threads that run transactions in them, and the VM operations     *)
(* that reclaim them.                                                      *)
(*                                                                         *)
(* A worker's transaction gets an id when it starts, an eden at its first  *)
(* remote allocation, allocates there (directly or through a TLAB) and     *)
(* publishes the eden as Collectable when the worker parks, awaits or      *)
(* exits.  A worker that finds no eden Available and one Collectable       *)
(* reclaims it: at a safepoint (VM_CollectTransEden), or, once residual    *)
(* training is done, by resetting trained edens in place.                  *)
(*                                                                         *)
(* Steps are the accesses to shared fields: the eden fields and the three  *)
(* counts are read and written without a common lock (trans_lock covers    *)
(* getTransEdenToAllocate only), so each access another thread can observe *)
(* is a step.  Code between two safepoint polls runs at an unsafe pc.      *)
(***************************************************************************)
EXTENDS Integers, FiniteSets

CONSTANTS
  Threads,                 \* Java threads the TCP accept thread may start
  MAX_TRANSEDEN,           \* number of edens in the pool
  TransIDs,                \* transaction ids (ints that have not wrapped)
  NoTrans,                 \* the id -1
  NoThread,                \* nobody
  UseParkUnpark,           \* transactions end at park(), not at await()
  ThreadRunAsTransaction,  \* a new worker starts inside a transaction
  Pretenure,
  AVOID_COLLECT_TRAINED,   \* a trained eden is erased, not evacuated
  ExamineResiduals,        \* collections train the residual classes
  DebugTypeGenGC,          \* a complete collection resets the pool
  Env                      \* what the rest of the VM may do

EnvEvents == {"gc", "unsafe", "promotion_failure", "gc_locker"}

ASSUME PoolAssumption == MAX_TRANSEDEN \in Nat \ {0}

ASSUME NobodyAssumption == NoThread \notin Threads /\ NoTrans \notin TransIDs

ASSUME FlagAssumption ==
  /\ {UseParkUnpark, ThreadRunAsTransaction, Pretenure, AVOID_COLLECT_TRAINED,
      ExamineResiduals, DebugTypeGenGC} \subseteq BOOLEAN
  /\ Env \subseteq EnvEvents

Edens == 0 .. MAX_TRANSEDEN - 1
NULL == -1
EdenOrNull == Edens \cup {NULL}

VARIABLES
  \* JavaThread
  transID, transEdenID, pooled, monitored, tlab,
  \* TransEden: state, transID, trained, and whose objects lie in the space
  state, edenTransID, trained, objs,
  \* TransNewGeneration
  assignedCount, availableCount, collectableCount, trans_lock,
  \* Universe
  trainingDone,
  \* the VM thread: a safepoint is requested, and by whom (NoThread: other GC)
  safepoint, requester,
  \* control: program counter, return label, loop index, result of
  \* getTransEdenToAllocate, is_tlab, didSomething, and whether
  \* total_collections moved since the thread's VM operation read it
  pc, ret, idx, got, wantTlab, didSomething, beaten

threadVars == <<transID, transEdenID, pooled, monitored, tlab>>
edenVars   == <<state, edenTransID, trained, objs>>
countVars  == <<assignedCount, availableCount, collectableCount>>
vmVars     == <<safepoint, requester>>
regVars    == <<ret, idx, got, wantTlab, didSomething>>
vars == <<threadVars, edenVars, countVars, trans_lock, trainingDone, vmVars,
          pc, regVars, beaten>>

EdenStates == {"Available", "Assigned", "Collectable", "Collecting"}

\* Pcs where a thread is in Java code, or blocked in the VM: a safepoint may
\* begin and end while it is there.
SafePCs == {"unborn", "java", "vmop", "retry"}
ResetPCs == {"rscan", "rdec", "rstate", "rtrans", "rassigned", "ravail", "rclear"}
LockPCs == {"cached", "scan", "take", "taken"}
EndPCs == {"endcheck", "endstate", "endcount", "endreset", "retire"}
PCs == SafePCs \cup ResetPCs \cup LockPCs \cup EndPCs
         \cup {"begin", "gate1", "gate2", "lock", "returned"}

Init ==
  /\ transID = [t \in Threads |-> NoTrans]
  /\ transEdenID = [t \in Threads |-> NULL]
  /\ pooled = [t \in Threads |-> FALSE]
  /\ monitored = [t \in Threads |-> FALSE]
  /\ tlab = [t \in Threads |-> NULL]
  /\ state = [e \in Edens |-> "Available"]
  /\ edenTransID = [e \in Edens |-> NoTrans]
  /\ trained = [e \in Edens |-> FALSE]
  /\ objs = [e \in Edens |-> {}]
  /\ assignedCount = 0
  /\ availableCount = MAX_TRANSEDEN
  /\ collectableCount = 0
  /\ trans_lock = NoThread
  /\ trainingDone = FALSE
  /\ safepoint = FALSE
  /\ requester = NoThread
  /\ pc = [t \in Threads |-> "unborn"]
  /\ ret = [t \in Threads |-> "none"]
  /\ idx = [t \in Threads |-> 0]
  /\ got = [t \in Threads |-> NULL]
  /\ wantTlab = [t \in Threads |-> FALSE]
  /\ didSomething = [t \in Threads |-> FALSE]
  /\ beaten = [t \in Threads |-> FALSE]

At(t, label) == pc[t] = label
Goto(t, label) == pc' = [pc EXCEPT ![t] = label]

\* A thread leaves a safe pc only while no safepoint is requested.
AtSafe(t, label) == At(t, label) /\ ~safepoint

-----------------------------------------------------------------------------
(* Life of a worker and of its transactions *)

\* Ids nobody holds.  getNewTransID increments an int with cmpxchg, so an id
\* comes back only after 2^32 transactions, long after it was forgotten.
FreshIDs ==
  {x \in TransIDs : /\ \A t \in Threads : transID[t] # x
                    /\ \A e \in Edens : edenTransID[e] # x /\ x \notin objs[e]}

\* JavaThread::transCheckBeforeRun of a child of the TCP accept thread.
transCheckBeforeRun(t) ==
  /\ AtSafe(t, "unborn")
  /\ monitored' = [monitored EXCEPT ![t] = TRUE]
  /\ IF ThreadRunAsTransaction
       THEN \E x \in FreshIDs : transID' = [transID EXCEPT ![t] = x]
       ELSE UNCHANGED transID
  /\ Goto(t, "java")
  /\ UNCHANGED <<transEdenID, pooled, tlab, edenVars, countVars, trans_lock,
                 trainingDone, vmVars, regVars, beaten>>

\* A pooled worker starts a transaction: at its first slow allocation after a
\* park, or when it leaves await() (pooled is set exactly inside await()).
StartTransaction(t) ==
  /\ AtSafe(t, "java")
  /\ monitored[t] /\ pooled[t]
  /\ UseParkUnpark => transID[t] = NoTrans
  /\ \E x \in FreshIDs : transID' = [transID EXCEPT ![t] = x]
  /\ Goto(t, "begin")
  /\ UNCHANGED <<transEdenID, pooled, monitored, tlab, edenVars, countVars,
                 trans_lock, trainingDone, vmVars, regVars, beaten>>

\* resetPooled, setTransEdenID(-1); in park mode the allocation then goes on,
\* unless its class is pretenured.
Begin(t) ==
  /\ At(t, "begin")
  /\ pooled' = [pooled EXCEPT ![t] = FALSE]
  /\ transEdenID' = [transEdenID EXCEPT ![t] = NULL]
  /\ \/ /\ UseParkUnpark
        /\ Goto(t, "gate1")
        /\ \E b \in BOOLEAN :
             /\ wantTlab' = [wantTlab EXCEPT ![t] = b]
             /\ tlab' = IF b THEN [tlab EXCEPT ![t] = NULL] ELSE tlab
     \/ /\ UseParkUnpark => Pretenure
        /\ Goto(t, "java")
        /\ UNCHANGED <<wantTlab, tlab>>
  /\ UNCHANGED <<transID, monitored, edenVars, countVars, trans_lock,
                 trainingDone, vmVars, ret, idx, got, didSomething, beaten>>

\* Parker::park.  The TLAB is retired after the eden is published.
Park(t) ==
  /\ AtSafe(t, "java")
  /\ UseParkUnpark /\ monitored[t]
  /\ ret' = [ret EXCEPT ![t] = "park"]
  /\ Goto(t, IF transID[t] # NoTrans THEN "endcheck" ELSE "retire")
  /\ UNCHANGED <<threadVars, edenVars, countVars, trans_lock, trainingDone,
                 vmVars, idx, got, wantTlab, didSomething, beaten>>

\* Entry of await(): the TLAB is retired first.
AwaitEntry(t) ==
  /\ AtSafe(t, "java")
  /\ ~UseParkUnpark /\ monitored[t] /\ ~pooled[t]
  /\ tlab' = [tlab EXCEPT ![t] = NULL]
  /\ ret' = [ret EXCEPT ![t] = "park"]
  /\ Goto(t, IF transID[t] # NoTrans THEN "endcheck" ELSE "retire")
  /\ UNCHANGED <<transID, transEdenID, pooled, monitored, edenVars, countVars,
                 trans_lock, trainingDone, vmVars, idx, got, wantTlab,
                 didSomething, beaten>>

\* Mutant of Exit: the transaction of an exiting thread is not ended.
ExitWithoutEnd(t) ==
  /\ AtSafe(t, "java")
  /\ tlab' = [tlab EXCEPT ![t] = NULL]
  /\ ret' = [ret EXCEPT ![t] = "exit"]
  /\ Goto(t, "retire")
  /\ UNCHANGED <<transID, transEdenID, pooled, monitored, edenVars, countVars,
                 trans_lock, trainingDone, vmVars, idx, got, wantTlab,
                 didSomething, beaten>>

\* JavaThread::exit, up to the removal of the thread.
Exit(t) ==
  /\ AtSafe(t, "java")
  /\ tlab' = [tlab EXCEPT ![t] = NULL]
  /\ ret' = [ret EXCEPT ![t] = "exit"]
  /\ Goto(t, IF monitored[t] /\ transID[t] # NoTrans THEN "endcheck"
                                                     ELSE "retire")
  /\ UNCHANGED <<transID, transEdenID, pooled, monitored, edenVars, countVars,
                 trans_lock, trainingDone, vmVars, idx, got, wantTlab,
                 didSomething, beaten>>

\* Mutant of EndCheck: the ids are not compared.
EndCheckRangeOnly(t) ==
  /\ At(t, "endcheck")
  /\ Goto(t, IF transEdenID[t] \in Edens THEN "endstate" ELSE "endreset")
  /\ UNCHANGED <<threadVars, edenVars, countVars, trans_lock, trainingDone,
                 vmVars, regVars, beaten>>

\* set_transEden_collectable: the range check and the comparison of ids.
EndCheck(t) ==
  /\ At(t, "endcheck")
  /\ LET e == transEdenID[t]
     IN  Goto(t, IF e \in Edens /\ edenTransID[e] = transID[t]
                   THEN "endstate" ELSE "endreset")
  /\ UNCHANGED <<threadVars, edenVars, countVars, trans_lock, trainingDone,
                 vmVars, regVars, beaten>>

EndState(t) ==
  /\ At(t, "endstate")
  /\ state' = [state EXCEPT ![transEdenID[t]] = "Collectable"]
  /\ Goto(t, "endcount")
  /\ UNCHANGED <<threadVars, edenTransID, trained, objs, countVars, trans_lock,
                 trainingDone, vmVars, regVars, beaten>>

EndCount(t) ==
  /\ At(t, "endcount")
  /\ collectableCount' = collectableCount + 1
  /\ Goto(t, "endreset")
  /\ UNCHANGED <<threadVars, edenVars, assignedCount, availableCount,
                 trans_lock, trainingDone, vmVars, regVars, beaten>>

\* resetTransID
EndReset(t) ==
  /\ At(t, "endreset")
  /\ transID' = [transID EXCEPT ![t] = NoTrans]
  /\ Goto(t, "retire")
  /\ UNCHANGED <<transEdenID, pooled, monitored, tlab, edenVars, countVars,
                 trans_lock, trainingDone, vmVars, regVars, beaten>>

\* Mutant of Retire: park() keeps the TLAB.
RetireKeepsTlab(t) ==
  /\ At(t, "retire")
  /\ LET exiting == ret[t] = "exit"
     IN  /\ pooled' = [pooled EXCEPT ![t] = ~exiting]
         /\ monitored' = [monitored EXCEPT ![t] = @ /\ ~exiting]
         /\ transEdenID' = IF exiting THEN [transEdenID EXCEPT ![t] = NULL]
                                      ELSE transEdenID
         /\ Goto(t, IF exiting THEN "unborn" ELSE "java")
  /\ ret' = [ret EXCEPT ![t] = "none"]
  /\ UNCHANGED <<transID, tlab, edenVars, countVars, trans_lock, trainingDone,
                 vmVars, idx, got, wantTlab, didSomething, beaten>>

\* clear_before_allocation of the TLAB (already done by await() and exit),
\* setPooled; an exiting thread is deleted.
Retire(t) ==
  /\ At(t, "retire")
  /\ tlab' = [tlab EXCEPT ![t] = NULL]
  /\ LET exiting == ret[t] = "exit"
     IN  /\ pooled' = [pooled EXCEPT ![t] = ~exiting]
         /\ monitored' = [monitored EXCEPT ![t] = @ /\ ~exiting]
         /\ transEdenID' = IF exiting THEN [transEdenID EXCEPT ![t] = NULL]
                                      ELSE transEdenID
         /\ Goto(t, IF exiting THEN "unborn" ELSE "java")
  /\ ret' = [ret EXCEPT ![t] = "none"]
  /\ UNCHANGED <<transID, edenVars, countVars, trans_lock, trainingDone,
                 vmVars, idx, got, wantTlab, didSomething, beaten>>

-----------------------------------------------------------------------------
(* Allocation: mem_allocate_with_pretenuring of an object that is not        *)
(* pretenured.  A thread without a transaction allocates in the local young  *)
(* generation, which the pool does not see.                                  *)

\* Bump allocation in the thread's TLAB, inlined in compiled code: the
\* allocation hooks of the VM do not run.
AllocInTlab(t) ==
  /\ AtSafe(t, "java")
  /\ tlab[t] # NULL
  /\ objs' = [objs EXCEPT ![tlab[t]] = @ \cup {transID[t]}]
  /\ UNCHANGED <<threadVars, state, edenTransID, trained, countVars, trans_lock,
                 trainingDone, vmVars, pc, regVars, beaten>>

\* A remote request reaches the policy, for a new TLAB (the old one is
\* retired) or for one object.
Allocate(t) ==
  /\ AtSafe(t, "java")
  /\ transID[t] # NoTrans
  /\ \E b \in BOOLEAN :
       /\ wantTlab' = [wantTlab EXCEPT ![t] = b]
       /\ tlab' = IF b THEN [tlab EXCEPT ![t] = NULL] ELSE tlab
  /\ Goto(t, "gate1")
  /\ UNCHANGED <<transID, transEdenID, pooled, monitored, edenVars, countVars,
                 trans_lock, trainingDone, vmVars, ret, idx, got, didSomething,
                 beaten>>

\* Call of getTransEdenToAllocate, to return to label.
Call(t, label) ==
  /\ Goto(t, "lock")
  /\ ret' = [ret EXCEPT ![t] = label]

\* getCollectableTransEdenCount() >= 1 ...
GateCollectable(t) ==
  /\ At(t, "gate1")
  /\ IF collectableCount >= 1 THEN Goto(t, "gate2") /\ UNCHANGED ret
                              ELSE Call(t, "route")
  /\ UNCHANGED <<threadVars, edenVars, countVars, trans_lock, trainingDone,
                 vmVars, idx, got, wantTlab, didSomething, beaten>>

\* Mutant of GateAvailable: < 0 for < 1.
GateBelowZero(t) ==
  /\ At(t, "gate2")
  /\ IF availableCount < 0 THEN Goto(t, "vmop") /\ UNCHANGED ret
                           ELSE Call(t, "route")
  /\ UNCHANGED <<threadVars, edenVars, countVars, trans_lock, trainingDone,
                 vmVars, idx, got, wantTlab, didSomething, beaten>>

\* ... && getAvailableTransEdenCount() < 1: reset trained edens if training is
\* done, else stop the world.  VM_CollectTransEden reads total_collections.
GateAvailable(t) ==
  /\ At(t, "gate2")
  /\ IF availableCount < 1
       THEN /\ Goto(t, IF trainingDone /\ Pretenure /\ AVOID_COLLECT_TRAINED
                         THEN "rscan" ELSE "vmop")
            /\ UNCHANGED ret
       ELSE Call(t, "route")
  /\ UNCHANGED <<threadVars, edenVars, countVars, trans_lock, trainingDone,
                 vmVars, idx, got, wantTlab, didSomething, beaten>>

\* The result of getTransEdenToAllocate at its three call sites:
\* should_allocate choosing the generation ("route"), should_allocate in the
\* retry loop ("should"), and par_allocate ("alloc").  The last may find the
\* eden full: the thread then takes Heap_lock, and retries or goes local.
Returned(t) ==
  /\ At(t, "returned")
  /\ got' = [got EXCEPT ![t] = NULL]
  /\ \/ /\ got[t] = NULL
        /\ Goto(t, "java")
        /\ ret' = [ret EXCEPT ![t] = "none"]
        /\ wantTlab' = [wantTlab EXCEPT ![t] = FALSE]
        /\ UNCHANGED <<tlab, objs>>
     \/ /\ got[t] # NULL /\ ret[t] # "alloc"
        /\ Call(t, IF ret[t] = "route" THEN "should" ELSE "alloc")
        /\ UNCHANGED <<tlab, objs, wantTlab>>
     \/ /\ got[t] # NULL /\ ret[t] = "alloc"
        /\ objs' = [objs EXCEPT ![got[t]] = @ \cup {transID[t]}]
        /\ tlab' = IF wantTlab[t] THEN [tlab EXCEPT ![t] = got[t]] ELSE tlab
        /\ Goto(t, "java")
        /\ ret' = [ret EXCEPT ![t] = "none"]
        /\ wantTlab' = [wantTlab EXCEPT ![t] = FALSE]
     \/ /\ got[t] # NULL /\ ret[t] = "alloc"
        /\ Goto(t, "retry")
        /\ ret' = [ret EXCEPT ![t] = "none"]
        /\ UNCHANGED <<tlab, objs, wantTlab>>
  /\ UNCHANGED <<transID, transEdenID, pooled, monitored, state, edenTransID,
                 trained, countVars, trans_lock, trainingDone, vmVars, idx,
                 didSomething, beaten>>

\* Mutant of Retry: should_allocate is not asked again after the wait.
RetryTrustsRoute(t) ==
  /\ AtSafe(t, "retry")
  /\ Call(t, "alloc")
  /\ UNCHANGED <<threadVars, edenVars, countVars, trans_lock, trainingDone,
                 vmVars, idx, got, wantTlab, didSomething, beaten>>

\* Heap_lock is taken: attempt_type_based_allocation tries the eden again, or
\* the request is satisfied in the local young or the old generation.
Retry(t) ==
  /\ AtSafe(t, "retry")
  /\ \/ Call(t, "should") /\ UNCHANGED wantTlab
     \/ /\ Goto(t, "java")
        /\ wantTlab' = [wantTlab EXCEPT ![t] = FALSE]
        /\ UNCHANGED ret
  /\ UNCHANGED <<threadVars, edenVars, countVars, trans_lock, trainingDone,
                 vmVars, idx, got, didSomething, beaten>>

-----------------------------------------------------------------------------
(* getTransEdenToAllocate, under trans_lock *)

Lock(t) ==
  /\ At(t, "lock")
  /\ trans_lock = NoThread
  /\ trans_lock' = t
  /\ Goto(t, "cached")
  /\ UNCHANGED <<threadVars, edenVars, countVars, trainingDone, vmVars,
                 regVars, beaten>>

\* trans_lock->unlock() and return r.
Return(t, r) ==
  /\ trans_lock' = NoThread
  /\ got' = [got EXCEPT ![t] = r]
  /\ Goto(t, "returned")

\* The eden cached in the thread is returned if it is still the
\* transaction's and Assigned; otherwise the transaction is ditched.
CachedEden(t) ==
  LET e == transEdenID[t]
  IN  /\ e # NULL
      /\ IF edenTransID[e] = transID[t] /\ state[e] = "Assigned"
           THEN /\ Return(t, e)
                /\ UNCHANGED <<transID, transEdenID>>
           ELSE /\ Return(t, NULL)
                /\ transID' = [transID EXCEPT ![t] = NoTrans]
                /\ transEdenID' = [transEdenID EXCEPT ![t] = NULL]
      /\ UNCHANGED idx

\* No eden is cached: search by transaction id, then look for a free one if
\* the count says there is one.
SearchEden(t) ==
  /\ transEdenID[t] = NULL
  /\ \/ \E e \in Edens :
          /\ edenTransID[e] = transID[t]
          /\ \A f \in 0 .. e - 1 : edenTransID[f] # transID[t]
          /\ transEdenID' = [transEdenID EXCEPT ![t] = e]
          /\ Return(t, e)
          /\ UNCHANGED <<transID, idx>>
     \/ /\ \A e \in Edens : edenTransID[e] # transID[t]
        /\ Goto(t, "scan")
        /\ idx' = [idx EXCEPT ![t] = IF assignedCount < MAX_TRANSEDEN
                                       THEN 0 ELSE MAX_TRANSEDEN]
        /\ UNCHANGED <<transID, transEdenID, trans_lock, got>>

Cached(t) ==
  /\ At(t, "cached")
  /\ \/ /\ transID[t] = NoTrans
        /\ Return(t, NULL)
        /\ UNCHANGED <<transID, transEdenID, idx>>
     \/ transID[t] # NoTrans /\ (CachedEden(t) \/ SearchEden(t))
  /\ UNCHANGED <<pooled, monitored, tlab, edenVars, countVars, trainingDone,
                 vmVars, ret, wantTlab, didSomething, beaten>>

\* The loop over the edens; the transaction goes local when it finds none.
Scan(t) ==
  /\ At(t, "scan")
  /\ \/ /\ idx[t] = MAX_TRANSEDEN
        /\ transID' = [transID EXCEPT ![t] = NoTrans]
        /\ Return(t, NULL)
        /\ idx' = [idx EXCEPT ![t] = 0]
        /\ UNCHANGED state
     \/ /\ idx[t] < MAX_TRANSEDEN
        /\ state[idx[t]] = "Available"
        /\ state' = [state EXCEPT ![idx[t]] = "Assigned"]
        /\ Goto(t, "take")
        /\ UNCHANGED <<transID, trans_lock, got, idx>>
     \/ /\ idx[t] < MAX_TRANSEDEN
        /\ state[idx[t]] # "Available"
        /\ idx' = [idx EXCEPT ![t] = @ + 1]
        /\ UNCHANGED <<transID, trans_lock, got, state, pc>>
  /\ UNCHANGED <<transEdenID, pooled, monitored, tlab, edenTransID, trained,
                 objs, countVars, trainingDone, vmVars, ret, wantTlab,
                 didSomething, beaten>>

\* transID of the eden, _assignedCount++ (read under trans_lock only).
Take(t) ==
  /\ At(t, "take")
  /\ edenTransID' = [edenTransID EXCEPT ![idx[t]] = transID[t]]
  /\ assignedCount' = assignedCount + 1
  /\ Goto(t, "taken")
  /\ UNCHANGED <<threadVars, state, trained, objs, availableCount,
                 collectableCount, trans_lock, trainingDone, vmVars, regVars,
                 beaten>>

\* _availableCount--, the thread's cache, trained.
Taken(t) ==
  /\ At(t, "taken")
  /\ availableCount' = availableCount - 1
  /\ transEdenID' = [transEdenID EXCEPT ![t] = idx[t]]
  /\ trained' = [trained EXCEPT ![idx[t]] = @ \/ trainingDone]
  /\ Return(t, idx[t])
  /\ idx' = [idx EXCEPT ![t] = 0]
  /\ UNCHANGED <<transID, pooled, monitored, tlab, state, edenTransID, objs,
                 assignedCount, collectableCount, trainingDone, vmVars, ret,
                 wantTlab, didSomething, beaten>>

-----------------------------------------------------------------------------
(* collectResettableTransEden: trained edens are reset by the requesting     *)
(* thread, without a lock and without stopping the others.                   *)

ResetScan(t) ==
  /\ At(t, "rscan")
  /\ \/ /\ idx[t] = MAX_TRANSEDEN
        /\ IF didSomething[t] THEN Call(t, "route")
                              ELSE Goto(t, "vmop") /\ UNCHANGED ret
        /\ idx' = [idx EXCEPT ![t] = 0]
        /\ didSomething' = [didSomething EXCEPT ![t] = FALSE]
     \/ /\ idx[t] < MAX_TRANSEDEN
        /\ state[idx[t]] = "Collectable" /\ trained[idx[t]]
        /\ Goto(t, "rdec")
        /\ UNCHANGED <<ret, idx, didSomething>>
     \/ /\ idx[t] < MAX_TRANSEDEN
        /\ ~(state[idx[t]] = "Collectable" /\ trained[idx[t]])
        /\ idx' = [idx EXCEPT ![t] = @ + 1]
        /\ UNCHANGED <<pc, ret, didSomething>>
  /\ UNCHANGED <<threadVars, edenVars, countVars, trans_lock, trainingDone,
                 vmVars, got, wantTlab, beaten>>

\* Mutant of ResetDecCollectable: the count is left alone.
ResetUncounted(t) ==
  /\ At(t, "rdec")
  /\ Goto(t, "rstate")
  /\ UNCHANGED <<threadVars, edenVars, countVars, trans_lock, trainingDone,
                 vmVars, regVars, beaten>>

ResetDecCollectable(t) ==
  /\ At(t, "rdec")
  /\ collectableCount' = collectableCount - 1
  /\ Goto(t, "rstate")
  /\ UNCHANGED <<threadVars, edenVars, assignedCount, availableCount,
                 trans_lock, trainingDone, vmVars, regVars, beaten>>

\* TransEden::reset makes the eden Available first, ...
ResetState(t) ==
  /\ At(t, "rstate")
  /\ state' = [state EXCEPT ![idx[t]] = "Available"]
  /\ Goto(t, "rtrans")
  /\ UNCHANGED <<threadVars, edenTransID, trained, objs, countVars, trans_lock,
                 trainingDone, vmVars, regVars, beaten>>

\* ... then forgets its transaction.
ResetTrans(t) ==
  /\ At(t, "rtrans")
  /\ edenTransID' = [edenTransID EXCEPT ![idx[t]] = NoTrans]
  /\ Goto(t, "rassigned")
  /\ UNCHANGED <<threadVars, state, trained, objs, countVars, trans_lock,
                 trainingDone, vmVars, regVars, beaten>>

ResetDecAssigned(t) ==
  /\ At(t, "rassigned")
  /\ assignedCount' = assignedCount - 1
  /\ Goto(t, "ravail")
  /\ UNCHANGED <<threadVars, edenVars, availableCount, collectableCount,
                 trans_lock, trainingDone, vmVars, regVars, beaten>>

\* Mutant of ResetIncAvailable: the eden is not counted as available.
ResetUnavailable(t) ==
  /\ At(t, "ravail")
  /\ Goto(t, "rclear")
  /\ UNCHANGED <<threadVars, edenVars, countVars, trans_lock, trainingDone,
                 vmVars, regVars, beaten>>

ResetIncAvailable(t) ==
  /\ At(t, "ravail")
  /\ availableCount' = availableCount + 1
  /\ Goto(t, "rclear")
  /\ UNCHANGED <<threadVars, edenVars, assignedCount, collectableCount,
                 trans_lock, trainingDone, vmVars, regVars, beaten>>

\* clear(): the space is emptied last.
ResetClear(t) ==
  /\ At(t, "rclear")
  /\ objs' = [objs EXCEPT ![idx[t]] = {}]
  /\ didSomething' = [didSomething EXCEPT ![t] = TRUE]
  /\ idx' = [idx EXCEPT ![t] = @ + 1]
  /\ Goto(t, "rscan")
  /\ UNCHANGED <<threadVars, state, edenTransID, trained, countVars, trans_lock,
                 trainingDone, vmVars, ret, got, wantTlab, beaten>>

-----------------------------------------------------------------------------
(* Safepoints and VM operations *)

\* Mutant of SafepointBegin: the count of collections is not compared.
SafepointBeginAnyway(t) ==
  /\ AtSafe(t, "vmop")
  /\ safepoint' = TRUE
  /\ requester' = t
  /\ UNCHANGED <<threadVars, edenVars, countVars, trans_lock, trainingDone, pc,
                 regVars, beaten>>

\* VM_GC_Operation::doit_prologue under Heap_lock: the operation is queued
\* unless total_collections moved since it was built.
SafepointBegin(t) ==
  /\ AtSafe(t, "vmop")
  /\ ~beaten[t]
  /\ safepoint' = TRUE
  /\ requester' = t
  /\ UNCHANGED <<threadVars, edenVars, countVars, trans_lock, trainingDone, pc,
                 regVars, beaten>>

SkipOperation(t) ==
  /\ AtSafe(t, "vmop")
  /\ beaten[t]
  /\ Call(t, "route")
  /\ beaten' = [beaten EXCEPT ![t] = FALSE]
  /\ UNCHANGED <<threadVars, edenVars, countVars, trans_lock, trainingDone,
                 vmVars, idx, got, wantTlab, didSomething>>

\* Some other thread's collection of the local young or the whole heap.
SafepointBeginGC ==
  /\ "gc" \in Env
  /\ ~safepoint
  /\ safepoint' = TRUE
  /\ requester' = NoThread
  /\ UNCHANGED <<threadVars, edenVars, countVars, trans_lock, trainingDone, pc,
                 regVars, beaten>>

\* SafepointSynchronize::begin waits for every thread.
AllSafe == \A t \in Threads : pc[t] \in SafePCs

\* Mutant of Collection: the TLABs are not retired.
CollectionKeepsTlabs(by) ==
  /\ beaten' = [t \in Threads |-> pc[t] = "vmop" /\ t # by]
  /\ UNCHANGED tlab

\* gc_prologue retires every TLAB; increment_total_collections defeats the
\* operations that were built before it.
Collection(by) ==
  /\ tlab' = [t \in Threads |-> NULL]
  /\ beaten' = [t \in Threads |-> pc[t] = "vmop" /\ t # by]

Resume ==
  /\ safepoint' = FALSE
  /\ requester' = NoThread

\* Mutant of FirstCollectable: any eden in use will do.
FirstInUse(e) ==
  /\ state[e] # "Available"
  /\ \A f \in 0 .. e - 1 : state[f] = "Available"

\* The eden GenCollectedHeap::collectTransEden picks; id is ignored if any
\* eden is Collectable.
FirstCollectable(e) ==
  /\ state[e] = "Collectable"
  /\ \A f \in 0 .. e - 1 : state[f] # "Collectable"

\* Mutant of ResetEden: the eden keeps the id of its transaction.
ResetEdenKeepsID(e) ==
  /\ state' = [state EXCEPT ![e] = "Available"]
  /\ assignedCount' = assignedCount - 1
  /\ availableCount' = availableCount + 1
  /\ objs' = [objs EXCEPT ![e] = {}]
  /\ UNCHANGED edenTransID

\* Mutant of ResetEden: _availableCount is not incremented.
ResetEdenUncounted(e) ==
  /\ state' = [state EXCEPT ![e] = "Available"]
  /\ edenTransID' = [edenTransID EXCEPT ![e] = NoTrans]
  /\ assignedCount' = assignedCount - 1
  /\ objs' = [objs EXCEPT ![e] = {}]
  /\ UNCHANGED availableCount

\* reset_transEden followed by clear, at a safepoint.
ResetEden(e) ==
  /\ state' = [state EXCEPT ![e] = "Available"]
  /\ edenTransID' = [edenTransID EXCEPT ![e] = NoTrans]
  /\ assignedCount' = assignedCount - 1
  /\ availableCount' = availableCount + 1
  /\ objs' = [objs EXCEPT ![e] = {}]

\* Mutant of CollectByReset: the space is not cleared.
CollectWithoutClear(e) ==
  /\ trained[e] /\ AVOID_COLLECT_TRAINED
  /\ collectableCount' = collectableCount - 1
  /\ state' = [state EXCEPT ![e] = "Available"]
  /\ edenTransID' = [edenTransID EXCEPT ![e] = NoTrans]
  /\ assignedCount' = assignedCount - 1
  /\ availableCount' = availableCount + 1
  /\ UNCHANGED <<objs, trainingDone>>

\* TransNewGeneration::collectTransEden of a Collectable eden.
CollectByReset(e) ==
  /\ trained[e] /\ AVOID_COLLECT_TRAINED
  /\ collectableCount' = collectableCount - 1
  /\ ResetEden(e)
  /\ UNCHANGED trainingDone

\* collection_attempt_is_safe() is false: return at once.
CollectUnsafe(e) ==
  /\ ~(trained[e] /\ AVOID_COLLECT_TRAINED)
  /\ "unsafe" \in Env
  /\ collectableCount' = collectableCount - 1
  /\ UNCHANGED <<state, edenTransID, objs, assignedCount, availableCount,
                 trainingDone>>

\* Mutant of CollectByEvacuation: _collectableCount is not decremented.
EvacuateUncounted(e) ==
  /\ ~(trained[e] /\ AVOID_COLLECT_TRAINED)
  /\ ResetEden(e)
  /\ UNCHANGED <<collectableCount, trainingDone>>

\* Every survivor is copied to the old generation; trainingResidual may end
\* the training.
CollectByEvacuation(e) ==
  /\ ~(trained[e] /\ AVOID_COLLECT_TRAINED)
  /\ collectableCount' = collectableCount - 1
  /\ ResetEden(e)
  /\ \/ UNCHANGED trainingDone
     \/ ExamineResiduals /\ trainingDone' = TRUE

\* Promotion fails: the count is given back, the state stays Collecting.
CollectFails(e) ==
  /\ ~(trained[e] /\ AVOID_COLLECT_TRAINED)
  /\ "promotion_failure" \in Env
  /\ state' = [state EXCEPT ![e] = "Collecting"]
  /\ UNCHANGED <<edenTransID, objs, countVars, trainingDone>>

\* VM_CollectTransEden::doit, then the requesting thread goes on.
CollectTransEden(t) ==
  /\ safepoint /\ requester = t /\ AllSafe
  /\ \/ /\ Collection(t)
        /\ \/ \E e \in Edens :
                /\ FirstCollectable(e)
                /\ CollectByReset(e) \/ CollectUnsafe(e)
                     \/ CollectByEvacuation(e) \/ CollectFails(e)
           \/ /\ \A e \in Edens : state[e] # "Collectable"
              /\ UNCHANGED <<state, edenTransID, objs, countVars, trainingDone>>
     \/ /\ "gc_locker" \in Env     \* GC_locker::check_active_before_gc()
        /\ UNCHANGED <<tlab, beaten, state, edenTransID, objs, countVars,
                       trainingDone>>
  /\ Resume
  /\ Call(t, "route")
  /\ UNCHANGED <<transID, transEdenID, pooled, monitored, trained, trans_lock,
                 idx, got, wantTlab, didSomething>>

\* do_type_based_collection: a young collection leaves the edens alone, a
\* complete one compacts their survivors into the old and the local young
\* generation, never into an eden (CompactibleSpace::forward).
OtherCollection ==
  /\ safepoint /\ requester = NoThread /\ AllSafe
  /\ Collection(NoThread)
  /\ \/ UNCHANGED <<state, edenTransID, objs, countVars>>
     \/ /\ objs' = [e \in Edens |-> {}]
        /\ IF DebugTypeGenGC       \* reset_transEdens
             THEN /\ state' = [e \in Edens |-> "Available"]
                  /\ edenTransID' = [e \in Edens |-> NoTrans]
                  /\ assignedCount' = 0
                  /\ availableCount' = MAX_TRANSEDEN
                  /\ collectableCount' = 0
             ELSE UNCHANGED <<state, edenTransID, countVars>>
  /\ Resume
  /\ UNCHANGED <<transID, transEdenID, pooled, monitored, trained, trans_lock,
                 trainingDone, pc, regVars>>

-----------------------------------------------------------------------------
\* Steps a thread must take once it is inside the VM.
Internal(t) ==
  \/ Begin(t) \/ EndCheck(t) \/ EndState(t) \/ EndCount(t) \/ EndReset(t)
  \/ Retire(t) \/ GateCollectable(t) \/ GateAvailable(t) \/ Returned(t)
  \/ Retry(t) \/ Lock(t) \/ Cached(t) \/ Scan(t) \/ Take(t) \/ Taken(t)
  \/ ResetScan(t) \/ ResetDecCollectable(t) \/ ResetState(t) \/ ResetTrans(t)
  \/ ResetDecAssigned(t) \/ ResetIncAvailable(t) \/ ResetClear(t)
  \/ SafepointBegin(t) \/ SkipOperation(t) \/ CollectTransEden(t)

\* What the program does when it likes.
Application(t) ==
  \/ transCheckBeforeRun(t) \/ StartTransaction(t) \/ AllocInTlab(t)
  \/ Allocate(t) \/ Park(t) \/ AwaitEntry(t) \/ Exit(t)

Next ==
  \/ \E t \in Threads : Internal(t) \/ Application(t)
  \/ SafepointBeginGC
  \/ OtherCollection

Spec == Init /\ [][Next]_vars

\* A thread inside the VM keeps running, and the VM thread serves the
\* operation that was queued (SafepointSynchronize::begin holds the others).
Fairness == \A t \in Threads : WF_vars(Internal(t))

FairSpec == Spec /\ Fairness

-----------------------------------------------------------------------------
(* Properties *)

\* Every field and register holds a value of its C++ type.
TypeOK ==
  /\ transID \in [Threads -> TransIDs \cup {NoTrans}]
  /\ transEdenID \in [Threads -> EdenOrNull]
  /\ pooled \in [Threads -> BOOLEAN]
  /\ monitored \in [Threads -> BOOLEAN]
  /\ tlab \in [Threads -> EdenOrNull]
  /\ state \in [Edens -> EdenStates]
  /\ edenTransID \in [Edens -> TransIDs \cup {NoTrans}]
  /\ trained \in [Edens -> BOOLEAN]
  /\ objs \in [Edens -> SUBSET (TransIDs \cup {NoTrans})]
  /\ assignedCount \in Int
  /\ availableCount \in Int
  /\ collectableCount \in Int
  /\ trans_lock \in Threads \cup {NoThread}
  /\ trainingDone \in BOOLEAN
  /\ safepoint \in BOOLEAN
  /\ requester \in Threads \cup {NoThread}
  /\ pc \in [Threads -> PCs]
  /\ ret \in [Threads -> {"none", "route", "should", "alloc", "park", "exit"}]
  /\ idx \in [Threads -> 0 .. MAX_TRANSEDEN]
  /\ got \in [Threads -> EdenOrNull]
  /\ wantTlab \in [Threads -> BOOLEAN]
  /\ didSomething \in [Threads -> BOOLEAN]
  /\ beaten \in [Threads -> BOOLEAN]

\* Objects of two transactions never share an eden, and an eden offered to
\* the next transaction is empty (why park() and await() retire the TLAB
\* before the worker's next transaction can allocate).
Isolation ==
  \A e \in Edens : /\ objs[e] \subseteq {edenTransID[e]}
                   /\ state[e] = "Available" => objs[e] = {}

\* The thread that holds e: it runs e's transaction, or is taking e.
Holds(t, e) ==
  \/ /\ transID[t] # NoTrans /\ transEdenID[t] = e
     /\ edenTransID[e] = transID[t]
     /\ pc[t] \notin {"endcount", "endreset"}
  \/ pc[t] \in {"take", "taken"} /\ idx[t] = e

\* No Assigned eden is leaked: some running thread will publish it when its
\* transaction ends, and only one thread will.
AssignedHasOneOwner ==
  \A e \in Edens : state[e] = "Assigned" =>
    \E t \in Threads : Holds(t, e) /\ \A u \in Threads \ {t} : ~Holds(u, e)

\* A TLAB lies in the eden of its thread's transaction; a thread whose eden
\* is already published (park() retires last) still blocks its reuse.
TlabInOwnEden ==
  \A t \in Threads : tlab[t] # NULL =>
    /\ state[tlab[t]] \in {"Assigned", "Collectable"}
    /\ transID[t] = edenTransID[tlab[t]] \/ pc[t] = "retire"

ThreadsAt(labels) == {t \in Threads : pc[t] \in labels}
EdensIn(states) == {e \in Edens : state[e] \in states}

\* _assignedCount and _availableCount, kept with cmpxchg, agree with the
\* edens up to the steps that are half done: the gate of the allocation path
\* and getTransEdenToAllocate decide on them.
PoolAccounting ==
  LET taken == Cardinality(Edens \ EdensIn({"Available"}))
  IN  /\ assignedCount = taken - Cardinality(ThreadsAt({"take"}))
           + Cardinality(ThreadsAt({"rtrans", "rassigned"}))
      /\ availableCount = MAX_TRANSEDEN - taken
           + Cardinality(ThreadsAt({"take", "taken"}))
           - Cardinality(ThreadsAt({"rtrans", "rassigned", "ravail"}))

\* _collectableCount is the number of edens that wait to be collected, once
\* each thread that ends a transaction or resets an eden has done both of its
\* steps: "we decreased the collectableCount at the beginning, now we should
\* increase it since we are not done with this collection".
CollectableAccounting ==
  collectableCount = Cardinality(EdensIn({"Collectable"}))
    - Cardinality(ThreadsAt({"endcount", "rstate"}))

\* A collection of a transaction eden that stops the world finds an eden to
\* collect: the gate read the counts before the safepoint, and an operation
\* that lost the race is skipped.
CollectionHasWork ==
  (safepoint /\ requester # NoThread /\ AllSafe) => EdensIn({"Collectable"}) # {}

\* "allocate into TransNewGen, but the transEden is NULL, check!": once
\* should_allocate chose this generation, par_allocate gets an eden.
AllocateFindsEden ==
  \A t \in Threads : pc[t] = "returned" /\ ret[t] = "alloc" => got[t] # NULL

\* The VM thread takes trans_lock at a safepoint (should_allocate on behalf
\* of a failed request): no stopped thread may hold it.
LockFreeAtSafepoint == AllSafe => trans_lock = NoThread

\* Only the edens of ended transactions, or all of them after a complete
\* collection, go back to the pool.
OnlyEndedEdensAreFreed ==
  [][\A e \in Edens : state[e] # "Available" /\ state'[e] = "Available" =>
       state[e] = "Collectable" \/ (safepoint /\ requester = NoThread)]_vars

\* An eden is published by the thread whose transaction owns it, never by a
\* thread that lost it to a reset of the pool (the reason
\* set_transEden_collectable compares the ids).
OnlyOwnerPublishes ==
  [][\A e \in Edens : state[e] # "Collectable" /\ state'[e] = "Collectable" =>
       /\ state[e] = "Assigned"
       /\ \E t \in Threads : /\ transID[t] = edenTransID[e]
                             /\ transEdenID[t] = e /\ pc[t] = "endstate"]_vars

\* A worker that finds the pool exhausted while an ended transaction still
\* occupies an eden gets the pool moving again.
PoolRecovers ==
  (\E t \in Threads : At(t, "gate1") /\ availableCount = 0
                      /\ collectableCount >= 1)
    ~> EdensIn({"Available"}) # {}

Pool == INSTANCE TransPool WITH
  owner <- [e \in Edens |-> IF state[e] = "Available" THEN NoTrans
                                                      ELSE edenTransID[e]],
  ended <- [e \in Edens |-> state[e] \in {"Collectable", "Collecting"}],
  heap  <- objs

\* The pool keeps the promise of TransPool.
ImplementsPool == Pool!PoolSpec
=============================================================================
