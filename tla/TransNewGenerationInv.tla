----------------------- MODULE TransNewGenerationInv ------------------------
(***************************************************************************)
(* Type correctness of TransNewGeneration, for any number of threads,      *)
(* edens and transaction ids, and any flags; the inductive invariant       *)
(* behind the safety of the pool; and the proof that the birth of a worker *)
(* and the start and the end of its transactions preserve it.              *)
(***************************************************************************)
EXTENDS TransNewGeneration, TLAPS

-----------------------------------------------------------------------------
(* Type correctness *)

\* Where idx[t] is the index of an eden.
IndexPCs == {"take", "taken", "rdec", "rstate", "rtrans", "rassigned", "ravail",
             "rclear"}

TypeInv ==
  /\ TypeOK
  /\ \A t \in Threads : pc[t] \in IndexPCs => idx[t] \in Edens



\* The labels the actions write are control points.
LEMMA Labels ==
  {"unborn", "java", "vmop", "retry", "begin", "gate1", "gate2", "lock",
   "returned", "cached", "scan", "take", "taken", "endcheck", "endstate",
   "endcount", "endreset", "retire", "rscan", "rdec", "rstate", "rtrans",
   "rassigned", "ravail", "rclear"} \subseteq PCs
BY Zenon DEF PCs, SafePCs, ResetPCs, LockPCs, EndPCs

\* The state set up by the constructor is well typed.
LEMMA TypeInit == Init => TypeInv
<1> SUFFICES ASSUME Init
             PROVE  TypeInv
  OBVIOUS
<1>1. /\ transID \in [Threads -> TransIDs \cup {NoTrans}]
      /\ transEdenID \in [Threads -> EdenOrNull]
      /\ pooled \in [Threads -> BOOLEAN]
      /\ monitored \in [Threads -> BOOLEAN]
      /\ tlab \in [Threads -> EdenOrNull]
  BY Zenon DEF Init, EdenOrNull
<1>2. /\ state \in [Edens -> EdenStates]
      /\ edenTransID \in [Edens -> TransIDs \cup {NoTrans}]
      /\ trained \in [Edens -> BOOLEAN]
      /\ objs \in [Edens -> SUBSET (TransIDs \cup {NoTrans})]
  BY Zenon DEF Init, EdenStates
<1>3. /\ assignedCount \in Int
      /\ availableCount \in Int
      /\ collectableCount \in Int
  BY PoolAssumption DEF Init
<1>7. /\ trans_lock \in Threads \cup {NoThread}
      /\ trainingDone \in BOOLEAN
      /\ safepoint \in BOOLEAN
      /\ requester \in Threads \cup {NoThread}
  BY Zenon DEF Init
<1>4. /\ pc \in [Threads -> PCs]
      /\ ret \in [Threads -> {"none", "route", "should", "alloc", "park", "exit"}]
      /\ idx \in [Threads -> 0 .. MAX_TRANSEDEN]
  BY Labels, PoolAssumption DEF Init
<1>5. /\ got \in [Threads -> EdenOrNull]
      /\ wantTlab \in [Threads -> BOOLEAN]
      /\ didSomething \in [Threads -> BOOLEAN]
      /\ beaten \in [Threads -> BOOLEAN]
  BY Zenon DEF Init, EdenOrNull
<1>6. \A t \in Threads : pc[t] \in IndexPCs => idx[t] \in Edens
  BY Zenon DEF Init, IndexPCs
<1> QED
  BY Zenon, <1>1, <1>2, <1>3, <1>4, <1>5, <1>6, <1>7 DEF TypeInv, TypeOK

\* A collection retires every TLAB and makes waiting operations stale.
LEMMA CollectionTypes ==
  ASSUME NEW by, Collection(by)
  PROVE  /\ tlab' \in [Threads -> EdenOrNull]
         /\ beaten' \in [Threads -> BOOLEAN]
BY Zenon DEF Collection, EdenOrNull

\* Every step keeps the types; an eden index is written only by a thread that
\* has compared it with MAX_TRANSEDEN.
LEMMA TypeStep == TypeInv /\ [Next]_vars => TypeInv'
<1> SUFFICES ASSUME TypeInv, [Next]_vars
             PROVE  TypeInv'
  OBVIOUS
<1> USE PoolAssumption, Labels
    DEF TypeInv, TypeOK, IndexPCs, threadVars, edenVars, countVars, vmVars,
        regVars, At, AtSafe, Goto
<1>1. ASSUME NEW t \in Threads, Internal(t) \/ Application(t)
      PROVE  TypeInv'
  <2>1. CASE Begin(t)
    BY <2>1 DEF Begin, EdenOrNull
  <2>2. CASE EndCheck(t)
    BY Zenon, <2>2 DEF EndCheck
  <2>3. CASE EndState(t)
    BY Zenon, <2>3 DEF EndState, EdenStates
  <2>4. CASE EndCount(t)
    BY <2>4 DEF EndCount
  <2>5. CASE EndReset(t)
    BY Zenon, <2>5 DEF EndReset
  <2>6. CASE Retire(t)
    BY Zenon, <2>6 DEF Retire, EdenOrNull
  <2>7. CASE GateCollectable(t)
    BY <2>7 DEF GateCollectable, Call
  <2>8. CASE GateAvailable(t)
    BY <2>8 DEF GateAvailable, Call
  <2>9. CASE Returned(t)
    <3>1. /\ tlab' \in [Threads -> EdenOrNull]
          /\ objs' \in [Edens -> SUBSET (TransIDs \cup {NoTrans})]
      BY <2>9 DEF Returned
    <3>2. /\ wantTlab' \in [Threads -> BOOLEAN]
          /\ got' \in [Threads -> EdenOrNull]
          /\ ret' \in [Threads -> {"none", "route", "should", "alloc", "park",
                                   "exit"}]
      BY Zenon, <2>9 DEF Returned, Call, EdenOrNull
    <3>3. \E label \in {"java", "lock", "retry"} : Goto(t, label)
      BY Zenon, <2>9 DEF Returned, Call
    <3> QED
      BY <2>9, <3>1, <3>2, <3>3 DEF Returned
  <2>10. CASE Retry(t)
    <3>1. CASE Call(t, "should") /\ UNCHANGED wantTlab
      BY <2>10, <3>1 DEF Retry, Call
    <3>2. CASE /\ Goto(t, "java")
               /\ wantTlab' = [wantTlab EXCEPT ![t] = FALSE]
               /\ UNCHANGED ret
      BY Zenon, <2>10, <3>2 DEF Retry
    <3> QED
      BY Zenon, <2>10, <3>1, <3>2 DEF Retry
  <2>11. CASE Lock(t)
    BY Zenon, <2>11 DEF Lock
  <2>12. CASE Cached(t)
    <3>1. /\ transID' \in [Threads -> TransIDs \cup {NoTrans}]
          /\ transEdenID' \in [Threads -> EdenOrNull]
      BY <2>12 DEF Cached, CachedEden, SearchEden, EdenOrNull
    <3>2. /\ got' \in [Threads -> EdenOrNull]
          /\ trans_lock' \in Threads \cup {NoThread}
      BY <2>12 DEF Cached, CachedEden, SearchEden, Return, EdenOrNull
    <3>3. idx' = idx \/ idx' = [idx EXCEPT ![t] = 0]
                    \/ idx' = [idx EXCEPT ![t] = MAX_TRANSEDEN]
      BY Zenon, <2>12 DEF Cached, CachedEden, SearchEden
    <3>4. \E label \in {"returned", "scan"} : Goto(t, label)
      BY Zenon, <2>12 DEF Cached, CachedEden, SearchEden, Return
    <3> QED
      BY <2>12, <3>1, <3>2, <3>3, <3>4 DEF Cached
  <2>13. CASE Scan(t)
    <3>1. CASE idx[t] = MAX_TRANSEDEN
      <4>1. /\ transID' \in [Threads -> TransIDs \cup {NoTrans}]
            /\ got' \in [Threads -> EdenOrNull]
            /\ trans_lock' \in Threads \cup {NoThread}
        BY <2>13, <3>1 DEF Scan, Return, EdenOrNull
      <4>2. idx' = [idx EXCEPT ![t] = 0] /\ Goto(t, "returned") /\ UNCHANGED state
        BY <2>13, <3>1 DEF Scan, Return
      <4> QED
        BY <2>13, <4>1, <4>2 DEF Scan
    <3>2. CASE idx[t] < MAX_TRANSEDEN /\ state[idx[t]] = "Available"
      <4>1. idx[t] \in Edens
        BY <3>2 DEF Edens
      <4> QED
        BY <2>13, <3>2, <4>1 DEF Scan, EdenStates
    <3>3. CASE idx[t] < MAX_TRANSEDEN /\ state[idx[t]] # "Available"
      BY <2>13, <3>3 DEF Scan
    <3> QED
      BY Zenon, <2>13, <3>1, <3>2, <3>3 DEF Scan
  <2>14. CASE Take(t)
    BY <2>14 DEF Take
  <2>15. CASE Taken(t)
    BY <2>15 DEF Taken, Return, EdenOrNull
  <2>16. CASE ResetScan(t)
    <3>1. CASE idx[t] = MAX_TRANSEDEN
      <4>1. \E label \in {"lock", "vmop"} : Goto(t, label)
        BY <2>16, <3>1 DEF ResetScan, Call
      <4>2. ret' \in [Threads -> {"none", "route", "should", "alloc", "park",
                                  "exit"}]
        BY <2>16, <3>1 DEF ResetScan, Call
      <4>3. /\ idx' = [idx EXCEPT ![t] = 0]
            /\ didSomething' = [didSomething EXCEPT ![t] = FALSE]
            /\ UNCHANGED <<threadVars, edenVars, countVars, trans_lock,
                           trainingDone, vmVars, got, wantTlab, beaten>>
        BY <2>16, <3>1 DEF ResetScan
      <4> QED
        BY <4>1, <4>2, <4>3
    <3>2. CASE pc' # pc /\ idx[t] < MAX_TRANSEDEN
      <4>1. idx[t] \in Edens
        BY <3>2 DEF Edens
      <4> QED
        BY <2>16, <3>2, <4>1 DEF ResetScan
    <3>3. CASE pc' = pc /\ idx[t] < MAX_TRANSEDEN
      BY <2>16, <3>3 DEF ResetScan
    <3> QED
      BY Zenon, <2>16, <3>1, <3>2, <3>3 DEF ResetScan
  <2>17. CASE ResetDecCollectable(t)
    BY <2>17 DEF ResetDecCollectable
  <2>18. CASE ResetState(t)
    BY Zenon, <2>18 DEF ResetState, EdenStates
  <2>19. CASE ResetTrans(t)
    BY Zenon, <2>19 DEF ResetTrans
  <2>20. CASE ResetDecAssigned(t)
    BY <2>20 DEF ResetDecAssigned
  <2>21. CASE ResetIncAvailable(t)
    BY <2>21 DEF ResetIncAvailable
  <2>22. CASE ResetClear(t)
    BY <2>22 DEF ResetClear, Edens
  <2>23. CASE SafepointBegin(t)
    BY Zenon, <2>23 DEF SafepointBegin
  <2>24. CASE SkipOperation(t)
    BY Zenon, <2>24 DEF SkipOperation, Call
  <2>25. CASE CollectTransEden(t)
    <3>1. /\ state' \in [Edens -> EdenStates]
          /\ edenTransID' \in [Edens -> TransIDs \cup {NoTrans}]
          /\ objs' \in [Edens -> SUBSET (TransIDs \cup {NoTrans})]
      BY <2>25 DEF CollectTransEden, CollectByReset, CollectUnsafe,
                   CollectByEvacuation, CollectFails, ResetEden, EdenStates
    <3>2. /\ assignedCount' \in Int
          /\ availableCount' \in Int
          /\ collectableCount' \in Int
      BY <2>25 DEF CollectTransEden, CollectByReset, CollectUnsafe,
                   CollectByEvacuation, CollectFails, ResetEden
    <3>3. trainingDone' \in BOOLEAN
      BY Zenon, <2>25 DEF CollectTransEden, CollectByReset, CollectUnsafe,
                   CollectByEvacuation, CollectFails
    <3>4. /\ tlab' \in [Threads -> EdenOrNull]
          /\ beaten' \in [Threads -> BOOLEAN]
      <4>1. Collection(t) \/ UNCHANGED <<tlab, beaten>>
        BY Zenon, <2>25 DEF CollectTransEden
      <4> QED
        BY Zenon, <4>1, CollectionTypes
    <3>5. /\ ret' = [ret EXCEPT ![t] = "route"]
          /\ Goto(t, "lock")
          /\ safepoint' = FALSE /\ requester' = NoThread
      BY Zenon, <2>25 DEF CollectTransEden, Call, Resume
    <3> QED
      BY Zenon, <2>25, <3>1, <3>2, <3>3, <3>4, <3>5 DEF CollectTransEden
  <2>26. CASE transCheckBeforeRun(t)
    BY <2>26 DEF transCheckBeforeRun, FreshIDs
  <2>27. CASE StartTransaction(t)
    <3>1. transID' \in [Threads -> TransIDs \cup {NoTrans}]
      BY <2>27 DEF StartTransaction, FreshIDs
    <3> QED
      BY <2>27, <3>1 DEF StartTransaction
  <2>28. CASE AllocInTlab(t)
    <3>1. tlab[t] \in Edens
      BY Zenon, <2>28 DEF AllocInTlab, EdenOrNull
    <3>2. objs' \in [Edens -> SUBSET (TransIDs \cup {NoTrans})]
      BY <2>28, <3>1 DEF AllocInTlab
    <3> QED
      BY Zenon, <2>28, <3>2 DEF AllocInTlab
  <2>29. CASE Allocate(t)
    <3>1. /\ tlab' \in [Threads -> EdenOrNull]
          /\ wantTlab' \in [Threads -> BOOLEAN]
      BY <2>29 DEF Allocate, EdenOrNull
    <3> QED
      BY Zenon, <2>29, <3>1 DEF Allocate
  <2>30. CASE Park(t)
    BY Zenon, <2>30 DEF Park
  <2>31. CASE AwaitEntry(t)
    BY <2>31 DEF AwaitEntry, EdenOrNull
  <2>32. CASE Exit(t)
    BY Zenon, <2>32 DEF Exit, EdenOrNull
  <2> QED
    BY ZenonT(30), <1>1, <2>1, <2>2, <2>3, <2>4, <2>5, <2>6, <2>7, <2>8, <2>9, <2>10, <2>11,
       <2>12, <2>13, <2>14, <2>15, <2>16, <2>17, <2>18, <2>19, <2>20, <2>21, <2>22,
       <2>23, <2>24, <2>25, <2>26, <2>27, <2>28, <2>29, <2>30, <2>31, <2>32
    DEF Internal, Application
<1>2. CASE SafepointBeginGC
  BY Zenon, <1>2 DEF SafepointBeginGC
<1>3. CASE OtherCollection
  <2>1. /\ state' \in [Edens -> EdenStates]
        /\ edenTransID' \in [Edens -> TransIDs \cup {NoTrans}]
        /\ objs' \in [Edens -> SUBSET (TransIDs \cup {NoTrans})]
    BY <1>3 DEF OtherCollection, EdenStates
  <2>2. /\ assignedCount' \in Int
        /\ availableCount' \in Int
        /\ collectableCount' \in Int
    BY <1>3 DEF OtherCollection
  <2>3. /\ tlab' \in [Threads -> EdenOrNull]
        /\ beaten' \in [Threads -> BOOLEAN]
    BY Zenon, <1>3, CollectionTypes DEF OtherCollection
  <2> QED
    BY Zenon, <1>3, <2>1, <2>2, <2>3 DEF OtherCollection, Resume
<1>4. CASE UNCHANGED vars
  BY Zenon, <1>4 DEF vars
<1> QED
  BY Zenon, <1>1, <1>2, <1>3, <1>4 DEF Next

\* Every field keeps its C++ type, and no index runs past the edens.
THEOREM TypeCorrect == Spec => []TypeOK
<1>1. TypeInv => TypeOK
  BY Zenon DEF TypeInv
<1> QED
  BY TypeInit, TypeStep, <1>1, PTL DEF Spec

\* Trained edens are never reset outside a safepoint (the default flags).
NonResettable == ~(Pretenure /\ AVOID_COLLECT_TRAINED)

-----------------------------------------------------------------------------
(* The inductive invariant behind Isolation and AssignedHasOneOwner *)

\* trans_lock is held exactly inside getTransEdenToAllocate.
LockInv == \A t \in Threads : (pc[t] \in LockPCs) <=> (trans_lock = t)

InTransaction == {"begin", "gate1", "gate2", "vmop", "lock", "retry", "endcheck",
                  "endstate", "endcount", "endreset"} \cup LockPCs

\* Where in its life a thread has a transaction.
LifeInv ==
  \A t \in Threads :
    /\ pc[t] \notin ResetPCs
    /\ monitored[t] = (pc[t] # "unborn")
    /\ pc[t] = "unborn" => ~pooled[t]
    /\ pooled[t] /\ pc[t] # "begin" => transID[t] = NoTrans
    /\ pc[t] \in {"unborn", "retire"} => transID[t] = NoTrans
    /\ pc[t] \in InTransaction => transID[t] # NoTrans

\* No two threads run the same transaction, no two edens belong to one.
UniqueInv ==
  /\ \A t, u \in Threads : t # u /\ transID[t] = transID[u]
                              => transID[t] = NoTrans
  /\ \A e, f \in Edens : e # f /\ edenTransID[e] = edenTransID[f]
                            => edenTransID[e] = NoTrans

\* An eden that carries the id of a running transaction is the one cached in
\* its thread, and is Assigned until the thread publishes it.
CacheInv ==
  \A t \in Threads, e \in Edens :
    transID[t] # NoTrans /\ edenTransID[e] = transID[t] =>
      /\ pc[t] # "begin"
      /\ transEdenID[t] = e \/ (pc[t] = "taken" /\ idx[t] = e)
      /\ pc[t] \in {"endcount", "endreset"} => state[e] = "Collectable"
      /\ pc[t] \notin {"endcount", "endreset"} => state[e] = "Assigned"

\* The thread's cached eden carries its transaction's id.
Matches(t) == transEdenID[t] \in Edens /\ edenTransID[transEdenID[t]] = transID[t]

\* A thread that publishes an eden, or that should_allocate sent to
\* par_allocate, still has the eden it checked.
MatchInv ==
  \A t \in Threads :
    /\ pc[t] \in {"endstate", "endcount"} => Matches(t)
    /\ pc[t] \in {"lock", "cached"} /\ ret[t] = "alloc" => Matches(t)

\* The eden a thread takes under trans_lock is empty and nobody else's.
TakeInv ==
  \A t \in Threads :
    /\ pc[t] \in {"scan", "take", "taken"} =>
         transEdenID[t] = NULL /\ ret[t] # "alloc"
    /\ pc[t] \in {"take", "taken"} =>
         state[idx[t]] = "Assigned" /\ objs[idx[t]] = {}
    /\ pc[t] = "take" => edenTransID[idx[t]] = NoTrans
    /\ pc[t] = "taken" => edenTransID[idx[t]] = transID[t]

\* The eden getTransEdenToAllocate returned is still the transaction's.
GotInv ==
  \A t \in Threads : pc[t] = "returned" =>
    /\ got[t] # NULL =>
         transID[t] # NoTrans /\ got[t] = transEdenID[t] /\ Matches(t)
    /\ ret[t] = "alloc" => got[t] # NULL

\* An eden on offer is clean; an ended one still has its transaction's id.
EdenInv ==
  \A e \in Edens :
    /\ objs[e] \subseteq {edenTransID[e]}
    /\ state[e] = "Available" => edenTransID[e] = NoTrans /\ objs[e] = {}
    /\ state[e] \in {"Collectable", "Collecting"} => edenTransID[e] # NoTrans

\* Some thread holds every Assigned eden.
OwnerInv ==
  \A e \in Edens : state[e] = "Assigned" => \E t \in Threads : Holds(t, e)

\* An open TLAB lies in the eden of the running transaction, or in the eden
\* its thread has just published.
TlabInv ==
  \A t \in Threads : tlab[t] # NULL =>
    \/ transID[t] # NoTrans /\ edenTransID[tlab[t]] = transID[t]
    \/ pc[t] = "retire" /\ state[tlab[t]] = "Collectable"

\* The thread whose operation the VM thread serves waits for it.
RequestInv == \A t \in Threads : safepoint /\ requester = t => pc[t] = "vmop"

SafeInv == /\ LockInv /\ LifeInv /\ UniqueInv /\ CacheInv /\ MatchInv /\ TakeInv
           /\ GotInv /\ EdenInv /\ OwnerInv /\ TlabInv /\ RequestInv

IInv == TypeInv /\ SafeInv
-----------------------------------------------------------------------------


\* The types the proofs below use.
Types ==
  /\ transID \in [Threads -> TransIDs \cup {NoTrans}]
  /\ transEdenID \in [Threads -> EdenOrNull]
  /\ pooled \in [Threads -> BOOLEAN] /\ monitored \in [Threads -> BOOLEAN]
  /\ tlab \in [Threads -> EdenOrNull]
  /\ state \in [Edens -> EdenStates]
  /\ edenTransID \in [Edens -> TransIDs \cup {NoTrans}]
  /\ objs \in [Edens -> SUBSET (TransIDs \cup {NoTrans})]
  /\ pc \in [Threads -> PCs]
  /\ ret \in [Threads -> {"none", "route", "should", "alloc", "park", "exit"}]
  /\ idx \in [Threads -> 0 .. MAX_TRANSEDEN]
  /\ got \in [Threads -> EdenOrNull]
  /\ \A t \in Threads : pc[t] \in IndexPCs => idx[t] \in Edens
  /\ \A t \in Threads : idx[t] < MAX_TRANSEDEN => idx[t] \in Edens
  /\ NULL \notin Edens
  /\ \A e \in EdenOrNull : e # NULL => e \in Edens

\* They follow from the type invariant; NULL is not an eden.
LEMMA TypesFromTypeInv == TypeInv => Types
<1>1. /\ NULL \notin Edens
      /\ \A e \in EdenOrNull : e # NULL => e \in Edens
      /\ \A i \in 0 .. MAX_TRANSEDEN : i < MAX_TRANSEDEN => i \in Edens
  BY PoolAssumption DEF Edens, EdenOrNull, NULL
<1> QED
  BY Zenon, <1>1 DEF Types, TypeInv, TypeOK

-----------------------------------------------------------------------------
(* The life of a worker *)

\* A worker is born: its id, if it gets one, is nobody's yet.
LEMMA transCheckBeforeRunStep ==
  ASSUME Types, SafeInv, NEW t \in Threads, transCheckBeforeRun(t)
  PROVE  SafeInv'
<1> USE NobodyAssumption
    DEF Types, IndexPCs, threadVars, edenVars, countVars, vmVars, regVars, At,
        AtSafe, Goto, SafeInv
<1>1. LockInv'
  BY Zenon DEF transCheckBeforeRun, FreshIDs, LockInv, LockPCs
<1>2. LifeInv'
  BY ZenonT(90) DEF transCheckBeforeRun, FreshIDs, LifeInv, ResetPCs, LockPCs,
         InTransaction
<1>3. UniqueInv'
  BY DEF transCheckBeforeRun, FreshIDs, UniqueInv
<1>4. CacheInv'
  BY DEF transCheckBeforeRun, FreshIDs, CacheInv
<1>5. MatchInv'
  BY Zenon DEF transCheckBeforeRun, FreshIDs, MatchInv, Matches
<1>6. TakeInv'
  BY DEF transCheckBeforeRun, FreshIDs, TakeInv
<1>7. GotInv'
  BY DEF transCheckBeforeRun, FreshIDs, GotInv, Matches
<1>8. EdenInv'
  BY Zenon DEF transCheckBeforeRun, FreshIDs, EdenInv
<1>9. OwnerInv'
  BY DEF transCheckBeforeRun, FreshIDs, OwnerInv, LifeInv, Holds
<1>10. TlabInv'
  BY DEF transCheckBeforeRun, FreshIDs, TlabInv, LifeInv
<1>11. RequestInv'
  BY Zenon DEF transCheckBeforeRun, FreshIDs, RequestInv
<1> QED
  BY Zenon, <1>1, <1>2, <1>3, <1>4, <1>5, <1>6, <1>7, <1>8, <1>9, <1>10, <1>11

\* A pooled worker has no transaction, hence no eden and no TLAB, when it
\* gets a fresh id.
LEMMA StartTransactionStep ==
  ASSUME Types, SafeInv, NEW t \in Threads, StartTransaction(t)
  PROVE  SafeInv'
<1> USE NobodyAssumption
    DEF Types, IndexPCs, threadVars, edenVars, countVars, vmVars, regVars, At,
        AtSafe, Goto, SafeInv
<1>1. LockInv'
  BY Zenon DEF StartTransaction, FreshIDs, LockInv, LockPCs
<1>2. LifeInv'
  BY DEF StartTransaction, FreshIDs, LifeInv, ResetPCs, LockPCs, InTransaction
<1>3. UniqueInv'
  BY DEF StartTransaction, FreshIDs, UniqueInv
<1>4. CacheInv'
  BY DEF StartTransaction, FreshIDs, CacheInv
<1>5. MatchInv'
  BY DEF StartTransaction, FreshIDs, MatchInv, Matches
<1>6. TakeInv'
  BY DEF StartTransaction, FreshIDs, TakeInv
<1>7. GotInv'
  BY DEF StartTransaction, FreshIDs, GotInv, Matches
<1>8. EdenInv'
  BY Zenon DEF StartTransaction, FreshIDs, EdenInv
<1>9. OwnerInv'
  BY DEF StartTransaction, FreshIDs, OwnerInv, LifeInv, Holds
<1>10. TlabInv'
  BY DEF StartTransaction, FreshIDs, TlabInv, LifeInv
<1>11. RequestInv'
  BY Zenon DEF StartTransaction, FreshIDs, RequestInv
<1> QED
  BY Zenon, <1>1, <1>2, <1>3, <1>4, <1>5, <1>6, <1>7, <1>8, <1>9, <1>10, <1>11

\* No eden carries a fresh id, so forgetting the cached eden loses none.
LEMMA BeginStep ==
  ASSUME Types, SafeInv, NEW t \in Threads, Begin(t)
  PROVE  SafeInv'
<1> USE NobodyAssumption
    DEF Types, IndexPCs, threadVars, edenVars, countVars, vmVars, regVars, At,
        AtSafe, Goto, SafeInv
<1>1. LockInv'
  BY DEF Begin, LockInv, LockPCs
<1>2. LifeInv'
  BY DEF Begin, LifeInv, ResetPCs, LockPCs, InTransaction
<1>3. UniqueInv'
  BY Zenon DEF Begin, UniqueInv
<1>4. CacheInv'
  BY DEF Begin, CacheInv
<1>5. MatchInv'
  BY DEF Begin, MatchInv, Matches
<1>6. TakeInv'
  BY DEF Begin, TakeInv
<1>7. GotInv'
  BY DEF Begin, GotInv, Matches
<1>8. EdenInv'
  BY Zenon DEF Begin, EdenInv
<1>9. OwnerInv'
  BY DEF Begin, OwnerInv, CacheInv, Holds
<1>10. TlabInv'
  BY DEF Begin, TlabInv
<1>11. RequestInv'
  BY Zenon DEF Begin, RequestInv
<1> QED
  BY Zenon, <1>1, <1>2, <1>3, <1>4, <1>5, <1>6, <1>7, <1>8, <1>9, <1>10, <1>11

\* The ids agree exactly when the worker still holds its eden.
LEMMA EndCheckStep ==
  ASSUME Types, SafeInv, NEW t \in Threads, EndCheck(t)
  PROVE  SafeInv'
<1> USE NobodyAssumption
    DEF Types, IndexPCs, threadVars, edenVars, countVars, vmVars, regVars, At,
        AtSafe, Goto, SafeInv
<1>1. LockInv'
  BY Zenon DEF EndCheck, LockInv, LockPCs
<1>2. LifeInv'
  BY Zenon DEF EndCheck, LifeInv, ResetPCs, LockPCs, InTransaction
<1>3. UniqueInv'
  BY Zenon DEF EndCheck, UniqueInv
<1>4. CacheInv'
  BY DEF EndCheck, CacheInv
<1>5. MatchInv'
  BY Zenon DEF EndCheck, MatchInv, Matches
<1>6. TakeInv'
  BY Zenon DEF EndCheck, TakeInv
<1>7. GotInv'
  BY Zenon DEF EndCheck, GotInv, Matches
<1>8. EdenInv'
  BY Zenon DEF EndCheck, EdenInv
<1>9. OwnerInv'
  BY DEF EndCheck, OwnerInv, Holds
<1>10. TlabInv'
  BY Zenon DEF EndCheck, TlabInv
<1>11. RequestInv'
  BY Zenon DEF EndCheck, RequestInv
<1> QED
  BY Zenon, <1>1, <1>2, <1>3, <1>4, <1>5, <1>6, <1>7, <1>8, <1>9, <1>10, <1>11

\* The eden that becomes Collectable is the worker's own.
LEMMA EndStateStep ==
  ASSUME Types, SafeInv, NEW t \in Threads, EndState(t)
  PROVE  SafeInv'
<1> USE NobodyAssumption
    DEF Types, IndexPCs, threadVars, edenVars, countVars, vmVars, regVars, At,
        AtSafe, Goto, SafeInv
<1>1. LockInv'
  BY Zenon DEF EndState, LockInv, LockPCs
<1>2. LifeInv'
  BY Zenon DEF EndState, LifeInv, ResetPCs, LockPCs, InTransaction
<1>3. UniqueInv'
  BY Zenon DEF EndState, UniqueInv
<1>4. CacheInv'
  BY DEF EndState, CacheInv, UniqueInv, MatchInv, Matches, LifeInv,
         InTransaction
<1>5. MatchInv'
  BY Zenon DEF EndState, MatchInv, Matches
<1>6. TakeInv'
  BY DEF EndState, TakeInv, UniqueInv, MatchInv, Matches, LifeInv, InTransaction
<1>7. GotInv'
  BY Zenon DEF EndState, GotInv, Matches
<1>8. EdenInv'
  BY DEF EndState, EdenInv, MatchInv, Matches, LifeInv, InTransaction
<1>9. OwnerInv'
  BY DEF EndState, OwnerInv, Holds
<1>10. TlabInv'
  BY Zenon DEF EndState, TlabInv
<1>11. RequestInv'
  BY Zenon DEF EndState, RequestInv
<1> QED
  BY Zenon, <1>1, <1>2, <1>3, <1>4, <1>5, <1>6, <1>7, <1>8, <1>9, <1>10, <1>11

\* Counting the published eden changes nothing else.
LEMMA EndCountStep ==
  ASSUME Types, SafeInv, NEW t \in Threads, EndCount(t)
  PROVE  SafeInv'
<1> USE NobodyAssumption
    DEF Types, IndexPCs, threadVars, edenVars, countVars, vmVars, regVars, At,
        AtSafe, Goto, SafeInv
<1>1. LockInv'
  BY Zenon DEF EndCount, LockInv, LockPCs
<1>2. LifeInv'
  BY Zenon DEF EndCount, LifeInv, ResetPCs, LockPCs, InTransaction
<1>3. UniqueInv'
  BY Zenon DEF EndCount, UniqueInv
<1>4. CacheInv'
  BY DEF EndCount, CacheInv
<1>5. MatchInv'
  BY Zenon DEF EndCount, MatchInv, Matches
<1>6. TakeInv'
  BY Zenon DEF EndCount, TakeInv
<1>7. GotInv'
  BY Zenon DEF EndCount, GotInv, Matches
<1>8. EdenInv'
  BY Zenon DEF EndCount, EdenInv
<1>9. OwnerInv'
  BY DEF EndCount, OwnerInv, Holds
<1>10. TlabInv'
  BY Zenon DEF EndCount, TlabInv
<1>11. RequestInv'
  BY Zenon DEF EndCount, RequestInv
<1> QED
  BY Zenon, <1>1, <1>2, <1>3, <1>4, <1>5, <1>6, <1>7, <1>8, <1>9, <1>10, <1>11

\* The id is forgotten only after its eden is published.
LEMMA EndResetStep ==
  ASSUME Types, SafeInv, NEW t \in Threads, EndReset(t)
  PROVE  SafeInv'
<1> USE NobodyAssumption
    DEF Types, IndexPCs, threadVars, edenVars, countVars, vmVars, regVars, At,
        AtSafe, Goto, SafeInv
<1>1. LockInv'
  BY Zenon DEF EndReset, LockInv, LockPCs
<1>2. LifeInv'
  BY Zenon DEF EndReset, LifeInv, ResetPCs, LockPCs, InTransaction
<1>3. UniqueInv'
  BY Zenon DEF EndReset, UniqueInv
<1>4. CacheInv'
  BY DEF EndReset, CacheInv
<1>5. MatchInv'
  BY Zenon DEF EndReset, MatchInv, Matches
<1>6. TakeInv'
  BY DEF EndReset, TakeInv
<1>7. GotInv'
  BY Zenon DEF EndReset, GotInv, Matches
<1>8. EdenInv'
  BY Zenon DEF EndReset, EdenInv
<1>9. OwnerInv'
  BY DEF EndReset, OwnerInv, Holds
<1>10. TlabInv'
  BY DEF EndReset, TlabInv, CacheInv
<1>11. RequestInv'
  BY Zenon DEF EndReset, RequestInv
<1> QED
  BY Zenon, <1>1, <1>2, <1>3, <1>4, <1>5, <1>6, <1>7, <1>8, <1>9, <1>10, <1>11

\* Once the TLAB is retired the worker has no tie to its old eden.
LEMMA RetireStep ==
  ASSUME Types, SafeInv, NEW t \in Threads, Retire(t)
  PROVE  SafeInv'
<1> USE NobodyAssumption
    DEF Types, IndexPCs, threadVars, edenVars, countVars, vmVars, regVars, At,
        AtSafe, Goto, SafeInv
<1>1. LockInv'
  BY Zenon DEF Retire, LockInv, LockPCs
<1>2. LifeInv'
  BY ZenonT(90) DEF Retire, LifeInv, ResetPCs, LockPCs, InTransaction
<1>3. UniqueInv'
  BY Zenon DEF Retire, UniqueInv
<1>4. CacheInv'
  BY DEF Retire, CacheInv, LifeInv
<1>5. MatchInv'
  BY Zenon DEF Retire, MatchInv, Matches
<1>6. TakeInv'
  BY Zenon DEF Retire, TakeInv
<1>7. GotInv'
  BY Zenon DEF Retire, GotInv, Matches
<1>8. EdenInv'
  BY Zenon DEF Retire, EdenInv
<1>9. OwnerInv'
  BY DEF Retire, OwnerInv, LifeInv, Holds
<1>10. TlabInv'
  BY Zenon DEF Retire, TlabInv
<1>11. RequestInv'
  BY Zenon DEF Retire, RequestInv
<1> QED
  BY Zenon, <1>1, <1>2, <1>3, <1>4, <1>5, <1>6, <1>7, <1>8, <1>9, <1>10, <1>11

=============================================================================
