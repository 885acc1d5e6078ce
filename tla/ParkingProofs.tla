--------------------------- MODULE ParkingProofs ---------------------------
(***************************************************************************)
(* The safety of PlatformEvent and Parker for any number of unparking      *)
(* threads: no waiter is stranded with its permit set, and a park of a     *)
(* PlatformEvent takes the permit exactly when it returns.  The inductive  *)
(* invariant adds to these what the position of the parking thread says of *)
(* the mutex, the condition variable, _nParked and the store buffer, and   *)
(* that a Parker::unpark that will not signal has seen a permit that was   *)
(* there before the thread began to wait.                                  *)
(***************************************************************************)
EXTENDS Parking, TLAPS

EventPCs == {"test", "park", "lock", "loop", "wait", "decide", "store"}
ParkerPCs == {"test", "park", "clear", "enter", "try", "locked", "loop", "wait"}

\* What the position of the parking thread says.
PosInv ==
  /\ kind = "PlatformEvent" => pc \in EventPCs /\ ~pending
  /\ kind = "Parker" => pc \in ParkerPCs
  /\ waiting <=> pc = "wait"
  /\ signalled => waiting
  /\ mutex = "parker" <=> pc \in {"loop", "decide", "store", "locked"}
  /\ pc \in {"try", "locked", "wait", "loop"} => ~pending
  /\ nParked = IF kind = "PlatformEvent" /\ pc \in {"loop", "wait", "decide"} THEN 1 ELSE 0

\* The word, for the two kinds.
WordInv ==
  /\ pc \in {"test", "park"} \/ kind = "Parker" => word >= 0
  /\ kind = "PlatformEvent" /\ pc = "store" /\ result = "OS_OK" => word >= 0

\* What the position of an unparker says.
UnparkInv(u) ==
  /\ upc[u] = "write" <=> mutex = u
  /\ upc[u] = "write" => kind = "Parker"
  /\ upc[u] = "ulock" => kind = "PlatformEvent"
  /\ upc[u] = "write" /\ pc = "wait" => seen[u] = word

\* The signal a waiter with a permit can count on.
SignalInv ==
  pc = "wait" /\ Permit /\ ~signalled => \E u \in Unparkers : upc[u] \in {"ulock", "signal"}

\* The inductive invariant.
PInv ==
  /\ TypeOK /\ PosInv /\ WordInv /\ SignalInv
  /\ \A u \in Unparkers : UnparkInv(u)

USE ParkingAssumption DEF options, condvars, Goto, UGoto

\* Test keeps the invariant.
LEMMA TestKeeps ==
  ASSUME PInv, Test
  PROVE  PInv'
<1>0. TypeOK /\ PosInv /\ WordInv /\ SignalInv
  BY DEF PInv
<1>1. TypeOK'
  <2>1. word' \in {0, word} /\ pc' \in {"test", "park"}
    BY <1>0 DEF Test
  <2>2. pending' \in BOOLEAN /\ flag' \in BOOLEAN
    <3>1. pending \in BOOLEAN /\ flag \in BOOLEAN
      BY <1>0 DEF TypeOK
    <3>2. QED
      BY <3>1, Zenon DEF Test
  <2>3. word' \in -1..1 /\ word' >= 0
    BY <1>0, <2>1 DEF Test, TypeOK, WordInv
  <2>4. QED
    BY <1>0, <2>2, <2>3 DEF Test, TypeOK
<1>2. PosInv'
  BY <1>0 DEF Test, TypeOK, PosInv, UnparkInv, EventPCs, ParkerPCs
<1>3. WordInv'
  BY <1>0 DEF Test, TypeOK, PosInv, WordInv, UnparkInv
<1>4. SignalInv'
  BY <1>0 DEF Test, TypeOK, PosInv, WordInv, SignalInv, Permit, Blocking, UnparkInv
<1>5. ASSUME NEW v \in Unparkers PROVE UnparkInv(v)'
  <2>1. UnparkInv(v)
    BY DEF PInv
  <2>2. QED
    BY <1>0, <2>1 DEF Test, TypeOK, PosInv, WordInv, UnparkInv
<1>6. QED
  BY <1>1, <1>2, <1>3, <1>4, <1>5 DEF PInv

\* Wakeup keeps the invariant.
LEMMA WakeupKeeps ==
  ASSUME PInv, Wakeup
  PROVE  PInv'
<1>0. TypeOK /\ PosInv /\ WordInv /\ SignalInv
  BY DEF PInv
<1>1. TypeOK'
  BY Zenon, <1>0 DEF Wakeup, CondReturn, TypeOK, PosInv, WordInv, UnparkInv
<1>2. PosInv'
  BY <1>0 DEF Wakeup, CondReturn, TypeOK, PosInv, UnparkInv, EventPCs, ParkerPCs
<1>3. WordInv'
  BY <1>0 DEF Wakeup, CondReturn, TypeOK, PosInv, WordInv, UnparkInv
<1>4. SignalInv'
  BY <1>0
  DEF Wakeup, CondReturn, TypeOK, PosInv, WordInv, SignalInv, Permit, Blocking, UnparkInv
<1>5. ASSUME NEW v \in Unparkers PROVE UnparkInv(v)'
  <2>1. UnparkInv(v)
    BY DEF PInv
  <2>2. QED
    BY <1>0, <2>1 DEF Wakeup, CondReturn, TypeOK, PosInv, WordInv, UnparkInv
<1>6. QED
  BY <1>1, <1>2, <1>3, <1>4, <1>5 DEF PInv

\* SpuriousWakeup keeps the invariant.
LEMMA SpuriousWakeupKeeps ==
  ASSUME PInv, SpuriousWakeup
  PROVE  PInv'
<1>0. TypeOK /\ PosInv /\ WordInv /\ SignalInv
  BY DEF PInv
<1>1. TypeOK'
  BY Zenon, <1>0 DEF SpuriousWakeup, CondReturn, TypeOK, PosInv, WordInv, UnparkInv
<1>2. PosInv'
  BY <1>0 DEF SpuriousWakeup, CondReturn, TypeOK, PosInv, UnparkInv, EventPCs, ParkerPCs
<1>3. WordInv'
  BY <1>0 DEF SpuriousWakeup, CondReturn, TypeOK, PosInv, WordInv, UnparkInv
<1>4. SignalInv'
  BY <1>0
  DEF SpuriousWakeup, CondReturn, TypeOK, PosInv, WordInv, SignalInv, Permit, Blocking,
      UnparkInv
<1>5. ASSUME NEW v \in Unparkers PROVE UnparkInv(v)'
  <2>1. UnparkInv(v)
    BY DEF PInv
  <2>2. QED
    BY <1>0, <2>1 DEF SpuriousWakeup, CondReturn, TypeOK, PosInv, WordInv, UnparkInv
<1>6. QED
  BY <1>1, <1>2, <1>3, <1>4, <1>5 DEF PInv

\* Timeout keeps the invariant.
LEMMA TimeoutKeeps ==
  ASSUME PInv, Timeout
  PROVE  PInv'
<1>0. TypeOK /\ PosInv /\ WordInv /\ SignalInv
  BY DEF PInv
<1>1. TypeOK'
  BY Zenon, <1>0 DEF Timeout, CondReturn, TypeOK, PosInv, WordInv, UnparkInv
<1>2. PosInv'
  BY <1>0 DEF Timeout, CondReturn, TypeOK, PosInv, UnparkInv, EventPCs, ParkerPCs
<1>3. WordInv'
  BY <1>0 DEF Timeout, CondReturn, TypeOK, PosInv, WordInv, UnparkInv
<1>4. SignalInv'
  BY <1>0
  DEF Timeout, CondReturn, TypeOK, PosInv, WordInv, SignalInv, Permit, Blocking, UnparkInv
<1>5. ASSUME NEW v \in Unparkers PROVE UnparkInv(v)'
  <2>1. UnparkInv(v)
    BY DEF PInv
  <2>2. QED
    BY <1>0, <2>1 DEF Timeout, CondReturn, TypeOK, PosInv, WordInv, UnparkInv
<1>6. QED
  BY <1>1, <1>2, <1>3, <1>4, <1>5 DEF PInv

\* EventPark keeps the invariant.
LEMMA EventParkKeeps ==
  ASSUME PInv, EventPark
  PROVE  PInv'
<1>0. TypeOK /\ PosInv /\ WordInv /\ SignalInv
  BY DEF PInv
<1>1. TypeOK'
  BY <1>0 DEF EventPark, TypeOK, PosInv, WordInv, UnparkInv
<1>2. PosInv'
  BY <1>0 DEF EventPark, TypeOK, PosInv, UnparkInv, EventPCs, ParkerPCs
<1>3. WordInv'
  BY <1>0 DEF EventPark, TypeOK, PosInv, WordInv, UnparkInv
<1>4. SignalInv'
  BY <1>0 DEF EventPark, TypeOK, PosInv, WordInv, SignalInv, Permit, Blocking, UnparkInv
<1>5. ASSUME NEW v \in Unparkers PROVE UnparkInv(v)'
  <2>1. UnparkInv(v)
    BY DEF PInv
  <2>2. QED
    BY <1>0, <2>1 DEF EventPark, TypeOK, PosInv, WordInv, UnparkInv
<1>6. QED
  BY <1>1, <1>2, <1>3, <1>4, <1>5 DEF PInv

\* EventLock keeps the invariant.
LEMMA EventLockKeeps ==
  ASSUME PInv, EventLock
  PROVE  PInv'
<1>0. TypeOK /\ PosInv /\ WordInv /\ SignalInv
  BY DEF PInv
<1>1. TypeOK'
  BY <1>0 DEF EventLock, TypeOK, PosInv, WordInv, UnparkInv
<1>2. PosInv'
  BY <1>0 DEF EventLock, TypeOK, PosInv, UnparkInv, EventPCs, ParkerPCs
<1>3. WordInv'
  BY <1>0 DEF EventLock, TypeOK, PosInv, WordInv, UnparkInv
<1>4. SignalInv'
  BY <1>0 DEF EventLock, TypeOK, PosInv, WordInv, SignalInv, Permit, Blocking, UnparkInv
<1>5. ASSUME NEW v \in Unparkers PROVE UnparkInv(v)'
  <2>1. UnparkInv(v)
    BY DEF PInv
  <2>2. QED
    BY <1>0, <2>1 DEF EventLock, TypeOK, PosInv, WordInv, UnparkInv
<1>6. QED
  BY <1>1, <1>2, <1>3, <1>4, <1>5 DEF PInv

\* EventLoop keeps the invariant.
LEMMA EventLoopKeeps ==
  ASSUME PInv, EventLoop
  PROVE  PInv'
<1>0. TypeOK /\ PosInv /\ WordInv /\ SignalInv
  BY DEF PInv
<1>1. TypeOK'
  BY Zenon, <1>0 DEF EventLoop, CondWait, TypeOK, PosInv, WordInv, UnparkInv
<1>2. PosInv'
  BY <1>0 DEF EventLoop, CondWait, TypeOK, PosInv, UnparkInv, EventPCs, ParkerPCs
<1>3. WordInv'
  BY <1>0 DEF EventLoop, CondWait, TypeOK, PosInv, WordInv, UnparkInv
<1>4. SignalInv'
  BY <1>0
  DEF EventLoop, CondWait, TypeOK, PosInv, WordInv, SignalInv, Permit, Blocking, UnparkInv
<1>5. ASSUME NEW v \in Unparkers PROVE UnparkInv(v)'
  <2>1. UnparkInv(v)
    BY DEF PInv
  <2>2. QED
    BY <1>0, <2>1 DEF EventLoop, CondWait, TypeOK, PosInv, WordInv, UnparkInv
<1>6. QED
  BY <1>1, <1>2, <1>3, <1>4, <1>5 DEF PInv

\* EventDecide keeps the invariant.
LEMMA EventDecideKeeps ==
  ASSUME PInv, EventDecide
  PROVE  PInv'
<1>0. TypeOK /\ PosInv /\ WordInv /\ SignalInv
  BY DEF PInv
<1>1. TypeOK'
  BY <1>0 DEF EventDecide, TypeOK, PosInv, WordInv, UnparkInv, EventPCs, ParkerPCs
<1>2. PosInv'
  BY <1>0 DEF EventDecide, TypeOK, PosInv, UnparkInv, EventPCs, ParkerPCs
<1>3. WordInv'
  BY <1>0 DEF EventDecide, TypeOK, PosInv, WordInv, UnparkInv, EventPCs, ParkerPCs
<1>4. SignalInv'
  BY <1>0 DEF EventDecide, TypeOK, PosInv, WordInv, SignalInv, Permit, Blocking, UnparkInv
<1>5. ASSUME NEW v \in Unparkers PROVE UnparkInv(v)'
  <2>1. UnparkInv(v)
    BY DEF PInv
  <2>2. QED
    BY <1>0, <2>1 DEF EventDecide, TypeOK, PosInv, WordInv, UnparkInv, EventPCs, ParkerPCs
<1>6. QED
  BY <1>1, <1>2, <1>3, <1>4, <1>5 DEF PInv

\* EventStore keeps the invariant.
LEMMA EventStoreKeeps ==
  ASSUME PInv, EventStore
  PROVE  PInv'
<1>0. TypeOK /\ PosInv /\ WordInv /\ SignalInv
  BY DEF PInv
<1>1. TypeOK'
  BY <1>0 DEF EventStore, TypeOK, PosInv, WordInv, UnparkInv, EventPCs, ParkerPCs
<1>2. PosInv'
  BY <1>0 DEF EventStore, TypeOK, PosInv, UnparkInv, EventPCs, ParkerPCs
<1>3. WordInv'
  BY <1>0 DEF EventStore, TypeOK, PosInv, WordInv, UnparkInv, EventPCs, ParkerPCs
<1>4. SignalInv'
  BY <1>0 DEF EventStore, TypeOK, PosInv, WordInv, SignalInv, Permit, Blocking, UnparkInv
<1>5. ASSUME NEW v \in Unparkers PROVE UnparkInv(v)'
  <2>1. UnparkInv(v)
    BY DEF PInv
  <2>2. QED
    BY <1>0, <2>1 DEF EventStore, TypeOK, PosInv, WordInv, UnparkInv, EventPCs, ParkerPCs
<1>6. QED
  BY <1>1, <1>2, <1>3, <1>4, <1>5 DEF PInv

\* ParkerFast keeps the invariant.
LEMMA ParkerFastKeeps ==
  ASSUME PInv, ParkerFast
  PROVE  PInv'
<1>0. TypeOK /\ PosInv /\ WordInv /\ SignalInv
  BY DEF PInv
<1>1. TypeOK'
  BY <1>0 DEF ParkerFast, TypeOK, PosInv, WordInv, UnparkInv
<1>2. PosInv'
  BY <1>0 DEF ParkerFast, TypeOK, PosInv, UnparkInv, EventPCs, ParkerPCs
<1>3. WordInv'
  BY <1>0 DEF ParkerFast, TypeOK, PosInv, WordInv, UnparkInv
<1>4. SignalInv'
  BY <1>0 DEF ParkerFast, TypeOK, PosInv, WordInv, SignalInv, Permit, Blocking, UnparkInv
<1>5. ASSUME NEW v \in Unparkers PROVE UnparkInv(v)'
  <2>1. UnparkInv(v)
    BY DEF PInv
  <2>2. QED
    BY <1>0, <2>1 DEF ParkerFast, TypeOK, PosInv, WordInv, UnparkInv
<1>6. QED
  BY <1>1, <1>2, <1>3, <1>4, <1>5 DEF PInv

\* ParkerClear keeps the invariant.
LEMMA ParkerClearKeeps ==
  ASSUME PInv, ParkerClear
  PROVE  PInv'
<1>0. TypeOK /\ PosInv /\ WordInv /\ SignalInv
  BY DEF PInv
<1>1. TypeOK'
  BY <1>0 DEF ParkerClear, TypeOK, PosInv, WordInv, UnparkInv, EventPCs, ParkerPCs
<1>2. PosInv'
  BY <1>0 DEF ParkerClear, TypeOK, PosInv, UnparkInv, EventPCs, ParkerPCs
<1>3. WordInv'
  BY <1>0 DEF ParkerClear, TypeOK, PosInv, WordInv, UnparkInv, EventPCs, ParkerPCs
<1>4. SignalInv'
  BY <1>0 DEF ParkerClear, TypeOK, PosInv, WordInv, SignalInv, Permit, Blocking, UnparkInv
<1>5. ASSUME NEW v \in Unparkers PROVE UnparkInv(v)'
  <2>1. UnparkInv(v)
    BY DEF PInv
  <2>2. QED
    BY <1>0, <2>1 DEF ParkerClear, TypeOK, PosInv, WordInv, UnparkInv, EventPCs, ParkerPCs
<1>6. QED
  BY <1>1, <1>2, <1>3, <1>4, <1>5 DEF PInv

\* Drain keeps the invariant.
LEMMA DrainKeeps ==
  ASSUME PInv, Drain
  PROVE  PInv'
<1>0. TypeOK /\ PosInv /\ WordInv /\ SignalInv
  BY DEF PInv
<1>1. TypeOK'
  <2>1. pending' \in BOOLEAN
    BY Zenon DEF Drain
  <2>2. word' \in -1..1 /\ word' >= 0
    BY DEF Drain
  <2>3. QED
    BY <1>0, <2>1, <2>2 DEF Drain, TypeOK
<1>2. PosInv'
  BY <1>0 DEF Drain, TypeOK, PosInv, UnparkInv, EventPCs, ParkerPCs
<1>3. WordInv'
  BY <1>0 DEF Drain, TypeOK, PosInv, WordInv, UnparkInv
<1>4. SignalInv'
  BY <1>0 DEF Drain, TypeOK, PosInv, WordInv, SignalInv, Permit, Blocking, UnparkInv
<1>5. ASSUME NEW v \in Unparkers PROVE UnparkInv(v)'
  <2>1. UnparkInv(v)
    BY DEF PInv
  <2>2. QED
    BY <1>0, <2>1 DEF Drain, TypeOK, PosInv, WordInv, UnparkInv
<1>6. QED
  BY <1>1, <1>2, <1>3, <1>4, <1>5 DEF PInv

\* ParkerEnter keeps the invariant.
LEMMA ParkerEnterKeeps ==
  ASSUME PInv, ParkerEnter
  PROVE  PInv'
<1>0. TypeOK /\ PosInv /\ WordInv /\ SignalInv
  BY DEF PInv
<1>1. TypeOK'
  BY <1>0 DEF ParkerEnter, TypeOK, PosInv, WordInv, UnparkInv, EventPCs, ParkerPCs
<1>2. PosInv'
  BY <1>0 DEF ParkerEnter, TypeOK, PosInv, UnparkInv, EventPCs, ParkerPCs
<1>3. WordInv'
  BY <1>0 DEF ParkerEnter, TypeOK, PosInv, WordInv, UnparkInv, EventPCs, ParkerPCs
<1>4. SignalInv'
  BY <1>0 DEF ParkerEnter, TypeOK, PosInv, WordInv, SignalInv, Permit, Blocking, UnparkInv
<1>5. ASSUME NEW v \in Unparkers PROVE UnparkInv(v)'
  <2>1. UnparkInv(v)
    BY DEF PInv
  <2>2. QED
    BY <1>0, <2>1 DEF ParkerEnter, TypeOK, PosInv, WordInv, UnparkInv, EventPCs, ParkerPCs
<1>6. QED
  BY <1>1, <1>2, <1>3, <1>4, <1>5 DEF PInv

\* ParkerTry keeps the invariant.
LEMMA ParkerTryKeeps ==
  ASSUME PInv, ParkerTry
  PROVE  PInv'
<1>0. TypeOK /\ PosInv /\ WordInv /\ SignalInv
  BY DEF PInv
<1>1. TypeOK'
  BY <1>0 DEF ParkerTry, TypeOK, PosInv, WordInv, UnparkInv, EventPCs, ParkerPCs
<1>2. PosInv'
  BY <1>0 DEF ParkerTry, TypeOK, PosInv, UnparkInv, EventPCs, ParkerPCs
<1>3. WordInv'
  BY <1>0 DEF ParkerTry, TypeOK, PosInv, WordInv, UnparkInv, EventPCs, ParkerPCs
<1>4. SignalInv'
  BY <1>0 DEF ParkerTry, TypeOK, PosInv, WordInv, SignalInv, Permit, Blocking, UnparkInv
<1>5. ASSUME NEW v \in Unparkers PROVE UnparkInv(v)'
  <2>1. UnparkInv(v)
    BY DEF PInv
  <2>2. QED
    BY <1>0, <2>1 DEF ParkerTry, TypeOK, PosInv, WordInv, UnparkInv, EventPCs, ParkerPCs
<1>6. QED
  BY <1>1, <1>2, <1>3, <1>4, <1>5 DEF PInv

\* ParkerLocked keeps the invariant.
LEMMA ParkerLockedKeeps ==
  ASSUME PInv, ParkerLocked
  PROVE  PInv'
<1>0. TypeOK /\ PosInv /\ WordInv /\ SignalInv
  BY DEF PInv
<1>a. kind = "Parker"
  BY <1>0 DEF ParkerLocked, PosInv, TypeOK, EventPCs
<1>1. TypeOK'
  <2>1. word' \in -1..1 /\ word' >= 0
    BY <1>0, <1>a DEF ParkerLocked, TypeOK
  <2>2. waiting' \in BOOLEAN /\ signalled' \in BOOLEAN
    <3>1. waiting \in BOOLEAN /\ signalled \in BOOLEAN
      BY <1>0 DEF TypeOK
    <3>2. QED
      BY <3>1, Zenon DEF ParkerLocked, CondWait
  <2>3. mutex' = NULL
    BY DEF ParkerLocked, CondWait
  <2>4. QED
    BY <1>0, <2>1, <2>2, <2>3 DEF ParkerLocked, TypeOK
<1>2. PosInv'
  BY <1>0 DEF ParkerLocked, CondWait, TypeOK, PosInv, UnparkInv, EventPCs, ParkerPCs
<1>3. WordInv'
  BY <1>0 DEF ParkerLocked, CondWait, TypeOK, PosInv, WordInv, UnparkInv, EventPCs, ParkerPCs
<1>4. SignalInv'
  <2>1. pc' = "wait" => word' = 0
    BY DEF ParkerLocked
  <2>2. kind' = "Parker"
    BY <1>a DEF ParkerLocked
  <2>3. QED
    BY <2>1, <2>2 DEF SignalInv, Permit, Blocking
<1>5. ASSUME NEW v \in Unparkers PROVE UnparkInv(v)'
  <2>1. UnparkInv(v)
    BY DEF PInv
  <2>2. QED
    BY <1>0, <2>1
    DEF ParkerLocked, CondWait, TypeOK, PosInv, WordInv, UnparkInv, EventPCs, ParkerPCs
<1>6. QED
  BY <1>1, <1>2, <1>3, <1>4, <1>5 DEF PInv

\* ParkerWoken keeps the invariant.
LEMMA ParkerWokenKeeps ==
  ASSUME PInv, ParkerWoken
  PROVE  PInv'
<1>0. TypeOK /\ PosInv /\ WordInv /\ SignalInv
  BY DEF PInv
<1>1. TypeOK'
  BY <1>0 DEF ParkerWoken, TypeOK, PosInv, WordInv, UnparkInv
<1>2. PosInv'
  BY <1>0 DEF ParkerWoken, TypeOK, PosInv, UnparkInv, EventPCs, ParkerPCs
<1>3. WordInv'
  BY <1>0 DEF ParkerWoken, TypeOK, PosInv, WordInv, UnparkInv
<1>4. SignalInv'
  BY <1>0 DEF ParkerWoken, TypeOK, PosInv, WordInv, SignalInv, Permit, Blocking, UnparkInv
<1>5. ASSUME NEW v \in Unparkers PROVE UnparkInv(v)'
  <2>1. UnparkInv(v)
    BY DEF PInv
  <2>2. QED
    BY <1>0, <2>1 DEF ParkerWoken, TypeOK, PosInv, WordInv, UnparkInv
<1>6. QED
  BY <1>1, <1>2, <1>3, <1>4, <1>5 DEF PInv

\* Publish keeps the invariant.
LEMMA PublishKeeps ==
  ASSUME PInv, NEW u \in Unparkers, Publish(u)
  PROVE  PInv'
<1>0. TypeOK /\ PosInv /\ WordInv /\ SignalInv /\ UnparkInv(u)
  BY DEF PInv
<1>1. TypeOK'
  BY <1>0 DEF Publish, TypeOK, PosInv, WordInv, UnparkInv
<1>2. PosInv'
  BY <1>0 DEF Publish, TypeOK, PosInv, UnparkInv, EventPCs, ParkerPCs
<1>3. WordInv'
  BY <1>0 DEF Publish, TypeOK, PosInv, WordInv, UnparkInv
<1>4. SignalInv'
  BY <1>0 DEF Publish, TypeOK, PosInv, WordInv, SignalInv, Permit, Blocking, UnparkInv
<1>5. ASSUME NEW v \in Unparkers PROVE UnparkInv(v)'
  <2>1. UnparkInv(v)
    BY DEF PInv
  <2>2. QED
    BY <1>0, <2>1 DEF Publish, TypeOK, PosInv, WordInv, UnparkInv
<1>6. QED
  BY <1>1, <1>2, <1>3, <1>4, <1>5 DEF PInv

\* EventUnpark keeps the invariant.
LEMMA EventUnparkKeeps ==
  ASSUME PInv, NEW u \in Unparkers, EventUnpark(u)
  PROVE  PInv'
<1>0. TypeOK /\ PosInv /\ WordInv /\ SignalInv /\ UnparkInv(u)
  BY DEF PInv
<1>1. TypeOK'
  BY <1>0 DEF EventUnpark, TypeOK, PosInv, WordInv, UnparkInv
<1>2. PosInv'
  BY <1>0 DEF EventUnpark, TypeOK, PosInv, UnparkInv, EventPCs, ParkerPCs
<1>3. WordInv'
  BY <1>0 DEF EventUnpark, TypeOK, PosInv, WordInv, UnparkInv
<1>4. SignalInv'
  BY <1>0 DEF EventUnpark, TypeOK, PosInv, WordInv, SignalInv, Permit, Blocking, UnparkInv
<1>5. ASSUME NEW v \in Unparkers PROVE UnparkInv(v)'
  <2>1. UnparkInv(v)
    BY DEF PInv
  <2>2. QED
    BY <1>0, <2>1 DEF EventUnpark, TypeOK, PosInv, WordInv, UnparkInv
<1>6. QED
  BY <1>1, <1>2, <1>3, <1>4, <1>5 DEF PInv

\* EventAnyWaiters keeps the invariant.
LEMMA EventAnyWaitersKeeps ==
  ASSUME PInv, NEW u \in Unparkers, EventAnyWaiters(u)
  PROVE  PInv'
<1>0. TypeOK /\ PosInv /\ WordInv /\ SignalInv /\ UnparkInv(u)
  BY DEF PInv
<1>1. TypeOK'
  BY <1>0 DEF EventAnyWaiters, Signal, TypeOK, PosInv, WordInv, UnparkInv
<1>2. PosInv'
  BY <1>0 DEF EventAnyWaiters, Signal, TypeOK, PosInv, UnparkInv, EventPCs, ParkerPCs
<1>3. WordInv'
  BY <1>0 DEF EventAnyWaiters, Signal, TypeOK, PosInv, WordInv, UnparkInv
<1>4. SignalInv'
  <2>1. CASE nParked # 0 /\ workaround
    BY Zenon, <1>0, <2>1 DEF EventAnyWaiters, Signal, PosInv, SignalInv
  <2>2. CASE nParked # 0 /\ ~workaround
    <3>1. upc'[u] = "signal"
      BY <1>0, <2>2 DEF EventAnyWaiters, TypeOK
    <3>2. QED
      BY <3>1 DEF SignalInv
  <2>3. CASE nParked = 0
    BY <1>0, <2>3 DEF EventAnyWaiters, PosInv, UnparkInv, SignalInv
  <2>4. QED
    BY <2>1, <2>2, <2>3
<1>5. ASSUME NEW v \in Unparkers PROVE UnparkInv(v)'
  <2>1. UnparkInv(v)
    BY DEF PInv
  <2>2. QED
    BY <1>0, <2>1 DEF EventAnyWaiters, Signal, TypeOK, PosInv, WordInv, UnparkInv
<1>6. QED
  BY <1>1, <1>2, <1>3, <1>4, <1>5 DEF PInv

\* ParkerRead keeps the invariant.
LEMMA ParkerReadKeeps ==
  ASSUME PInv, NEW u \in Unparkers, ParkerRead(u)
  PROVE  PInv'
<1>0. TypeOK /\ PosInv /\ WordInv /\ SignalInv /\ UnparkInv(u)
  BY DEF PInv
<1>1. TypeOK'
  BY <1>0 DEF ParkerRead, TypeOK, PosInv, WordInv, UnparkInv
<1>2. PosInv'
  BY <1>0 DEF ParkerRead, TypeOK, PosInv, UnparkInv, EventPCs, ParkerPCs
<1>3. WordInv'
  BY <1>0 DEF ParkerRead, TypeOK, PosInv, WordInv, UnparkInv
<1>4. SignalInv'
  BY <1>0 DEF ParkerRead, TypeOK, PosInv, WordInv, SignalInv, Permit, Blocking, UnparkInv
<1>5. ASSUME NEW v \in Unparkers PROVE UnparkInv(v)'
  <2>1. UnparkInv(v)
    BY DEF PInv
  <2>2. QED
    BY <1>0, <2>1 DEF ParkerRead, TypeOK, PosInv, WordInv, UnparkInv
<1>6. QED
  BY <1>1, <1>2, <1>3, <1>4, <1>5 DEF PInv

\* ParkerWrite keeps the invariant.
LEMMA ParkerWriteKeeps ==
  ASSUME PInv, NEW u \in Unparkers, ParkerWrite(u)
  PROVE  PInv'
<1>0. TypeOK /\ PosInv /\ WordInv /\ SignalInv /\ UnparkInv(u)
  BY DEF PInv
<1>1. TypeOK'
  BY <1>0 DEF ParkerWrite, Signal, TypeOK, PosInv, WordInv, UnparkInv
<1>2. PosInv'
  BY <1>0 DEF ParkerWrite, Signal, TypeOK, PosInv, UnparkInv, EventPCs, ParkerPCs
<1>3. WordInv'
  BY <1>0 DEF ParkerWrite, Signal, TypeOK, PosInv, WordInv, UnparkInv
<1>4. SignalInv'
  <2>1. seen[u] \in 0..1 /\ kind = "Parker"
    BY <1>0 DEF TypeOK, ParkerWrite, UnparkInv
  <2>2. CASE seen[u] < 1 /\ workaround
    <3>1. pc' = pc /\ ~(seen[u] >= 1)
      BY <2>1, <2>2 DEF ParkerWrite
    <3>2. signalled' = waiting
      BY <2>2, <3>1, Zenon DEF ParkerWrite, Signal
    <3>3. QED
      BY <1>0, <3>1, <3>2 DEF PosInv, SignalInv
  <2>3. CASE seen[u] < 1 /\ ~workaround
    <3>1. upc'[u] = "signal"
      BY <1>0, <2>1, <2>3 DEF ParkerWrite, TypeOK
    <3>2. QED
      BY <3>1 DEF SignalInv
  <2>4. CASE seen[u] >= 1
    <3>1. pc = "wait" => Permit
      BY <1>0, <2>1, <2>4 DEF ParkerWrite, UnparkInv, Permit, Blocking
    <3>2. \A v \in Unparkers : v # u => upc'[v] = upc[v]
      BY <1>0 DEF ParkerWrite, TypeOK
    <3>3. pc' = pc /\ upc[u] = "write"
      BY DEF ParkerWrite
    <3>4. ~(seen[u] < 1)
      BY <2>1, <2>4
    <3>5. signalled' = signalled
      BY <3>4, Zenon DEF ParkerWrite
    <3>6. QED
      BY <1>0, <3>1, <3>2, <3>3, <3>5 DEF SignalInv
  <2>5. QED
    BY <2>1, <2>2, <2>3, <2>4
<1>5. ASSUME NEW v \in Unparkers PROVE UnparkInv(v)'
  <2>1. UnparkInv(v)
    BY DEF PInv
  <2>2. QED
    BY <1>0, <2>1 DEF ParkerWrite, Signal, TypeOK, PosInv, WordInv, UnparkInv
<1>6. QED
  BY <1>1, <1>2, <1>3, <1>4, <1>5 DEF PInv

\* LateSignal keeps the invariant.
LEMMA LateSignalKeeps ==
  ASSUME PInv, NEW u \in Unparkers, LateSignal(u)
  PROVE  PInv'
<1>0. TypeOK /\ PosInv /\ WordInv /\ SignalInv /\ UnparkInv(u)
  BY DEF PInv
<1>1. TypeOK'
  BY <1>0 DEF LateSignal, Signal, TypeOK, PosInv, WordInv, UnparkInv
<1>2. PosInv'
  BY <1>0 DEF LateSignal, Signal, TypeOK, PosInv, UnparkInv, EventPCs, ParkerPCs
<1>3. WordInv'
  BY <1>0 DEF LateSignal, Signal, TypeOK, PosInv, WordInv, UnparkInv
<1>4. SignalInv'
  BY <1>0
  DEF LateSignal, Signal, TypeOK, PosInv, WordInv, SignalInv, Permit, Blocking, UnparkInv
<1>5. ASSUME NEW v \in Unparkers PROVE UnparkInv(v)'
  <2>1. UnparkInv(v)
    BY DEF PInv
  <2>2. QED
    BY <1>0, <2>1 DEF LateSignal, Signal, TypeOK, PosInv, WordInv, UnparkInv
<1>6. QED
  BY <1>1, <1>2, <1>3, <1>4, <1>5 DEF PInv

----------------------------------------------------------------------------
\* The invariant holds at the start and is kept by every step.
THEOREM ParkingInvariant == Spec => []PInv
<1>1. Init => PInv
  <2> SUFFICES ASSUME Init PROVE PInv
    OBVIOUS
  <2>1. TypeOK
    <3>1. /\ workaround \in BOOLEAN /\ pending \in BOOLEAN /\ waiting \in BOOLEAN
          /\ signalled \in BOOLEAN /\ flag \in BOOLEAN /\ timed \in BOOLEAN
      BY Zenon DEF Init
    <3>2. /\ upc \in [Unparkers -> {"idle", "unpark", "ulock", "write", "signal"}]
          /\ seen \in [Unparkers -> 0..1]
      BY DEF Init
    <3>3. QED
      BY <3>1, <3>2 DEF Init, TypeOK
  <2>2. PosInv /\ WordInv /\ SignalInv
    BY DEF Init, PosInv, WordInv, SignalInv, EventPCs, ParkerPCs
  <2>3. ASSUME NEW u \in Unparkers PROVE UnparkInv(u)
    BY DEF Init, UnparkInv
  <2>4. QED
    BY <2>1, <2>2, <2>3 DEF PInv
<1>2. PInv /\ [Next]_vars => PInv'
  <2> SUFFICES ASSUME PInv, [Next]_vars PROVE PInv'
    OBVIOUS
  <2>1. CASE ParkerStep
    BY <2>1, TestKeeps, WakeupKeeps, EventParkKeeps, EventLockKeeps, EventLoopKeeps,
       EventDecideKeeps, EventStoreKeeps, ParkerFastKeeps, ParkerClearKeeps, ParkerEnterKeeps,
       ParkerTryKeeps, ParkerLockedKeeps, ParkerWokenKeeps
    DEF ParkerStep
  <2>2. ASSUME NEW u \in Unparkers, Publish(u) \/ UnparkerStep(u) PROVE PInv'
    BY <2>2, PublishKeeps, EventUnparkKeeps, EventAnyWaitersKeeps, ParkerReadKeeps,
       ParkerWriteKeeps, LateSignalKeeps
    DEF UnparkerStep
  <2>3. CASE UNCHANGED vars
    BY <2>3 DEF vars, PInv, TypeOK, PosInv, WordInv, SignalInv, UnparkInv, Permit, Blocking
  <2>4. QED
    BY <2>1, <2>2, <2>3, SpuriousWakeupKeeps, TimeoutKeeps, DrainKeeps DEF Next
<1>3. QED
  BY <1>1, <1>2, PTL DEF Spec

\* _Event and _nParked stay in their ranges, however many threads unpark.
THEOREM WordInRange == Spec => []TypeOK
<1>1. PInv => TypeOK
  BY DEF PInv
<1>2. QED
  BY <1>1, ParkingInvariant, PTL

\* A waiter whose permit is set has been signalled, or will be by an unpark in progress.
THEOREM WaiterIsSignalled == Spec => []NoStrandedWaiter
<1>1. PInv => NoStrandedWaiter
  BY DEF PInv, SignalInv, NoStrandedWaiter
<1>2. QED
  BY <1>1, ParkingInvariant, PTL

\* The permit of a PlatformEvent is taken by the park that returns, and by nothing else.
THEOREM ParkTakesPermit == Spec => ReturnTakesPermit
<1> DEFINE Taken == Permit /\ ~Permit' => pc' = "test" /\ pc # "test"
<1> DEFINE Returned ==
             pc # "test" /\ pc' = "test" => ~Permit' /\ (result' = "OS_OK" => Permit)
<1>1. ASSUME PInv, kind = "PlatformEvent", ParkerStep PROVE Taken /\ Returned
  <2>0. PosInv /\ WordInv /\ TypeOK
    BY <1>1 DEF PInv
  <2>1. CASE Test
    BY <1>1, <2>0, <2>1 DEF Test, Permit, Blocking, PosInv, TypeOK
  <2>2. CASE Wakeup
    BY <1>1, <2>0, <2>2 DEF Wakeup, CondReturn, Permit, Blocking
  <2>3. CASE EventPark
    BY <1>1, <2>0, <2>3 DEF EventPark, Permit, Blocking, TypeOK
  <2>4. CASE EventLock \/ EventLoop \/ EventDecide
    BY <1>1, <2>0, <2>4 DEF EventLock, EventLoop, EventDecide, CondWait, Permit, Blocking, TypeOK
  <2>5. CASE EventStore
    BY <1>1, <2>0, <2>5 DEF EventStore, Permit, Blocking, WordInv, TypeOK
  <2>6. ~(\/ ParkerFast \/ ParkerClear \/ ParkerEnter \/ ParkerTry \/ ParkerLocked
          \/ ParkerWoken)
    BY <1>1, <2>0
    DEF ParkerFast, ParkerClear, ParkerEnter, ParkerTry, ParkerLocked, ParkerWoken, PosInv,
        EventPCs
  <2>7. QED
    BY <1>1, <2>1, <2>2, <2>3, <2>4, <2>5, <2>6 DEF ParkerStep
<1>2. ASSUME PInv, kind = "PlatformEvent", SpuriousWakeup \/ Timeout \/ Drain
      PROVE  Taken /\ Returned
  BY <1>2 DEF SpuriousWakeup, Timeout, Drain, CondReturn, Permit, Blocking, PInv, PosInv
<1>3. ASSUME PInv, kind = "PlatformEvent", NEW u \in Unparkers, Publish(u) \/ UnparkerStep(u)
      PROVE  Taken /\ Returned
  <2>1. pc' = pc /\ kind' = kind
    BY <1>3
    DEF Publish, UnparkerStep, EventUnpark, EventAnyWaiters, ParkerRead, ParkerWrite, LateSignal
  <2>2. word' = word \/ (word' = word + 1 /\ word \in -1..1)
    BY <1>3
    DEF Publish, UnparkerStep, EventUnpark, EventAnyWaiters, ParkerRead, ParkerWrite, LateSignal,
        PInv, TypeOK, UnparkInv
  <2>3. QED
    BY <2>1, <2>2 DEF Permit, Blocking
<1>4. PInv /\ [Next]_vars => [kind = "PlatformEvent" => Taken /\ Returned]_vars
  BY <1>1, <1>2, <1>3 DEF Next
<1>5. QED
  BY <1>4, ParkingInvariant, PTL DEF Spec, ReturnTakesPermit

============================================================================
