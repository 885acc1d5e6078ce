-------------------------- MODULE SafepointProofs --------------------------
(***************************************************************************)
(* The safety of safepoints for any finite number of threads: while _state *)
(* says that the world is stopped, it is.  The proof rests on an inductive *)
(* invariant of four parts: what the position of the VM thread in begin()  *)
(* and end() says of the locks and of _state; what the position of a Java  *)
(* thread says of its state; what the verdict of begin() on a thread       *)
(* (ThreadSafepointState) says of where the thread can be; and that        *)
(* _waiting_to_block counts the threads without a final verdict.           *)
(***************************************************************************)
EXTENDS Safepoint, FiniteSetTheorems, TLAPS

\* The locks, _state and the polls follow the position of the VM thread.
LockInv ==
  /\ vpc # "idle" <=> Threads_lock = VMThread
  /\ Safepoint_lock = IF vpc \in {"arm", "examine", "block", "restart"} THEN VMThread ELSE NULL
  /\ _state = "not_synchronized" <=> vpc \in {"idle", "begin", "restart"}
  /\ _state = "synchronizing" <=> vpc \in {"arm", "examine", "block", "waiting"}
  /\ polling <=> vpc \in {"examine", "block", "waiting", "operate"}

\* The state of a thread follows its position.
PCInv(t) ==
  /\ t \in list <=> pc[t] \notin {"none", "gone"}
  /\ pc[t] = "none" => thread_state[t] = "new"
  /\ pc[t] = "run" => thread_state[t] \notin TransStates
  /\ pc[t] \in {"trans", "arrive"} => thread_state[t] \in TransStates
  /\ pc[t] = "poll" => thread_state[t] = "java"
  /\ pc[t] = "block" => thread_state[t] \in TransStates \cup {"java"}
  /\ pc[t] = "callback" => thread_state[t] = "vm" /\ saved[t] \in {"vm_trans", "java"}
  /\ pc[t] = "stopped" => thread_state[t] = "blocked" /\ saved[t] \in TransStates \cup {"java"}
  /\ pc[t] = "acquire" => thread_state[t] = "blocked"
  /\ pc[t] = "own" => thread_state[t] = "vm" /\ Threads_lock = t

\* The owner of the Threads_lock is at work, or leaves ThreadBlockInVM with the lock.
OwnerInv(t) ==
  Threads_lock = t =>
    \/ pc[t] = "own"
    \/ pc[t] \in {"trans", "arrive"} /\ thread_state[t] = "blocked_trans" /\ dest[t] = "vm"

\* A thread found at_safepoint stays within native code, blocked, or before its read of
\* _state; one that is to call back stays within the VM until it has done so.
SyncInv(t) ==
  /\ pc[t] = "none" => type[t] = "running" /\ ~called_back[t]
  /\ pc[t] = "poll" => vpc = "examine"
  /\ t \in list =>
       /\ vpc \in {"idle", "begin", "arm"} => type[t] = "running"
       /\ type[t] = "running" => ~called_back[t] /\ vpc \in {"idle", "begin", "arm", "examine"}
       /\ type[t] = "at_safepoint" /\ vpc # "restart" =>
            \/ thread_state[t] \in {"native", "blocked"}
            \/ thread_state[t] \in {"native_trans", "blocked_trans"} /\ pc[t] \in {"trans", "block"}
       /\ type[t] = "call_back" /\ called_back[t] =>
            thread_state[t] = "blocked" /\ pc[t] = "stopped"
       /\ type[t] = "call_back" /\ ~called_back[t] =>
            /\ vpc \in {"examine", "block", "waiting"}
            /\ \/ thread_state[t] = "vm" /\ pc[t] \in {"run", "callback"}
               \/ thread_state[t] = "vm_trans" /\ pc[t] \in {"trans", "block"}

ThreadInv(t) == PCInv(t) /\ OwnerInv(t) /\ SyncInv(t)

\* The inductive invariant.
SInv ==
  /\ TypeOK
  /\ LockInv
  /\ \A t \in JavaThreads : ThreadInv(t)
  /\ WaitsForTheRest

----------------------------------------------------------------------------

USE ThreadsAssumption DEF syncvars, typevars, transvars, locks, Goto, SetState

\* The sets of threads that begin() counts are finite.
LEMMA CountIsFinite ==
  ASSUME TypeOK
  PROVE  /\ IsFiniteSet(list) /\ Cardinality(list) \in 0 .. Cardinality(JavaThreads)
         /\ IsFiniteSet(Unaccounted) /\ Cardinality(Unaccounted) \in Nat
<1>1. list \subseteq JavaThreads /\ Unaccounted \subseteq JavaThreads
  BY DEF TypeOK, Unaccounted
<1>2. /\ IsFiniteSet(list) /\ Cardinality(list) <= Cardinality(JavaThreads)
      /\ IsFiniteSet(Unaccounted)
  BY <1>1, FS_Subset
<1>3. /\ Cardinality(list) \in Nat /\ Cardinality(JavaThreads) \in Nat
      /\ Cardinality(Unaccounted) \in Nat
  BY <1>2, FS_CardinalityType
<1>4. QED
  BY <1>2, <1>3

\* A thread that is accounted for lowers the count by one.
LEMMA CountOneLess ==
  ASSUME TypeOK, NEW t \in Unaccounted, Unaccounted' = Unaccounted \ {t}
  PROVE  Cardinality(Unaccounted') = Cardinality(Unaccounted) - 1 /\ Cardinality(Unaccounted) > 0
<1>1. IsFiniteSet(Unaccounted) /\ Cardinality(Unaccounted) \in Nat
  BY CountIsFinite
<1>2. Cardinality(Unaccounted \ {t}) = Cardinality(Unaccounted) - 1
  BY Zenon, <1>1, FS_RemoveElement
<1>3. Cardinality(Unaccounted) # 0
  BY <1>1, FS_EmptySet
<1>4. QED
  BY <1>1, <1>2, <1>3

\* EnterVM keeps the invariant.
LEMMA EnterVMStep ==
  ASSUME SInv, NEW t \in JavaThreads, EnterVM(t)
  PROVE  SInv'
<1>0. TypeOK /\ LockInv /\ WaitsForTheRest
  BY DEF SInv
<1>1. TypeOK'
  BY <1>0 DEF EnterVM, TypeOK, ThreadStates, TransStates, PCs, VMPCs
<1>2. LockInv'
  BY <1>0 DEF EnterVM, LockInv, TypeOK
<1>3. ASSUME NEW u \in JavaThreads PROVE ThreadInv(u)'
  <2>1. ThreadInv(u) /\ ThreadInv(t)
    BY DEF SInv
  <2>2. QED
    BY <1>0, <2>1 DEF EnterVM, ThreadInv, PCInv, OwnerInv, SyncInv, LockInv, TypeOK, TransStates
<1>4. WaitsForTheRest'
  BY <1>0 DEF EnterVM, WaitsForTheRest, Unaccounted, LockInv
<1>5. QED
  BY <1>1, <1>2, <1>3, <1>4 DEF SInv

\* LeaveVM keeps the invariant.
LEMMA LeaveVMStep ==
  ASSUME SInv, NEW t \in JavaThreads, LeaveVM(t)
  PROVE  SInv'
<1>0. TypeOK /\ LockInv /\ WaitsForTheRest
  BY DEF SInv
<1>1. TypeOK'
  BY <1>0 DEF LeaveVM, Transition, TransOf, TypeOK, ThreadStates, TransStates, PCs, VMPCs
<1>2. LockInv'
  BY <1>0 DEF LeaveVM, Transition, TransOf, LockInv, TypeOK
<1>3. ASSUME NEW u \in JavaThreads PROVE ThreadInv(u)'
  <2>1. ThreadInv(u) /\ ThreadInv(t)
    BY DEF SInv
  <2>2. QED
    BY <1>0, <2>1
    DEF LeaveVM, Transition, TransOf, ThreadInv, PCInv, OwnerInv, SyncInv, LockInv, TypeOK,
        TransStates
<1>4. WaitsForTheRest'
  BY <1>0 DEF LeaveVM, Transition, TransOf, WaitsForTheRest, Unaccounted, LockInv
<1>5. QED
  BY <1>1, <1>2, <1>3, <1>4 DEF SInv

\* Return keeps the invariant.
LEMMA ReturnStep ==
  ASSUME SInv, NEW t \in JavaThreads, Return(t)
  PROVE  SInv'
<1>0. TypeOK /\ LockInv /\ WaitsForTheRest
  BY DEF SInv
<1>1. TypeOK'
  BY <1>0 DEF Return, Transition, TransOf, TypeOK, ThreadStates, TransStates, PCs, VMPCs
<1>2. LockInv'
  BY <1>0 DEF Return, Transition, TransOf, LockInv, TypeOK
<1>3. ASSUME NEW u \in JavaThreads PROVE ThreadInv(u)'
  <2>1. ThreadInv(u) /\ ThreadInv(t)
    BY DEF SInv
  <2>2. QED
    BY <1>0, <2>1
    DEF Return, Transition, TransOf, ThreadInv, PCInv, OwnerInv, SyncInv, LockInv, TypeOK,
        TransStates
<1>4. WaitsForTheRest'
  BY <1>0 DEF Return, Transition, TransOf, WaitsForTheRest, Unaccounted, LockInv
<1>5. QED
  BY <1>1, <1>2, <1>3, <1>4 DEF SInv

\* CheckState keeps the invariant.
LEMMA CheckStateStep ==
  ASSUME SInv, NEW t \in JavaThreads, CheckState(t)
  PROVE  SInv'
<1>0. TypeOK /\ LockInv /\ WaitsForTheRest
  BY DEF SInv
<1>1. TypeOK'
  BY <1>0 DEF CheckState, do_call_back, TypeOK, ThreadStates, TransStates, PCs, VMPCs
<1>2. LockInv'
  BY <1>0 DEF CheckState, do_call_back, LockInv, TypeOK
<1>3. ASSUME NEW u \in JavaThreads PROVE ThreadInv(u)'
  <2>1. ThreadInv(u) /\ ThreadInv(t)
    BY DEF SInv
  <2>2. QED
    BY <1>0, <2>1
    DEF CheckState, do_call_back, ThreadInv, PCInv, OwnerInv, SyncInv, LockInv, TypeOK,
        TransStates
<1>4. WaitsForTheRest'
  BY <1>0 DEF CheckState, do_call_back, WaitsForTheRest, Unaccounted, LockInv
<1>5. QED
  BY <1>1, <1>2, <1>3, <1>4 DEF SInv

\* Arrive keeps the invariant.
LEMMA ArriveStep ==
  ASSUME SInv, NEW t \in JavaThreads, Arrive(t)
  PROVE  SInv'
<1>0. TypeOK /\ LockInv /\ WaitsForTheRest
  BY DEF SInv
<1>1. TypeOK'
  BY <1>0 DEF Arrive, TypeOK, ThreadStates, TransStates, PCs, VMPCs
<1>2. LockInv'
  BY <1>0 DEF Arrive, LockInv, TypeOK
<1>3. ASSUME NEW u \in JavaThreads PROVE ThreadInv(u)'
  <2>1. ThreadInv(u) /\ ThreadInv(t)
    BY DEF SInv
  <2>2. QED
    BY <1>0, <2>1 DEF Arrive, ThreadInv, PCInv, OwnerInv, SyncInv, LockInv, TypeOK, TransStates
<1>4. WaitsForTheRest'
  BY <1>0 DEF Arrive, WaitsForTheRest, Unaccounted, LockInv
<1>5. QED
  BY <1>1, <1>2, <1>3, <1>4 DEF SInv

\* Poll keeps the invariant.
LEMMA PollStep ==
  ASSUME SInv, NEW t \in JavaThreads, Poll(t)
  PROVE  SInv'
<1>0. TypeOK /\ LockInv /\ WaitsForTheRest
  BY DEF SInv
<1>1. TypeOK'
  BY <1>0 DEF Poll, TypeOK, ThreadStates, TransStates, PCs, VMPCs
<1>2. LockInv'
  BY <1>0 DEF Poll, LockInv, TypeOK
<1>3. ASSUME NEW u \in JavaThreads PROVE ThreadInv(u)'
  <2>1. ThreadInv(u) /\ ThreadInv(t)
    BY DEF SInv
  <2>2. QED
    BY <1>0, <2>1 DEF Poll, ThreadInv, PCInv, OwnerInv, SyncInv, LockInv, TypeOK, TransStates
<1>4. WaitsForTheRest'
  BY <1>0 DEF Poll, WaitsForTheRest, Unaccounted, LockInv
<1>5. QED
  BY <1>1, <1>2, <1>3, <1>4 DEF SInv

\* PollException keeps the invariant.
LEMMA PollExceptionStep ==
  ASSUME SInv, NEW t \in JavaThreads, PollException(t)
  PROVE  SInv'
<1>0. TypeOK /\ LockInv /\ WaitsForTheRest
  BY DEF SInv
<1>1. TypeOK'
  BY <1>0 DEF PollException, TypeOK, ThreadStates, TransStates, PCs, VMPCs
<1>2. LockInv'
  BY <1>0 DEF PollException, LockInv, TypeOK
<1>3. ASSUME NEW u \in JavaThreads PROVE ThreadInv(u)'
  <2>1. ThreadInv(u) /\ ThreadInv(t)
    BY DEF SInv
  <2>2. QED
    BY <1>0, <2>1
    DEF PollException, ThreadInv, PCInv, OwnerInv, SyncInv, LockInv, TypeOK, TransStates
<1>4. WaitsForTheRest'
  BY <1>0 DEF PollException, WaitsForTheRest, Unaccounted, LockInv
<1>5. QED
  BY <1>1, <1>2, <1>3, <1>4 DEF SInv

\* What block() saves is a state that a thread may stop in.
LEMMA BlockStep ==
  ASSUME SInv, NEW t \in JavaThreads, Block(t)
  PROVE  SInv'
<1>0. TypeOK /\ LockInv /\ WaitsForTheRest
  BY DEF SInv
<1>1. TypeOK'
  <2>1. ThreadInv(t)
    BY DEF SInv
  <2>2. thread_state[t] \in {"java"} \cup TransStates
    BY <2>1 DEF Block, ThreadInv, PCInv
  <2>3. saved' \in [JavaThreads -> {"vm", "java"} \cup TransStates]
    BY <1>0, <2>2 DEF Block, TypeOK
  <2>4. thread_state' \in [JavaThreads -> ThreadStates] /\ pc' \in [JavaThreads -> PCs]
    BY <1>0 DEF Block, TypeOK, ThreadStates, PCs
  <2>5. QED
    BY <1>0, <2>3, <2>4 DEF Block, TypeOK
<1>2. LockInv'
  BY <1>0 DEF Block, LockInv, TypeOK
<1>3. ASSUME NEW u \in JavaThreads PROVE ThreadInv(u)'
  <2>1. ThreadInv(u) /\ ThreadInv(t)
    BY DEF SInv
  <2>2. QED
    BY <1>0, <2>1 DEF Block, ThreadInv, PCInv, OwnerInv, SyncInv, LockInv, TypeOK, TransStates
<1>4. WaitsForTheRest'
  BY <1>0 DEF Block, WaitsForTheRest, Unaccounted, LockInv
<1>5. QED
  BY <1>1, <1>2, <1>3, <1>4 DEF SInv

\* A thread that calls back during begin() is one that begin() waits for.
LEMMA CallBackStep ==
  ASSUME SInv, NEW t \in JavaThreads, CallBack(t)
  PROVE  SInv'
<1>0. TypeOK /\ LockInv /\ WaitsForTheRest
  BY DEF SInv
<1>a. is_synchronizing => t \in Unaccounted /\ type[t] = "call_back"
  <2>1. ThreadInv(t)
    BY DEF SInv
  <2>2. SUFFICES ASSUME is_synchronizing PROVE t \in Unaccounted /\ type[t] = "call_back"
    OBVIOUS
  <2>3. vpc = "waiting" /\ t \in list /\ thread_state[t] = "vm"
    BY <1>0, <2>1, <2>2 DEF CallBack, is_synchronizing, LockInv,
        ThreadInv, PCInv
  <2>4. QED
    BY <1>0, <2>1, <2>3 DEF CallBack, ThreadInv, SyncInv, Unaccounted, TypeOK
<1>b. is_synchronizing =>
        Cardinality(Unaccounted') = Cardinality(Unaccounted) - 1 /\ Cardinality(Unaccounted) > 0
  <2>1. SUFFICES ASSUME is_synchronizing
                 PROVE  Unaccounted' = Unaccounted \ {t}
    BY <1>0, <1>a, CountOneLess
  <2>2. QED
    BY <1>0, <1>a, <2>1 DEF CallBack, Unaccounted, TypeOK
<1>c. is_synchronizing => _waiting_to_block = Cardinality(Unaccounted)
  BY <1>0 DEF is_synchronizing, LockInv, WaitsForTheRest
<1>1. TypeOK'
  <2>1. _waiting_to_block' \in 0 .. Cardinality(JavaThreads)
    <3>1. Cardinality(JavaThreads) \in Nat
      BY FS_CardinalityType
    <3>2. QED
      BY <1>0, <1>b, <1>c, <3>1 DEF CallBack, TypeOK
  <2>2. notified' \in BOOLEAN /\ called_back' \in [JavaThreads -> BOOLEAN]
    BY Zenon, <1>0 DEF CallBack, TypeOK
  <2>3. thread_state' \in [JavaThreads -> ThreadStates] /\ pc' \in [JavaThreads -> PCs]
    BY <1>0 DEF CallBack, TypeOK, ThreadStates, PCs
  <2>4. QED
    BY <1>0, <2>1, <2>2, <2>3 DEF CallBack, TypeOK
<1>2. LockInv'
  BY <1>0 DEF CallBack, is_synchronizing, LockInv, TypeOK
<1>3. ASSUME NEW u \in JavaThreads PROVE ThreadInv(u)'
  <2>1. ThreadInv(u) /\ ThreadInv(t)
    BY DEF SInv
  <2>2. QED
    BY <1>0, <2>1
    DEF CallBack, is_synchronizing, ThreadInv, PCInv, OwnerInv, SyncInv, LockInv, TypeOK,
        TransStates
<1>4. WaitsForTheRest'
  <2>1. CASE is_synchronizing
    BY <1>b, <1>c, <2>1 DEF CallBack, WaitsForTheRest
  <2>2. CASE ~is_synchronizing
    BY <1>0, <2>2 DEF CallBack, WaitsForTheRest, LockInv, is_synchronizing
  <2>3. QED
    BY <2>1, <2>2
<1>5. QED
  BY <1>1, <1>2, <1>3, <1>4 DEF SInv

\* Resume keeps the invariant.
LEMMA ResumeStep ==
  ASSUME SInv, NEW t \in JavaThreads, Resume(t)
  PROVE  SInv'
<1>0. TypeOK /\ LockInv /\ WaitsForTheRest
  BY DEF SInv
<1>1. TypeOK'
  BY <1>0 DEF Resume, TypeOK, ThreadStates, TransStates, PCs, VMPCs
<1>2. LockInv'
  BY SMTT(20), <1>0 DEF Resume, LockInv, TypeOK
<1>3. ASSUME NEW u \in JavaThreads PROVE ThreadInv(u)'
  <2>1. ThreadInv(u) /\ ThreadInv(t)
    BY DEF SInv
  <2>2. QED
    BY <1>0, <2>1 DEF Resume, ThreadInv, PCInv, OwnerInv, SyncInv, LockInv, TypeOK, TransStates
<1>4. WaitsForTheRest'
  BY <1>0 DEF Resume, WaitsForTheRest, Unaccounted, LockInv
<1>5. QED
  BY <1>1, <1>2, <1>3, <1>4 DEF SInv

\* LockThreads keeps the invariant.
LEMMA LockThreadsStep ==
  ASSUME SInv, NEW t \in JavaThreads, LockThreads(t)
  PROVE  SInv'
<1>0. TypeOK /\ LockInv /\ WaitsForTheRest
  BY DEF SInv
<1>1. TypeOK'
  BY <1>0 DEF LockThreads, Transition, TransOf, TypeOK, ThreadStates, TransStates, PCs, VMPCs
<1>2. LockInv'
  BY <1>0 DEF LockThreads, Transition, TransOf, LockInv, TypeOK
<1>3. ASSUME NEW u \in JavaThreads PROVE ThreadInv(u)'
  <2>1. ThreadInv(u) /\ ThreadInv(t)
    BY DEF SInv
  <2>2. QED
    BY <1>0, <2>1
    DEF LockThreads, Transition, TransOf, ThreadInv, PCInv, OwnerInv, SyncInv, LockInv, TypeOK,
        TransStates
<1>4. WaitsForTheRest'
  BY <1>0 DEF LockThreads, Transition, TransOf, WaitsForTheRest, Unaccounted, LockInv
<1>5. QED
  BY <1>1, <1>2, <1>3, <1>4 DEF SInv

\* Acquire keeps the invariant.
LEMMA AcquireStep ==
  ASSUME SInv, NEW t \in JavaThreads, Acquire(t)
  PROVE  SInv'
<1>0. TypeOK /\ LockInv /\ WaitsForTheRest
  BY DEF SInv
<1>1. TypeOK'
  BY <1>0 DEF Acquire, Transition, TransOf, TypeOK, ThreadStates, TransStates, PCs, VMPCs
<1>2. LockInv'
  BY <1>0 DEF Acquire, Transition, TransOf, LockInv, TypeOK
<1>3. ASSUME NEW u \in JavaThreads PROVE ThreadInv(u)'
  <2>1. ThreadInv(u) /\ ThreadInv(t)
    BY DEF SInv
  <2>2. QED
    BY <1>0, <2>1
    DEF Acquire, Transition, TransOf, ThreadInv, PCInv, OwnerInv, SyncInv, LockInv, TypeOK,
        TransStates
<1>4. WaitsForTheRest'
  BY <1>0 DEF Acquire, Transition, TransOf, WaitsForTheRest, Unaccounted, LockInv
<1>5. QED
  BY <1>1, <1>2, <1>3, <1>4 DEF SInv

\* The list changes only under the Threads_lock, hence outside safepoints.
LEMMA AddThreadStep ==
  ASSUME SInv, NEW t \in JavaThreads, AddThread(t)
  PROVE  SInv'
<1>0. TypeOK /\ LockInv /\ WaitsForTheRest
  BY DEF SInv
<1>1. TypeOK'
  BY <1>0 DEF AddThread, Goto, TypeOK, ThreadStates, TransStates, PCs, VMPCs
<1>a. vpc = "idle"
  BY <1>0 DEF SInv, AddThread, ThreadInv, PCInv, LockInv
<1>2. LockInv'
  BY <1>0, <1>a DEF AddThread, Goto, LockInv
<1>3. ASSUME NEW u \in JavaThreads PROVE ThreadInv(u)'
  <2>1. ThreadInv(u) /\ ThreadInv(t)
    BY DEF SInv
  <2>2. QED
    BY <1>0, <2>1
    DEF AddThread, Goto, ThreadInv, PCInv, OwnerInv, SyncInv, LockInv, TypeOK, TransStates
<1>4. WaitsForTheRest'
  BY <1>a DEF AddThread, Goto, WaitsForTheRest
<1>5. QED
  BY <1>1, <1>2, <1>3, <1>4 DEF SInv

\* RemoveThread keeps the invariant.
LEMMA RemoveThreadStep ==
  ASSUME SInv, NEW t \in JavaThreads, RemoveThread(t)
  PROVE  SInv'
<1>0. TypeOK /\ LockInv /\ WaitsForTheRest
  BY DEF SInv
<1>1. TypeOK'
  BY <1>0 DEF RemoveThread, TypeOK, ThreadStates, TransStates, PCs, VMPCs
<1>a. vpc = "idle"
  BY <1>0 DEF SInv, RemoveThread, ThreadInv, PCInv, LockInv
<1>2. LockInv'
  BY <1>0, <1>a DEF RemoveThread, LockInv
<1>3. ASSUME NEW u \in JavaThreads PROVE ThreadInv(u)'
  <2>1. ThreadInv(u) /\ ThreadInv(t)
    BY DEF SInv
  <2>2. QED
    BY <1>0, <2>1
    DEF RemoveThread, ThreadInv, PCInv, OwnerInv, SyncInv, LockInv, TypeOK, TransStates
<1>4. WaitsForTheRest'
  BY <1>a DEF RemoveThread, WaitsForTheRest
<1>5. QED
  BY <1>1, <1>2, <1>3, <1>4 DEF SInv

\* A thread that is examined is either safe, and counted, or will call back.
LEMMA ExamineStep ==
  ASSUME SInv, NEW t \in JavaThreads, Examine(t)
  PROVE  SInv'
<1>0. TypeOK /\ LockInv /\ WaitsForTheRest
  BY DEF SInv
<1>a. t \in Unaccounted /\ _waiting_to_block = Cardinality(Unaccounted)
  BY <1>0 DEF Examine, Unaccounted, WaitsForTheRest
<1>b. \/ /\ safepoint_safe(thread_state[t])
         /\ Unaccounted' = Unaccounted \ {t}
         /\ _waiting_to_block' = _waiting_to_block - 1
      \/ /\ thread_state[t] = "vm"
         /\ Unaccounted' = Unaccounted
         /\ _waiting_to_block' = _waiting_to_block
  BY <1>0 DEF Examine, Unaccounted, TypeOK
<1>c. _waiting_to_block' = Cardinality(Unaccounted') /\ _waiting_to_block' \in Nat
  BY <1>0, <1>a, <1>b, CountOneLess, CountIsFinite
<1>1. TypeOK'
  <2>1. _waiting_to_block' \in 0 .. Cardinality(JavaThreads)
    <3>1. Cardinality(JavaThreads) \in Nat
      BY FS_CardinalityType
    <3>2. QED
      BY <1>0, <1>b, <1>c, <3>1 DEF TypeOK
  <2>2. QED
    BY Zenon, <1>0, <2>1 DEF Examine, TypeOK
<1>2. LockInv'
  BY <1>0 DEF Examine, safepoint_safe, LockInv, TypeOK
<1>3. ASSUME NEW u \in JavaThreads PROVE ThreadInv(u)'
  <2>1. ThreadInv(u)
    BY DEF SInv
  <2>2. PCInv(u)' /\ OwnerInv(u)'
    BY <2>1 DEF Examine, ThreadInv, PCInv, OwnerInv
  <2>3. CASE u # t
    <3>1. SyncInv(u)'
      BY <1>0, <2>1, <2>3 DEF Examine, ThreadInv, SyncInv, TypeOK
    <3>2. QED
      BY <2>2, <3>1 DEF ThreadInv
  <2>4. CASE u = t
    <3>1. pc[t] # "own"
      BY <1>0, <2>1, <2>4 DEF Examine, LockInv, ThreadInv, PCInv
    <3>2. CASE safepoint_safe(thread_state[t])
      BY SMTT(20), <1>0, <2>1, <2>2, <2>4, <3>2
      DEF Examine, ThreadInv, SyncInv, PCInv, TypeOK, safepoint_safe
    <3>3. CASE thread_state[t] = "vm"
      BY <1>0, <2>1, <2>2, <2>4, <3>1, <3>3
      DEF Examine, ThreadInv, SyncInv, PCInv, TypeOK, safepoint_safe, TransStates, PCs
    <3>4. QED
      BY <3>2, <3>3 DEF Examine
  <2>5. QED
    BY <2>3, <2>4
<1>4. WaitsForTheRest'
  BY <1>c DEF WaitsForTheRest
<1>5. QED
  BY <1>1, <1>2, <1>3, <1>4 DEF SInv

\* Begin keeps the invariant.
LEMMA BeginStep ==
  ASSUME SInv, Begin
  PROVE  SInv'
<1>0. TypeOK /\ LockInv /\ WaitsForTheRest
  BY DEF SInv
<1>1. TypeOK'
  BY <1>0 DEF Begin, TypeOK, ThreadStates, TransStates, PCs, VMPCs
<1>2. LockInv'
  BY <1>0 DEF Begin, LockInv, TypeOK
<1>3. ASSUME NEW u \in JavaThreads PROVE ThreadInv(u)'
  <2>1. ThreadInv(u)
    BY DEF SInv
  <2>2. QED
    BY <1>0, <2>1 DEF Begin, ThreadInv, PCInv, OwnerInv, SyncInv, LockInv, TypeOK, TransStates
<1>4. WaitsForTheRest'
  BY <1>0 DEF Begin, WaitsForTheRest, Unaccounted, LockInv
<1>5. QED
  BY <1>1, <1>2, <1>3, <1>4 DEF SInv

\* begin() waits for the whole list.
LEMMA SynchronizeStep ==
  ASSUME SInv, Synchronize
  PROVE  SInv'
<1>0. TypeOK /\ LockInv /\ WaitsForTheRest
  BY DEF SInv
<1>1. TypeOK'
  BY <1>0, CountIsFinite DEF Synchronize, TypeOK, VMPCs
<1>2. LockInv'
  BY <1>0 DEF Synchronize, LockInv, TypeOK
<1>3. ASSUME NEW u \in JavaThreads PROVE ThreadInv(u)'
  <2>1. ThreadInv(u)
    BY DEF SInv
  <2>2. QED
    BY <1>0, <2>1
    DEF Synchronize, ThreadInv, PCInv, OwnerInv, SyncInv, LockInv, TypeOK, TransStates
<1>4. WaitsForTheRest'
  <2>1. \A u \in list : type[u] = "running"
    BY <1>0 DEF SInv, ThreadInv, SyncInv, Synchronize, TypeOK
  <2>2. Unaccounted' = list
    BY <2>1 DEF Synchronize, Unaccounted
  <2>3. QED
    BY <2>2 DEF Synchronize, WaitsForTheRest
<1>5. QED
  BY <1>1, <1>2, <1>3, <1>4 DEF SInv

\* ArmPolls keeps the invariant.
LEMMA ArmPollsStep ==
  ASSUME SInv, ArmPolls
  PROVE  SInv'
<1>0. TypeOK /\ LockInv /\ WaitsForTheRest
  BY DEF SInv
<1>1. TypeOK'
  BY <1>0 DEF ArmPolls, TypeOK, ThreadStates, TransStates, PCs, VMPCs
<1>2. LockInv'
  BY <1>0 DEF ArmPolls, LockInv, TypeOK
<1>3. ASSUME NEW u \in JavaThreads PROVE ThreadInv(u)'
  <2>1. ThreadInv(u)
    BY DEF SInv
  <2>2. QED
    BY <1>0, <2>1
    DEF ArmPolls, ThreadInv, PCInv, OwnerInv, SyncInv, LockInv, TypeOK, TransStates
<1>4. WaitsForTheRest'
  BY <1>0 DEF ArmPolls, WaitsForTheRest, Unaccounted, LockInv
<1>5. QED
  BY <1>1, <1>2, <1>3, <1>4 DEF SInv

\* AllExamined keeps the invariant.
LEMMA AllExaminedStep ==
  ASSUME SInv, AllExamined
  PROVE  SInv'
<1>0. TypeOK /\ LockInv /\ WaitsForTheRest
  BY DEF SInv
<1>1. TypeOK'
  BY <1>0 DEF AllExamined, StillRunning, TypeOK, ThreadStates, TransStates, PCs, VMPCs
<1>2. LockInv'
  BY SMTT(20), <1>0 DEF AllExamined, StillRunning, LockInv, TypeOK
<1>3. ASSUME NEW u \in JavaThreads PROVE ThreadInv(u)'
  <2>1. ThreadInv(u)
    BY DEF SInv
  <2>2. QED
    BY <1>0, <2>1
    DEF AllExamined, StillRunning, ThreadInv, PCInv, OwnerInv, SyncInv, LockInv, TypeOK,
        TransStates
<1>4. WaitsForTheRest'
  BY <1>0 DEF AllExamined, StillRunning, WaitsForTheRest, Unaccounted, LockInv
<1>5. QED
  BY <1>1, <1>2, <1>3, <1>4 DEF SInv

\* WaitToBlock keeps the invariant.
LEMMA WaitToBlockStep ==
  ASSUME SInv, WaitToBlock
  PROVE  SInv'
<1>0. TypeOK /\ LockInv /\ WaitsForTheRest
  BY DEF SInv
<1>1. TypeOK'
  BY Zenon, <1>0 DEF WaitToBlock, TypeOK, ThreadStates, TransStates, PCs, VMPCs
<1>2. LockInv'
  BY <1>0 DEF WaitToBlock, LockInv, TypeOK
<1>3. ASSUME NEW u \in JavaThreads PROVE ThreadInv(u)'
  <2>1. ThreadInv(u)
    BY DEF SInv
  <2>2. QED
    BY <1>0, <2>1
    DEF WaitToBlock, ThreadInv, PCInv, OwnerInv, SyncInv, LockInv, TypeOK, TransStates
<1>4. WaitsForTheRest'
  BY <1>0 DEF WaitToBlock, WaitsForTheRest, Unaccounted, LockInv
<1>5. QED
  BY <1>1, <1>2, <1>3, <1>4 DEF SInv

\* WakeUp keeps the invariant.
LEMMA WakeUpStep ==
  ASSUME SInv, WakeUp
  PROVE  SInv'
<1>0. TypeOK /\ LockInv /\ WaitsForTheRest
  BY DEF SInv
<1>1. TypeOK'
  BY Zenon, <1>0 DEF WakeUp, TypeOK, ThreadStates, TransStates, PCs, VMPCs
<1>2. LockInv'
  BY <1>0 DEF WakeUp, LockInv, TypeOK
<1>3. ASSUME NEW u \in JavaThreads PROVE ThreadInv(u)'
  <2>1. ThreadInv(u)
    BY DEF SInv
  <2>2. QED
    BY <1>0, <2>1 DEF WakeUp, ThreadInv, PCInv, OwnerInv, SyncInv, LockInv, TypeOK, TransStates
<1>4. WaitsForTheRest'
  BY <1>0 DEF WakeUp, WaitsForTheRest, Unaccounted, LockInv
<1>5. QED
  BY <1>1, <1>2, <1>3, <1>4 DEF SInv

\* Nobody is left to wait for.
LEMMA SynchronizedStep ==
  ASSUME SInv, Synchronized
  PROVE  SInv'
<1>0. TypeOK /\ LockInv /\ WaitsForTheRest
  BY DEF SInv
<1>1. TypeOK'
  BY <1>0 DEF Synchronized, TypeOK, ThreadStates, TransStates, PCs, VMPCs
<1>2. LockInv'
  BY <1>0 DEF Synchronized, LockInv, TypeOK
<1>a. Unaccounted = {}
  BY SMTT(20), <1>0, CountIsFinite, FS_EmptySet DEF Synchronized, WaitsForTheRest
<1>3. ASSUME NEW u \in JavaThreads PROVE ThreadInv(u)'
  <2>1. ThreadInv(u)
    BY DEF SInv
  <2>2. u \in list => type[u] # "running" /\ ~(type[u] = "call_back" /\ ~called_back[u])
    BY <1>a DEF Unaccounted
  <2>3. QED
    BY <1>0, <2>1, <2>2 DEF Synchronized, ThreadInv, PCInv, OwnerInv, SyncInv
<1>4. WaitsForTheRest'
  BY <1>0 DEF Synchronized, WaitsForTheRest, Unaccounted, LockInv
<1>5. QED
  BY <1>1, <1>2, <1>3, <1>4 DEF SInv

\* DisarmPolls keeps the invariant.
LEMMA DisarmPollsStep ==
  ASSUME SInv, DisarmPolls
  PROVE  SInv'
<1>0. TypeOK /\ LockInv /\ WaitsForTheRest
  BY DEF SInv
<1>1. TypeOK'
  BY Zenon, <1>0 DEF DisarmPolls, TypeOK, ThreadStates, TransStates, PCs, VMPCs
<1>2. LockInv'
  BY <1>0 DEF DisarmPolls, LockInv, TypeOK
<1>3. ASSUME NEW u \in JavaThreads PROVE ThreadInv(u)'
  <2>1. ThreadInv(u)
    BY DEF SInv
  <2>2. QED
    BY <1>0, <2>1
    DEF DisarmPolls, ThreadInv, PCInv, OwnerInv, SyncInv, LockInv, TypeOK, TransStates
<1>4. WaitsForTheRest'
  BY <1>0 DEF DisarmPolls, WaitsForTheRest, Unaccounted, LockInv
<1>5. QED
  BY <1>1, <1>2, <1>3, <1>4 DEF SInv

\* Desynchronize keeps the invariant.
LEMMA DesynchronizeStep ==
  ASSUME SInv, Desynchronize
  PROVE  SInv'
<1>0. TypeOK /\ LockInv /\ WaitsForTheRest
  BY DEF SInv
<1>1. TypeOK'
  BY <1>0 DEF Desynchronize, TypeOK, ThreadStates, TransStates, PCs, VMPCs
<1>2. LockInv'
  BY <1>0 DEF Desynchronize, LockInv, TypeOK
<1>3. ASSUME NEW u \in JavaThreads PROVE ThreadInv(u)'
  <2>1. ThreadInv(u)
    BY DEF SInv
  <2>2. QED
    BY <1>0, <2>1
    DEF Desynchronize, ThreadInv, PCInv, OwnerInv, SyncInv, LockInv, TypeOK, TransStates
<1>4. WaitsForTheRest'
  BY <1>0 DEF Desynchronize, WaitsForTheRest, Unaccounted, LockInv
<1>5. QED
  BY <1>1, <1>2, <1>3, <1>4 DEF SInv

\* Restart keeps the invariant.
LEMMA RestartStep ==
  ASSUME SInv, Restart
  PROVE  SInv'
<1>0. TypeOK /\ LockInv /\ WaitsForTheRest
  BY DEF SInv
<1>1. TypeOK'
  BY Zenon, <1>0 DEF Restart, TypeOK, ThreadStates, TransStates, PCs, VMPCs
<1>2. LockInv'
  BY <1>0 DEF Restart, LockInv, TypeOK
<1>3. ASSUME NEW u \in JavaThreads PROVE ThreadInv(u)'
  <2>1. ThreadInv(u)
    BY DEF SInv
  <2>2. QED
    BY <1>0, <2>1 DEF Restart, ThreadInv, PCInv, OwnerInv, SyncInv, LockInv, TypeOK, TransStates
<1>4. WaitsForTheRest'
  BY <1>0 DEF Restart, WaitsForTheRest, Unaccounted, LockInv
<1>5. QED
  BY <1>1, <1>2, <1>3, <1>4 DEF SInv

----------------------------------------------------------------------------
\* The invariant holds at the start and is kept by every step of the VM thread and of the
\* Java threads.
THEOREM SafepointInvariant == Spec => []SInv
<1>1. Init => SInv
  <2> SUFFICES ASSUME Init PROVE SInv
    OBVIOUS
  <2>1. TypeOK
    <3>1. Cardinality(JavaThreads) \in Nat
      BY FS_CardinalityType
    <3>2. /\ thread_state \in [JavaThreads -> ThreadStates] /\ pc \in [JavaThreads -> PCs]
          /\ type \in [JavaThreads -> {"running", "at_safepoint", "call_back"}]
          /\ called_back \in [JavaThreads -> BOOLEAN]
      BY DEF Init, ThreadStates, PCs
    <3>3. /\ dest \in [JavaThreads -> {"vm", "java", "native", "blocked", "lock"}]
          /\ saved \in [JavaThreads -> {"vm", "java"} \cup TransStates]
          /\ list \subseteq JavaThreads
      BY DEF Init
    <3>4. polling \in BOOLEAN /\ notified \in BOOLEAN
      BY Zenon DEF Init
    <3>5. _waiting_to_block \in 0 .. Cardinality(JavaThreads)
      BY <3>1 DEF Init
    <3>6. QED
      BY <3>2, <3>3, <3>4, <3>5 DEF Init, TypeOK, VMPCs
  <2>2. LockInv /\ WaitsForTheRest
    BY DEF Init, LockInv, WaitsForTheRest
  <2>3. ASSUME NEW t \in JavaThreads PROVE ThreadInv(t)
    BY DEF Init, ThreadInv, PCInv, OwnerInv, SyncInv, TransStates
  <2>4. QED
    BY <2>1, <2>2, <2>3 DEF SInv
<1>2. SInv /\ [Next]_vars => SInv'
  <2> SUFFICES ASSUME SInv, [Next]_vars PROVE SInv'
    OBVIOUS
  <2>1. CASE VMNext
    BY <2>1, BeginStep, SynchronizeStep, ArmPollsStep, AllExaminedStep, WaitToBlockStep,
       WakeUpStep, SynchronizedStep, DisarmPollsStep, DesynchronizeStep, RestartStep, ExamineStep
    DEF VMNext, VMStep
  <2>2. ASSUME NEW t \in JavaThreads, ThreadNext(t) PROVE SInv'
    BY SMTT(20), <2>2, EnterVMStep, LeaveVMStep, ReturnStep, CheckStateStep, ArriveStep, PollStep,
       PollExceptionStep, BlockStep, CallBackStep, ResumeStep, LockThreadsStep, AcquireStep,
       AddThreadStep, RemoveThreadStep
    DEF ThreadNext, Step
  <2>3. CASE UNCHANGED vars
    BY <2>3 DEF vars, SInv, TypeOK, LockInv, ThreadInv,
       PCInv, OwnerInv, SyncInv, WaitsForTheRest, Unaccounted
  <2>4. QED
    BY <2>1, <2>2, <2>3 DEF Next
<1>3. QED
  BY <1>1, <1>2, PTL DEF Spec

\* While the world is stopped, no thread runs Java or VM code, nor can it begin to.
THEOREM WorldIsStopped == Spec => []StoppedAtSafepoint
<1>1. SInv => StoppedAtSafepoint
  <2> SUFFICES ASSUME SInv, _state = "synchronized", NEW t \in list PROVE Stopped(t)
    BY DEF StoppedAtSafepoint
  <2>1. t \in JavaThreads /\ ThreadInv(t) /\ vpc \in {"operate", "end"}
    BY DEF SInv, TypeOK, LockInv, VMPCs
  <2>2. type[t] \in {"running", "at_safepoint", "call_back"} /\ called_back[t] \in BOOLEAN
    BY <2>1 DEF SInv, TypeOK
  <2>3. QED
    BY Zenon, <2>1, <2>2 DEF ThreadInv, SyncInv, Stopped, TransStates
<1>2. QED
  BY <1>1, SafepointInvariant, PTL

\* The count of begin() is exact, however many threads there are.
THEOREM CountIsExact == Spec => []WaitsForTheRest
<1>1. SInv => WaitsForTheRest
  BY DEF SInv
<1>2. QED
  BY <1>1, SafepointInvariant, PTL

\* A thread that must call back does not block without having done so, none waits for a
\* Threads_lock that it holds, and end() finds every thread stopped.
THEOREM NoFatalDeadlock == Spec => []NoDeadlockFatal
<1>1. SInv => NoDeadlockFatal
  <2> SUFFICES ASSUME SInv PROVE NoDeadlockFatal
    OBVIOUS
  <2>1. ASSUME NEW t \in list, pc[t] = "block", thread_state[t] \in TransStates \ {"vm_trans"}
        PROVE  type[t] # "call_back"
    <3>1. t \in JavaThreads /\ ThreadInv(t) /\ called_back[t] \in BOOLEAN
      BY DEF SInv, TypeOK
    <3>2. QED
      BY <2>1, <3>1 DEF ThreadInv, SyncInv, TransStates
  <2>2. vpc = "restart" => StillRunning = {}
    BY SMTT(20) DEF SInv, TypeOK, ThreadInv, SyncInv, StillRunning
  <2>3. ASSUME NEW t \in JavaThreads, pc[t] \in {"block", "callback", "stopped"}
        PROVE  Threads_lock # t
    BY <2>3 DEF SInv, ThreadInv, OwnerInv
  <2>4. QED
    BY <2>1, <2>2, <2>3 DEF NoDeadlockFatal
<1>2. QED
  BY <1>1, SafepointInvariant, PTL

\* The handler of the polling page runs only during begin().
THEOREM PollsAreExpected == Spec => []PollsOnlyWhileSynchronizing
<1>1. SInv => PollsOnlyWhileSynchronizing
  BY DEF SInv, ThreadInv, SyncInv, LockInv, PollsOnlyWhileSynchronizing, is_synchronizing
<1>2. QED
  BY <1>1, SafepointInvariant, PTL

\* The owner of the Threads_lock never meets a safepoint.
THEOREM OwnerIsNotStopped == Spec => []OwnerNeverBlocks
<1>1. SInv => OwnerNeverBlocks
  BY DEF SInv, LockInv, OwnerNeverBlocks, do_call_back
<1>2. QED
  BY <1>1, SafepointInvariant, PTL

============================================================================
