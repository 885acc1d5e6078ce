------------------------ MODULE NativeMonitorProofs ------------------------
(***************************************************************************)
(* The native monitor, for any number of threads.                          *)
(*                                                                         *)
(* First, mutual exclusion, the discipline of the lock byte and the        *)
(* stability of OnDeck.  MInv says what the position of a thread means for *)
(* the lock byte, the advisory owner and OnDeck, that two threads never    *)
(* both hold the lock byte or the inner lock, and that the VM thread       *)
(* pretends to hold a lock only while every Java thread is stopped.        *)
(*                                                                         *)
(* Then the lists.  LInv says of every thread where its node is: in cxq,   *)
(* in EntryList, in a chain an unlocker has detached, OnDeck, in the wait  *)
(* set, in the hands of the notifier, or nowhere; never in two places.     *)
(*                                                                         *)
(* Last, with both, the refinement of AbstractMonitor.                     *)
(***************************************************************************)
EXTENDS NativeMonitor, TLAPS

\* The thread holds the inner lock.
Inner(t) == pc[t] \in {"drain", "merge", "wake", "punt"}

\* The VM thread sneaks only at a safepoint, and only into the critical section.
SneakInv == snuck => safepoint /\ pc[VMThread] = "cs"

\* Where a Java thread can be at a safepoint, and where IUnlock returns to.
StopInv(t) ==
  /\ safepoint /\ t \in JavaThreads => pc[t] \in {"idle", "cs"} \/ InTBIVM(t)
  /\ pc[t] \in WaitPCs \cup {"drop"} => ret[t] = "waitloop"

\* What the position of a thread says of the lock byte, the owner and OnDeck.
PosInv(t) ==
  /\ Holds(t) => locked
  /\ InCS(t) => owner = t
  /\ Inner(t) => OnDeck = LBIT
  /\ pc[t] = "merge" => List[t] # <<>>
  /\ pc[t] = "wake" => EntryList # <<>>
  /\ pc[t] = "recheck" => succ[t] \in Threads
  /\ pc[t] \in {"ondeck", "deckparked", "clear"} => OnDeck = t

ThreadInv(t) == StopInv(t) /\ PosInv(t)

\* The lock byte and the inner lock are exclusive.
PairInv(t, u) == t # u => ~(Holds(t) /\ Holds(u)) /\ ~(Inner(t) /\ Inner(u))

\* The lock byte is not left behind.
HeldInv == locked => \E t \in Threads : Holds(t)

\* The inductive invariant.
MInv ==
  /\ TypeOK /\ SneakInv /\ HeldInv
  /\ \A t \in Threads : ThreadInv(t)
  /\ \A t, u \in Threads : PairInv(t, u)

USE ConstantsDistinct DEF lists, waitvars, Goto

\* The VM thread is a thread, and the others are Java threads.
LEMMA ThreadFacts ==
  /\ VMThread \in Threads /\ NULL \notin Threads /\ LBIT \notin Threads /\ LBIT # NULL
  /\ \A t \in Threads : t # VMThread => t \in JavaThreads
BY Zenon DEF Threads

\* Unlinking a thread leaves a list of threads.
LEMMA UnlinkType == \A s \in Seq(Threads), t \in Threads : Unlink(s, t) \in Seq(Threads)
<1> SUFFICES ASSUME NEW s \in Seq(Threads), NEW t \in Threads PROVE Unlink(s, t) \in Seq(Threads)
  OBVIOUS
<1> DEFINE i == CHOOSE k \in DOMAIN s : s[k] = t
<1>1. ASSUME NEW j \in 1 .. (Len(s) - 1)
      PROVE  (IF j < i THEN s[j] ELSE s[j + 1]) \in Threads
  <2>1. j \in 1 .. Len(s) /\ j + 1 \in 1 .. Len(s)
    OBVIOUS
  <2>2. s[j] \in Threads /\ s[j + 1] \in Threads
    BY <2>1
  <2>3. QED
    BY Zenon, <2>2
<1>2. CASE Len(s) = 0
  BY <1>2 DEF Unlink
<1>3. CASE Len(s) # 0
  <2>1. Len(s) - 1 \in Nat
    BY <1>3
  <2>2. QED
    BY <1>1, <2>1 DEF Unlink
<1>4. QED
  BY Zenon, <1>2, <1>3

\* A jump to a control state is well typed.
LEMMA GotoType ==
  ASSUME TypeOK, NEW t \in Threads, NEW l \in PCs, Goto(t, l)
  PROVE  pc' \in [Threads -> PCs]
BY Zenon DEF TypeOK

\* A jump changes the position of one thread.
Moved(t, S) ==
  /\ pc' \in [Threads -> PCs]
  /\ pc'[t] \in S
  /\ \A u \in Threads \ {t} : pc'[u] = pc[u]

\* What Goto does, without the function it updates.
LEMMA GotoMoves ==
  ASSUME TypeOK, NEW t \in Threads, NEW S \in SUBSET PCs, \E l \in S : Goto(t, l)
  PROVE  Moved(t, S)
BY DEF TypeOK, Moved

\* A step of t gives the lock byte and the inner lock to nobody but t, and only when free.
Kept(u, t) ==
  /\ Holds(u)' => Holds(u) \/ (u = t /\ ~locked)
  /\ Inner(u)' => Inner(u) \/ (u = t /\ OnDeck = NULL)

\* Such a step keeps both locks exclusive.
LEMMA PairKept ==
  ASSUME MInv, NEW t \in Threads, \A u \in Threads : Kept(u, t)
  PROVE  \A u, v \in Threads : PairInv(u, v)'
<1>1. ASSUME NEW u \in Threads, NEW v \in Threads PROVE PairInv(u, v)'
  <2>1. PairInv(u, v) /\ PosInv(u) /\ PosInv(v) /\ Kept(u, t) /\ Kept(v, t)
    BY Zenon DEF MInv, ThreadInv
  <2>2. QED
    BY Zenon, <2>1 DEF PairInv, PosInv, Kept
<1>2. QED
  BY Zenon, <1>1

USE ThreadFacts

\* A lock byte that is free has no holder; the VM thread sneaks past an owner that is not there.
LEMMA LockStep ==
  ASSUME MInv, NEW t \in Threads, Lock(t)
  PROVE  MInv'
<1>0. TypeOK /\ SneakInv /\ HeldInv /\ ThreadInv(t)
  BY Zenon DEF MInv
<1>1. TypeOK'
  <2>1. pc' \in [Threads -> PCs]
    <3>1. \E l \in {"cs", "spin"} : Goto(t, l)
      BY Zenon, <1>0 DEF Lock, TryLock, CanSneak, set_owner
    <3>2. QED
      BY Zenon, <1>0, <3>1, GotoType DEF PCs, LockPCs, UnlockPCs, OwnerPCs
  <2>2. \A u \in Threads : pc'[u] \in {"unpark", "notifypush", "notified"} => succ'[u] \in Threads
    BY <1>0 DEF Lock, TryLock, CanSneak, set_owner, TypeOK
  <2>3. locked' \in BOOLEAN /\ snuck' \in BOOLEAN
    <3>1. locked \in BOOLEAN /\ snuck \in BOOLEAN
      BY Zenon, <1>0 DEF TypeOK
    <3>2. QED
      BY Zenon, <3>1 DEF Lock, TryLock, CanSneak, set_owner
  <2>4. QED
    BY <1>0, <2>1, <2>2, <2>3 DEF Lock, TryLock, CanSneak, set_owner, TypeOK
<1>2. SneakInv' /\ HeldInv'
  BY <1>0
  DEF Lock, MayRun, CanSneak, TryLock, set_owner, SneakInv, HeldInv, TypeOK, Holds, Inside,
      OwnerPCs
<1>3. ASSUME NEW u \in Threads PROVE StopInv(u)'
  <2>1. StopInv(u)
    BY Zenon DEF MInv, ThreadInv
  <2>2. QED
    BY <1>0, <2>1
    DEF Lock, MayRun, CanSneak, TryLock, set_owner, ThreadInv, StopInv, TypeOK, InTBIVM,
        LockPCs, WaitPCs, UnlockPCs
<1>4. ASSUME NEW u \in Threads PROVE PosInv(u)'
  <2>1. ThreadInv(u) /\ PairInv(u, t)
    BY Zenon DEF MInv
  <2>2. QED
    BY <1>0, <2>1
    DEF Lock, MayRun, CanSneak, TryLock, set_owner, ThreadInv, PosInv, PairInv, SneakInv,
        TypeOK, Inner, Holds, Inside, InCS, OwnerPCs
<1>5. \A u \in Threads : Kept(u, t)
  BY <1>0
  DEF Lock, MayRun, CanSneak, TryLock, set_owner, Kept, SneakInv, TypeOK, Inner, Holds, Inside,
      OwnerPCs
<1>6. QED
  BY Zenon, <1>1, <1>2, <1>3, <1>4, <1>5, PairKept DEF MInv, ThreadInv

\* try_lock sneaks before it looks at the lock byte.
LEMMA try_lockStep ==
  ASSUME MInv, NEW t \in Threads, try_lock(t)
  PROVE  MInv'
<1>0. TypeOK /\ SneakInv /\ HeldInv /\ ThreadInv(t)
  BY Zenon DEF MInv
<1>1. TypeOK'
  BY Zenon, <1>0
  DEF try_lock, MayRun, CanSneak, TryLock, set_owner, TypeOK, PCs, LockPCs, WaitPCs, UnlockPCs,
      OwnerPCs
<1>2. SneakInv' /\ HeldInv'
  BY <1>0
  DEF try_lock, MayRun, CanSneak, TryLock, set_owner, SneakInv, HeldInv, TypeOK, Holds, Inside,
      OwnerPCs
<1>3. ASSUME NEW u \in Threads PROVE StopInv(u)'
  <2>1. StopInv(u)
    BY Zenon DEF MInv, ThreadInv
  <2>2. QED
    BY Zenon, <1>0, <2>1
    DEF try_lock, MayRun, CanSneak, TryLock, set_owner, ThreadInv, StopInv, TypeOK, InTBIVM,
        LockPCs, WaitPCs, UnlockPCs
<1>4. ASSUME NEW u \in Threads PROVE PosInv(u)'
  <2>1. ThreadInv(u) /\ PairInv(u, t)
    BY Zenon DEF MInv
  <2>2. QED
    BY Zenon, <1>0, <2>1
    DEF try_lock, MayRun, CanSneak, TryLock, set_owner, ThreadInv, PosInv, PairInv, SneakInv,
        TypeOK, Inner, Holds, Inside, InCS, OwnerPCs
<1>5. \A u \in Threads : Kept(u, t)
  BY Zenon, <1>0
  DEF try_lock, MayRun, CanSneak, TryLock, set_owner, Kept, SneakInv, TypeOK, Inner, Holds,
      Inside, OwnerPCs
<1>6. QED
  BY Zenon, <1>1, <1>2, <1>3, <1>4, <1>5, PairKept DEF MInv, ThreadInv

\* A thread that spins is not stopped, so that nobody has snuck.
LEMMA TrySpinStep ==
  ASSUME MInv, NEW t \in Threads, TrySpin(t)
  PROVE  MInv'
<1>0. TypeOK /\ SneakInv /\ HeldInv /\ ThreadInv(t)
  BY Zenon DEF MInv
<1>a. ~snuck
  BY Zenon, <1>0 DEF TrySpin, ThreadInv, StopInv, SneakInv, InTBIVM, LockPCs, WaitPCs, UnlockPCs
<1>1. TypeOK'
  <2>1. pc' \in [Threads -> PCs]
    <3>1. \E l \in {"cs", "ilock"} : Goto(t, l)
      BY Zenon, <1>0 DEF TrySpin, TryLock, set_owner
    <3>2. QED
      BY Zenon, <1>0, <3>1, GotoType DEF PCs, LockPCs, UnlockPCs, OwnerPCs
  <2>2. \A u \in Threads : pc'[u] \in {"unpark", "notifypush", "notified"} => succ'[u] \in Threads
    BY <1>0 DEF TrySpin, TryLock, set_owner, TypeOK
  <2>3. locked' \in BOOLEAN
    <3>1. locked \in BOOLEAN
      BY Zenon, <1>0 DEF TypeOK
    <3>2. QED
      BY Zenon, <3>1 DEF TrySpin, TryLock, set_owner
  <2>4. QED
    BY <1>0, <2>1, <2>2, <2>3 DEF TrySpin, TryLock, set_owner, TypeOK
<1>2. SneakInv' /\ HeldInv'
  BY <1>0 DEF TrySpin, TryLock, set_owner, SneakInv, HeldInv, TypeOK, Holds, Inside, OwnerPCs
<1>3. ASSUME NEW u \in Threads PROVE StopInv(u)'
  <2>1. StopInv(u)
    BY Zenon DEF MInv, ThreadInv
  <2>2. QED
    BY <1>0, <2>1
    DEF TrySpin, TryLock, set_owner, ThreadInv, StopInv, TypeOK, InTBIVM, LockPCs, WaitPCs,
        UnlockPCs
<1>4. ASSUME NEW u \in Threads PROVE PosInv(u)'
  <2>1. ThreadInv(u) /\ PairInv(u, t)
    BY Zenon DEF MInv
  <2>2. QED
    BY <1>0, <1>a, <2>1
    DEF TrySpin, TryLock, set_owner, ThreadInv, PosInv, PairInv, TypeOK, Inner, Holds, Inside,
        InCS, OwnerPCs
<1>5. \A u \in Threads : Kept(u, t)
  BY <1>0
  DEF TrySpin, TryLock, set_owner, Kept, SneakInv, TypeOK, Inner, Holds, Inside, OwnerPCs
<1>6. QED
  BY Zenon, <1>1, <1>2, <1>3, <1>4, <1>5, PairKept DEF MInv, ThreadInv

\* ILock keeps the invariant.
LEMMA ILockStep ==
  ASSUME MInv, NEW t \in Threads, ILock(t)
  PROVE  MInv'
<1>0. TypeOK /\ SneakInv /\ HeldInv /\ ThreadInv(t)
  BY Zenon DEF MInv
<1>1. TypeOK'
  <2>1. pc' \in [Threads -> PCs]
    <3>1. \E l \in {"leave", "push"} : Goto(t, l)
      BY Zenon, <1>0 DEF ILock, TryLock
    <3>2. QED
      BY Zenon, <1>0, <3>1, GotoType DEF PCs, LockPCs, UnlockPCs, OwnerPCs
  <2>2. \A u \in Threads : pc'[u] \in {"unpark", "notifypush", "notified"} => succ'[u] \in Threads
    BY <1>0 DEF ILock, TryLock, TypeOK
  <2>3. locked' \in BOOLEAN /\ permit' \in [Threads -> BOOLEAN]
    <3>1. locked \in BOOLEAN /\ permit \in [Threads -> BOOLEAN]
      BY Zenon, <1>0 DEF TypeOK
    <3>2. QED
      BY Zenon, <3>1 DEF ILock, TryLock
  <2>4. QED
    BY Zenon, <1>0, <2>1, <2>2, <2>3 DEF ILock, TryLock, TypeOK
<1>2. SneakInv' /\ HeldInv'
  BY <1>0 DEF ILock, TryLock, SneakInv, HeldInv, TypeOK, Holds, Inside, OwnerPCs
<1>3. ASSUME NEW u \in Threads PROVE StopInv(u)'
  <2>1. StopInv(u)
    BY Zenon DEF MInv, ThreadInv
  <2>2. QED
    BY <1>0, <2>1
    DEF ILock, TryLock, ThreadInv, StopInv, TypeOK, InTBIVM, LockPCs, WaitPCs, UnlockPCs
<1>4. ASSUME NEW u \in Threads PROVE PosInv(u)'
  <2>1. ThreadInv(u) /\ PairInv(u, t)
    BY Zenon DEF MInv
  <2>2. QED
    BY <1>0, <2>1
    DEF ILock, TryLock, ThreadInv, PosInv, PairInv, SneakInv, TypeOK, Inner, Holds, Inside,
        InCS, OwnerPCs
<1>5. \A u \in Threads : Kept(u, t)
  BY <1>0 DEF ILock, TryLock, Kept, SneakInv, TypeOK, Inner, Holds, Inside, OwnerPCs
<1>6. QED
  BY Zenon, <1>1, <1>2, <1>3, <1>4, <1>5, PairKept DEF MInv, ThreadInv

\* AcquireOrPush keeps the invariant.
LEMMA AcquireOrPushStep ==
  ASSUME MInv, NEW t \in Threads, AcquireOrPush(t)
  PROVE  MInv'
<1>0. TypeOK /\ SneakInv /\ HeldInv /\ ThreadInv(t)
  BY Zenon DEF MInv
<1>1. TypeOK'
  <2>1. pc' \in [Threads -> PCs]
    <3>1. \E l \in {"leave", "check"} : Goto(t, l)
      BY Zenon, <1>0 DEF AcquireOrPush, TryLock
    <3>2. QED
      BY Zenon, <1>0, <3>1, GotoType DEF PCs, LockPCs, UnlockPCs, OwnerPCs
  <2>2. \A u \in Threads : pc'[u] \in {"unpark", "notifypush", "notified"} => succ'[u] \in Threads
    BY <1>0 DEF AcquireOrPush, TryLock, TypeOK
  <2>3. locked' \in BOOLEAN /\ cxq' \in Seq(Threads)
    <3>1. locked \in BOOLEAN /\ cxq \in Seq(Threads)
      BY Zenon, <1>0 DEF TypeOK
    <3>2. <<t>> \o cxq \in Seq(Threads)
      BY <3>1
    <3>3. cxq' \in {cxq, <<t>> \o cxq}
      BY Zenon DEF AcquireOrPush
    <3>4. locked' \in BOOLEAN
      BY Zenon, <3>1 DEF AcquireOrPush, TryLock
    <3>5. QED
      BY Zenon, <3>1, <3>2, <3>3, <3>4
  <2>4. QED
    BY Zenon, <1>0, <2>1, <2>2, <2>3 DEF AcquireOrPush, TryLock, TypeOK
<1>2. SneakInv' /\ HeldInv'
  BY <1>0 DEF AcquireOrPush, TryLock, SneakInv, HeldInv, TypeOK, Holds, Inside, OwnerPCs
<1>3. ASSUME NEW u \in Threads PROVE StopInv(u)'
  <2>1. StopInv(u)
    BY Zenon DEF MInv, ThreadInv
  <2>2. QED
    BY <1>0, <2>1
    DEF AcquireOrPush, TryLock, ThreadInv, StopInv, TypeOK, InTBIVM, LockPCs, WaitPCs, UnlockPCs
<1>4. ASSUME NEW u \in Threads PROVE PosInv(u)'
  <2>1. ThreadInv(u) /\ PairInv(u, t)
    BY Zenon DEF MInv
  <2>2. QED
    BY <1>0, <2>1
    DEF AcquireOrPush, TryLock, ThreadInv, PosInv, PairInv, SneakInv, TypeOK, Inner, Holds,
        Inside, InCS, OwnerPCs
<1>5. \A u \in Threads : Kept(u, t)
  BY <1>0 DEF AcquireOrPush, TryLock, Kept, SneakInv, TypeOK, Inner, Holds, Inside, OwnerPCs
<1>6. QED
  BY Zenon, <1>1, <1>2, <1>3, <1>4, <1>5, PairKept DEF MInv, ThreadInv

\* CheckOnDeck keeps the invariant.
LEMMA CheckOnDeckStep ==
  ASSUME MInv, NEW t \in Threads, CheckOnDeck(t)
  PROVE  MInv'
<1>0. TypeOK /\ SneakInv /\ HeldInv /\ ThreadInv(t)
  BY Zenon DEF MInv
<1>1. TypeOK'
  BY <1>0 DEF CheckOnDeck, TypeOK, PCs, LockPCs, WaitPCs, UnlockPCs, OwnerPCs
<1>2. SneakInv' /\ HeldInv'
  BY <1>0 DEF CheckOnDeck, SneakInv, HeldInv, TypeOK, Holds, Inside, OwnerPCs
<1>3. ASSUME NEW u \in Threads PROVE StopInv(u)'
  <2>1. StopInv(u)
    BY Zenon DEF MInv, ThreadInv
  <2>2. QED
    BY <1>0, <2>1
    DEF CheckOnDeck, ThreadInv, StopInv, TypeOK, InTBIVM, LockPCs, WaitPCs, UnlockPCs
<1>4. ASSUME NEW u \in Threads PROVE PosInv(u)'
  <2>1. ThreadInv(u) /\ PairInv(u, t)
    BY Zenon DEF MInv
  <2>2. QED
    BY <1>0, <2>1
    DEF CheckOnDeck, ThreadInv, PosInv, PairInv, SneakInv, TypeOK, Inner, Holds, Inside, InCS,
        OwnerPCs
<1>5. \A u \in Threads : Kept(u, t)
  BY <1>0 DEF CheckOnDeck, Kept, SneakInv, TypeOK, Inner, Holds, Inside, OwnerPCs
<1>6. QED
  BY Zenon, <1>1, <1>2, <1>3, <1>4, <1>5, PairKept DEF MInv, ThreadInv

\* Park keeps the invariant.
LEMMA ParkStep ==
  ASSUME MInv, NEW t \in Threads, Park(t)
  PROVE  MInv'
<1>0. TypeOK /\ SneakInv /\ HeldInv /\ ThreadInv(t)
  BY Zenon DEF MInv
<1>1. TypeOK'
  BY <1>0 DEF Park, TypeOK, PCs, LockPCs, WaitPCs, UnlockPCs, OwnerPCs
<1>2. SneakInv' /\ HeldInv'
  BY <1>0 DEF Park, SneakInv, HeldInv, TypeOK, Holds, Inside, OwnerPCs
<1>3. ASSUME NEW u \in Threads PROVE StopInv(u)'
  <2>1. StopInv(u)
    BY Zenon DEF MInv, ThreadInv
  <2>2. QED
    BY <1>0, <2>1 DEF Park, ThreadInv, StopInv, TypeOK, InTBIVM, LockPCs, WaitPCs, UnlockPCs
<1>4. ASSUME NEW u \in Threads PROVE PosInv(u)'
  <2>1. ThreadInv(u) /\ PairInv(u, t)
    BY Zenon DEF MInv
  <2>2. QED
    BY <1>0, <2>1
    DEF Park, ThreadInv, PosInv, PairInv, SneakInv, TypeOK, Inner, Holds, Inside, InCS, OwnerPCs
<1>5. \A u \in Threads : Kept(u, t)
  BY <1>0 DEF Park, Kept, SneakInv, TypeOK, Inner, Holds, Inside, OwnerPCs
<1>6. QED
  BY Zenon, <1>1, <1>2, <1>3, <1>4, <1>5, PairKept DEF MInv, ThreadInv

\* The OnDeck thread takes the lock byte and is OnDeck still.
LEMMA OnDeckLoopStep ==
  ASSUME MInv, NEW t \in Threads, OnDeckLoop(t)
  PROVE  MInv'
<1>0. TypeOK /\ SneakInv /\ HeldInv /\ ThreadInv(t)
  BY Zenon DEF MInv
<1>1. TypeOK'
  <2>1. pc' \in [Threads -> PCs]
    <3>1. \E l \in {"clear", "deckparked"} : Goto(t, l)
      BY Zenon, <1>0 DEF OnDeckLoop, TryLock
    <3>2. QED
      BY Zenon, <1>0, <3>1, GotoType DEF PCs, LockPCs, UnlockPCs, OwnerPCs
  <2>2. \A u \in Threads : pc'[u] \in {"unpark", "notifypush", "notified"} => succ'[u] \in Threads
    BY <1>0 DEF OnDeckLoop, TryLock, TypeOK
  <2>3. locked' \in BOOLEAN
    <3>1. locked \in BOOLEAN
      BY Zenon, <1>0 DEF TypeOK
    <3>2. QED
      BY Zenon, <3>1 DEF OnDeckLoop, TryLock
  <2>4. QED
    BY <1>0, <2>1, <2>2, <2>3 DEF OnDeckLoop, TryLock, TypeOK
<1>2. SneakInv' /\ HeldInv'
  BY <1>0 DEF OnDeckLoop, TryLock, SneakInv, HeldInv, TypeOK, Holds, Inside, OwnerPCs
<1>3. ASSUME NEW u \in Threads PROVE StopInv(u)'
  <2>1. StopInv(u)
    BY Zenon DEF MInv, ThreadInv
  <2>2. QED
    BY <1>0, <2>1
    DEF OnDeckLoop, TryLock, ThreadInv, StopInv, TypeOK, InTBIVM, LockPCs, WaitPCs, UnlockPCs
<1>4. ASSUME NEW u \in Threads PROVE PosInv(u)'
  <2>1. ThreadInv(u) /\ PairInv(u, t)
    BY Zenon DEF MInv
  <2>2. QED
    BY <1>0, <2>1
    DEF OnDeckLoop, TryLock, ThreadInv, PosInv, PairInv, SneakInv, TypeOK, Inner, Holds,
        Inside, InCS, OwnerPCs
<1>5. \A u \in Threads : Kept(u, t)
  BY <1>0 DEF OnDeckLoop, TryLock, Kept, SneakInv, TypeOK, Inner, Holds, Inside, OwnerPCs
<1>6. QED
  BY Zenon, <1>1, <1>2, <1>3, <1>4, <1>5, PairKept DEF MInv, ThreadInv

\* Only the OnDeck thread itself clears OnDeck, and it holds the lock byte.
LEMMA ClearOnDeckStep ==
  ASSUME MInv, NEW t \in Threads, ClearOnDeck(t)
  PROVE  MInv'
<1>0. TypeOK /\ SneakInv /\ HeldInv /\ ThreadInv(t)
  BY Zenon DEF MInv
<1>1. TypeOK'
  BY <1>0 DEF ClearOnDeck, TypeOK, PCs, LockPCs, WaitPCs, UnlockPCs, OwnerPCs
<1>2. SneakInv' /\ HeldInv'
  BY <1>0 DEF ClearOnDeck, SneakInv, HeldInv, TypeOK, Holds, Inside, OwnerPCs
<1>3. ASSUME NEW u \in Threads PROVE StopInv(u)'
  <2>1. StopInv(u)
    BY Zenon DEF MInv, ThreadInv
  <2>2. QED
    BY <1>0, <2>1
    DEF ClearOnDeck, ThreadInv, StopInv, TypeOK, InTBIVM, LockPCs, WaitPCs, UnlockPCs
<1>4. ASSUME NEW u \in Threads PROVE PosInv(u)'
  <2>1. ThreadInv(u) /\ PairInv(u, t)
    BY Zenon DEF MInv
  <2>2. QED
    BY <1>0, <2>1
    DEF ClearOnDeck, ThreadInv, PosInv, PairInv, SneakInv, TypeOK, Inner, Holds, Inside, InCS,
        OwnerPCs
<1>5. \A u \in Threads : Kept(u, t)
  BY <1>0 DEF ClearOnDeck, Kept, SneakInv, TypeOK, Inner, Holds, Inside, OwnerPCs
<1>6. QED
  BY Zenon, <1>1, <1>2, <1>3, <1>4, <1>5, PairKept DEF MInv, ThreadInv

\* The thread holds the lock byte; it becomes the owner when no safepoint stops it.
LEMMA LeaveTBIVMStep ==
  ASSUME MInv, NEW t \in Threads, LeaveTBIVM(t)
  PROVE  MInv'
<1>0. TypeOK /\ SneakInv /\ HeldInv /\ ThreadInv(t)
  BY Zenon DEF MInv
<1>1. TypeOK'
  BY <1>0 DEF LeaveTBIVM, MayRun, set_owner, TypeOK, PCs, LockPCs, WaitPCs, UnlockPCs, OwnerPCs
<1>2. SneakInv' /\ HeldInv'
  BY <1>0 DEF LeaveTBIVM, MayRun, set_owner, SneakInv, HeldInv, TypeOK, Holds, Inside, OwnerPCs
<1>3. ASSUME NEW u \in Threads PROVE StopInv(u)'
  <2>1. StopInv(u)
    BY Zenon DEF MInv, ThreadInv
  <2>2. QED
    BY <1>0, <2>1
    DEF LeaveTBIVM, MayRun, set_owner, ThreadInv, StopInv, TypeOK, InTBIVM, LockPCs, WaitPCs,
        UnlockPCs
<1>4. ASSUME NEW u \in Threads PROVE PosInv(u)'
  <2>1. ThreadInv(u) /\ PairInv(u, t)
    BY Zenon DEF MInv
  <2>2. QED
    BY <1>0, <2>1
    DEF LeaveTBIVM, MayRun, set_owner, ThreadInv, PosInv, PairInv, SneakInv, TypeOK, Inner,
        Holds, Inside, InCS, OwnerPCs
<1>5. \A u \in Threads : Kept(u, t)
  BY <1>0
  DEF LeaveTBIVM, MayRun, set_owner, Kept, SneakInv, TypeOK, Inner, Holds, Inside, OwnerPCs
<1>6. QED
  BY Zenon, <1>1, <1>2, <1>3, <1>4, <1>5, PairKept DEF MInv, ThreadInv

\* Whoever unlocks during a sneak is the VM thread.
LEMMA UnlockStep ==
  ASSUME MInv, NEW t \in Threads, Unlock(t)
  PROVE  MInv'
<1>0. TypeOK /\ SneakInv /\ HeldInv /\ ThreadInv(t)
  BY Zenon DEF MInv
<1>1. TypeOK'
  <2>1. pc' \in [Threads -> PCs]
    <3>1. \E l \in {"idle", "readdeck"} : Goto(t, l)
      BY <1>0 DEF Unlock
    <3>2. QED
      BY Zenon, <1>0, <3>1, GotoType DEF PCs, LockPCs, UnlockPCs, OwnerPCs
  <2>2. \A u \in Threads : pc'[u] \in {"unpark", "notifypush", "notified"} => succ'[u] \in Threads
    BY <1>0 DEF Unlock, TypeOK
  <2>3. locked' \in BOOLEAN /\ snuck' \in BOOLEAN
    <3>1. locked \in BOOLEAN /\ snuck \in BOOLEAN
      BY Zenon, <1>0 DEF TypeOK
    <3>2. QED
      BY Zenon, <3>1 DEF Unlock
  <2>4. QED
    BY Zenon, <1>0, <2>1, <2>2, <2>3 DEF Unlock, TypeOK
<1>2. SneakInv' /\ HeldInv'
  BY <1>0 DEF Unlock, MayRun, SneakInv, HeldInv, TypeOK, Holds, Inside, OwnerPCs
<1>3. ASSUME NEW u \in Threads PROVE StopInv(u)'
  <2>1. StopInv(u)
    BY Zenon DEF MInv, ThreadInv
  <2>2. QED
    BY <1>0, <2>1
    DEF Unlock, MayRun, ThreadInv, StopInv, TypeOK, InTBIVM, LockPCs, WaitPCs, UnlockPCs
<1>4. ASSUME NEW u \in Threads PROVE PosInv(u)'
  <2>1. ThreadInv(u) /\ PairInv(u, t)
    BY Zenon DEF MInv
  <2>2. QED
    BY <1>0, <2>1
    DEF Unlock, MayRun, ThreadInv, PosInv, PairInv, SneakInv, TypeOK, Inner, Holds, Inside,
        InCS, OwnerPCs
<1>5. \A u \in Threads : Kept(u, t)
  BY <1>0 DEF Unlock, MayRun, Kept, SneakInv, TypeOK, Inner, Holds, Inside, OwnerPCs
<1>6. QED
  BY Zenon, <1>1, <1>2, <1>3, <1>4, <1>5, PairKept DEF MInv, ThreadInv

\* wait() drops the lock byte it holds.
LEMMA DropLockStep ==
  ASSUME MInv, NEW t \in Threads, DropLock(t)
  PROVE  MInv'
<1>0. TypeOK /\ SneakInv /\ HeldInv /\ ThreadInv(t)
  BY Zenon DEF MInv
<1>1. TypeOK'
  BY Zenon, <1>0 DEF DropLock, TypeOK, PCs, LockPCs, WaitPCs, UnlockPCs, OwnerPCs
<1>2. SneakInv' /\ HeldInv'
  BY Zenon, <1>0 DEF DropLock, SneakInv, HeldInv, TypeOK, Holds, Inside, OwnerPCs
<1>3. ASSUME NEW u \in Threads PROVE StopInv(u)'
  <2>1. StopInv(u)
    BY Zenon DEF MInv, ThreadInv
  <2>2. QED
    BY <1>0, <2>1 DEF DropLock, ThreadInv, StopInv, TypeOK, InTBIVM, LockPCs, WaitPCs, UnlockPCs
<1>4. ASSUME NEW u \in Threads PROVE PosInv(u)'
  <2>1. ThreadInv(u) /\ PairInv(u, t)
    BY Zenon DEF MInv
  <2>2. QED
    BY <1>0, <2>1
    DEF DropLock, ThreadInv, PosInv, PairInv, SneakInv, TypeOK, Inner, Holds, Inside, InCS,
        OwnerPCs
<1>5. \A u \in Threads : Kept(u, t)
  BY <1>0 DEF DropLock, Kept, SneakInv, TypeOK, Inner, Holds, Inside, OwnerPCs
<1>6. QED
  BY Zenon, <1>1, <1>2, <1>3, <1>4, <1>5, PairKept DEF MInv, ThreadInv

\* ReadOnDeck keeps the invariant.
LEMMA ReadOnDeckStep ==
  ASSUME MInv, NEW t \in Threads, ReadOnDeck(t)
  PROVE  MInv'
<1>0. TypeOK /\ SneakInv /\ HeldInv /\ ThreadInv(t)
  BY Zenon DEF MInv
<1>a. Moved(t, {"readword", "unpark", "idle", "waitloop"}) /\ UNCHANGED snuck
  <2>1. ret[t] \in {"idle", "waitloop"}
    BY Zenon, <1>0 DEF TypeOK
  <2>2. \E l \in {"readword", "unpark", "idle", "waitloop"} : Goto(t, l)
    BY Zenon, <2>1 DEF ReadOnDeck
  <2>3. QED
    BY Zenon, <1>0, <2>2, GotoMoves DEF ReadOnDeck, PCs, LockPCs, WaitPCs, UnlockPCs
<1>1. TypeOK'
  BY <1>0 DEF ReadOnDeck, TypeOK, PCs, LockPCs, WaitPCs, UnlockPCs, OwnerPCs
<1>2. SneakInv' /\ HeldInv'
  BY <1>0 DEF ReadOnDeck, SneakInv, HeldInv, TypeOK, Holds, Inside, OwnerPCs
<1>3. ASSUME NEW u \in Threads PROVE StopInv(u)'
  <2>1. StopInv(u)
    BY Zenon DEF MInv, ThreadInv
  <2>2. QED
    BY <1>0, <2>1
    DEF ReadOnDeck, ThreadInv, StopInv, TypeOK, InTBIVM, LockPCs, WaitPCs, UnlockPCs
<1>b. \A u \in Threads \ {t} : succ'[u] = succ[u]
  BY <1>0 DEF ReadOnDeck, TypeOK
<1>4. ASSUME NEW u \in Threads PROVE PosInv(u)'
  <2>1. PosInv(u) /\ UNCHANGED <<locked, owner, OnDeck, List, EntryList>>
    BY Zenon DEF MInv, ThreadInv, ReadOnDeck
  <2>2. QED
    BY <1>a, <1>b, <2>1 DEF Moved, PosInv, Inner, Holds, Inside, InCS, OwnerPCs
<1>5. \A u \in Threads : Kept(u, t)
  BY <1>a DEF Moved, Kept, Inner, Holds, Inside, OwnerPCs
<1>6. QED
  BY Zenon, <1>1, <1>2, <1>3, <1>4, <1>5, PairKept DEF MInv, ThreadInv

\* unpark keeps the invariant.
LEMMA unparkStep ==
  ASSUME MInv, NEW t \in Threads, unpark(t)
  PROVE  MInv'
<1>0. TypeOK /\ SneakInv /\ HeldInv /\ ThreadInv(t)
  BY Zenon DEF MInv
<1>a. Moved(t, {"idle", "waitloop"}) /\ UNCHANGED snuck
  <2>1. ret[t] \in {"idle", "waitloop"}
    BY Zenon, <1>0 DEF TypeOK
  <2>2. \E l \in {"idle", "waitloop"} : Goto(t, l)
    BY Zenon, <2>1 DEF unpark
  <2>3. QED
    BY Zenon, <1>0, <2>2, GotoMoves DEF unpark, PCs, LockPCs, WaitPCs, UnlockPCs
<1>1. TypeOK'
  BY <1>0 DEF unpark, TypeOK, PCs, LockPCs, WaitPCs, UnlockPCs, OwnerPCs
<1>2. SneakInv' /\ HeldInv'
  BY <1>0 DEF unpark, SneakInv, HeldInv, TypeOK, Holds, Inside, OwnerPCs
<1>3. ASSUME NEW u \in Threads PROVE StopInv(u)'
  <2>1. StopInv(u)
    BY Zenon DEF MInv, ThreadInv
  <2>2. QED
    BY <1>0, <2>1 DEF unpark, ThreadInv, StopInv, TypeOK, InTBIVM, LockPCs, WaitPCs, UnlockPCs
<1>b. \A u \in Threads \ {t} : succ'[u] = succ[u]
  BY Zenon, <1>0 DEF unpark, TypeOK
<1>4. ASSUME NEW u \in Threads PROVE PosInv(u)'
  <2>1. PosInv(u) /\ UNCHANGED <<locked, owner, OnDeck, List, EntryList>>
    BY Zenon DEF MInv, ThreadInv, unpark
  <2>2. QED
    BY <1>a, <1>b, <2>1 DEF Moved, PosInv, Inner, Holds, Inside, InCS, OwnerPCs
<1>5. \A u \in Threads : Kept(u, t)
  BY <1>a DEF Moved, Kept, Inner, Holds, Inside, OwnerPCs
<1>6. QED
  BY Zenon, <1>1, <1>2, <1>3, <1>4, <1>5, PairKept DEF MInv, ThreadInv

\* ReadLockWord keeps the invariant.
LEMMA ReadLockWordStep ==
  ASSUME MInv, NEW t \in Threads, ReadLockWord(t)
  PROVE  MInv'
<1>0. TypeOK /\ SneakInv /\ HeldInv /\ ThreadInv(t)
  BY Zenon DEF MInv
<1>a. Moved(t, {"succession", "readentry", "idle", "waitloop"}) /\ UNCHANGED snuck
  <2>1. ret[t] \in {"idle", "waitloop"}
    BY Zenon, <1>0 DEF TypeOK
  <2>2. \E l \in {"succession", "readentry", "idle", "waitloop"} : Goto(t, l)
    BY Zenon, <2>1 DEF ReadLockWord
  <2>3. QED
    BY Zenon, <1>0, <2>2, GotoMoves DEF ReadLockWord, PCs, LockPCs, WaitPCs, UnlockPCs
<1>1. TypeOK'
  <2>1. \A u \in Threads : pc'[u] \in {"unpark", "notifypush", "notified"} => succ[u] \in Threads
    BY Zenon, <1>0, <1>a DEF Moved, TypeOK
  <2>2. QED
    BY <1>0, <1>a, <2>1 DEF ReadLockWord, Moved, TypeOK
<1>2. SneakInv' /\ HeldInv'
  BY <1>0 DEF ReadLockWord, SneakInv, HeldInv, TypeOK, Holds, Inside, OwnerPCs
<1>3. ASSUME NEW u \in Threads PROVE StopInv(u)'
  <2>1. StopInv(u)
    BY Zenon DEF MInv, ThreadInv
  <2>2. QED
    BY Zenon, <1>0, <2>1
    DEF ReadLockWord, ThreadInv, StopInv, TypeOK, InTBIVM, LockPCs, WaitPCs, UnlockPCs
<1>4. ASSUME NEW u \in Threads PROVE PosInv(u)'
  <2>1. PosInv(u) /\ UNCHANGED <<locked, owner, OnDeck, List, EntryList, succ>>
    BY Zenon DEF MInv, ThreadInv, ReadLockWord
  <2>2. QED
    BY <1>a, <2>1 DEF Moved, PosInv, Inner, Holds, Inside, InCS, OwnerPCs
<1>5. \A u \in Threads : Kept(u, t)
  BY <1>a DEF Moved, Kept, Inner, Holds, Inside, OwnerPCs
<1>6. QED
  BY Zenon, <1>1, <1>2, <1>3, <1>4, <1>5, PairKept DEF MInv, ThreadInv

\* ReadEntryList keeps the invariant.
LEMMA ReadEntryListStep ==
  ASSUME MInv, NEW t \in Threads, ReadEntryList(t)
  PROVE  MInv'
<1>0. TypeOK /\ SneakInv /\ HeldInv /\ ThreadInv(t)
  BY Zenon DEF MInv
<1>a. Moved(t, {"succession", "idle", "waitloop"}) /\ UNCHANGED snuck
  <2>1. ret[t] \in {"idle", "waitloop"}
    BY Zenon, <1>0 DEF TypeOK
  <2>2. \E l \in {"succession", "idle", "waitloop"} : Goto(t, l)
    BY Zenon, <2>1 DEF ReadEntryList
  <2>3. QED
    BY Zenon, <1>0, <2>2, GotoMoves DEF ReadEntryList, PCs, LockPCs, WaitPCs, UnlockPCs
<1>1. TypeOK'
  <2>1. \A u \in Threads : pc'[u] \in {"unpark", "notifypush", "notified"} => succ[u] \in Threads
    BY Zenon, <1>0, <1>a DEF Moved, TypeOK
  <2>2. QED
    BY <1>0, <1>a, <2>1 DEF ReadEntryList, Moved, TypeOK
<1>2. SneakInv' /\ HeldInv'
  BY <1>0 DEF ReadEntryList, SneakInv, HeldInv, TypeOK, Holds, Inside, OwnerPCs
<1>3. ASSUME NEW u \in Threads PROVE StopInv(u)'
  <2>1. StopInv(u)
    BY Zenon DEF MInv, ThreadInv
  <2>2. QED
    BY <1>0, <2>1
    DEF ReadEntryList, ThreadInv, StopInv, TypeOK, InTBIVM, LockPCs, WaitPCs, UnlockPCs
<1>4. ASSUME NEW u \in Threads PROVE PosInv(u)'
  <2>1. PosInv(u) /\ UNCHANGED <<locked, owner, OnDeck, List, EntryList, succ>>
    BY Zenon DEF MInv, ThreadInv, ReadEntryList
  <2>2. QED
    BY <1>a, <2>1 DEF Moved, PosInv, Inner, Holds, Inside, InCS, OwnerPCs
<1>5. \A u \in Threads : Kept(u, t)
  BY <1>a DEF Moved, Kept, Inner, Holds, Inside, OwnerPCs
<1>6. QED
  BY Zenon, <1>1, <1>2, <1>3, <1>4, <1>5, PairKept DEF MInv, ThreadInv

\* The inner lock is taken from NULL, when no thread has it.
LEMMA SuccessionStep ==
  ASSUME MInv, NEW t \in Threads, Succession(t)
  PROVE  MInv'
<1>0. TypeOK /\ SneakInv /\ HeldInv /\ ThreadInv(t)
  BY Zenon DEF MInv
<1>a. Moved(t, {"drain", "wake", "idle", "waitloop"}) /\ UNCHANGED snuck
  <2>1. ret[t] \in {"idle", "waitloop"}
    BY Zenon, <1>0 DEF TypeOK
  <2>2. \E l \in {"drain", "wake", "idle", "waitloop"} : Goto(t, l)
    BY Zenon, <2>1 DEF Succession
  <2>3. QED
    BY Zenon, <1>0, <2>2, GotoMoves DEF Succession, PCs, LockPCs, WaitPCs, UnlockPCs
<1>1. TypeOK'
  <2>1. \A u \in Threads : pc'[u] \in {"unpark", "notifypush", "notified"} => succ[u] \in Threads
    BY Zenon, <1>0, <1>a DEF Moved, TypeOK
  <2>2. QED
    BY <1>0, <1>a, <2>1 DEF Succession, Moved, TypeOK
<1>2. SneakInv' /\ HeldInv'
  BY <1>0 DEF Succession, SneakInv, HeldInv, TypeOK, Holds, Inside, OwnerPCs
<1>3. ASSUME NEW u \in Threads PROVE StopInv(u)'
  <2>1. StopInv(u)
    BY Zenon DEF MInv, ThreadInv
  <2>2. QED
    BY <1>0, <2>1
    DEF Succession, ThreadInv, StopInv, TypeOK, InTBIVM, LockPCs, WaitPCs, UnlockPCs
<1>b. IF OnDeck = NULL THEN OnDeck' = LBIT /\ pc'[t] \in {"drain", "wake"}
                      ELSE OnDeck' = OnDeck /\ pc'[t] \in {"idle", "waitloop"}
  BY <1>0 DEF Succession, TypeOK
<1>c. pc'[t] = "wake" => EntryList # <<>>
  BY Zenon, <1>0 DEF Succession, TypeOK
<1>4. ASSUME NEW u \in Threads PROVE PosInv(u)'
  <2>1. PosInv(u) /\ UNCHANGED <<locked, owner, List, EntryList, succ>>
    BY Zenon DEF MInv, ThreadInv, Succession
  <2>2. CASE u = t
    BY Zenon, <1>a, <1>b, <1>c, <2>1, <2>2 DEF Moved, PosInv, Inner, Holds, Inside, InCS, OwnerPCs
  <2>3. CASE u # t
    BY <1>a, <1>b, <2>1, <2>3 DEF Moved, PosInv, Inner, Holds, Inside, InCS
  <2>4. QED
    BY Zenon, <2>2, <2>3
<1>5. \A u \in Threads : Kept(u, t)
  BY <1>a, <1>b DEF Moved, Kept, Inner, Holds, Inside, OwnerPCs
<1>6. QED
  BY Zenon, <1>1, <1>2, <1>3, <1>4, <1>5, PairKept DEF MInv, ThreadInv

\* DrainCxq keeps the invariant.
LEMMA DrainCxqStep ==
  ASSUME MInv, NEW t \in Threads, DrainCxq(t)
  PROVE  MInv'
<1>0. TypeOK /\ SneakInv /\ HeldInv /\ ThreadInv(t)
  BY Zenon DEF MInv
<1>1. TypeOK'
  <2>1. pc' \in [Threads -> PCs]
    <3>1. \E l \in {"punt", "merge"} : Goto(t, l)
      BY Zenon, <1>0 DEF DrainCxq
    <3>2. QED
      BY Zenon, <1>0, <3>1, GotoType DEF PCs, LockPCs, UnlockPCs, OwnerPCs
  <2>2. \A u \in Threads : pc'[u] \in {"unpark", "notifypush", "notified"} => succ'[u] \in Threads
    BY <1>0 DEF DrainCxq, TypeOK
  <2>3. cxq' \in Seq(Threads) /\ List' \in [Threads -> Seq(Threads)]
    <3>1. cxq \in Seq(Threads) /\ List \in [Threads -> Seq(Threads)]
      BY Zenon, <1>0 DEF TypeOK
    <3>2. cxq' \in {cxq, <<>>} /\ (List' = List \/ List' = [List EXCEPT ![t] = cxq])
      BY Zenon DEF DrainCxq
    <3>3. [List EXCEPT ![t] = cxq] \in [Threads -> Seq(Threads)]
      BY Zenon, <3>1
    <3>4. <<>> \in Seq(Threads)
      OBVIOUS
    <3>5. QED
      BY Zenon, <3>1, <3>2, <3>3, <3>4
  <2>4. QED
    BY Zenon, <1>0, <2>1, <2>2, <2>3 DEF DrainCxq, TypeOK
<1>2. SneakInv' /\ HeldInv'
  BY <1>0 DEF DrainCxq, SneakInv, HeldInv, TypeOK, Holds, Inside, OwnerPCs
<1>3. ASSUME NEW u \in Threads PROVE StopInv(u)'
  <2>1. StopInv(u)
    BY Zenon DEF MInv, ThreadInv
  <2>2. QED
    BY <1>0, <2>1 DEF DrainCxq, ThreadInv, StopInv, TypeOK, InTBIVM, LockPCs, WaitPCs, UnlockPCs
<1>4. ASSUME NEW u \in Threads PROVE PosInv(u)'
  <2>1. ThreadInv(u) /\ PairInv(u, t)
    BY Zenon DEF MInv
  <2>2. QED
    BY <1>0, <2>1
    DEF DrainCxq, ThreadInv, PosInv, PairInv, SneakInv, TypeOK, Inner, Holds, Inside, InCS,
        OwnerPCs
<1>5. \A u \in Threads : Kept(u, t)
  BY <1>0 DEF DrainCxq, Kept, SneakInv, TypeOK, Inner, Holds, Inside, OwnerPCs
<1>6. QED
  BY Zenon, <1>1, <1>2, <1>3, <1>4, <1>5, PairKept DEF MInv, ThreadInv

\* MergeIntoEntryList keeps the invariant.
LEMMA MergeIntoEntryListStep ==
  ASSUME MInv, NEW t \in Threads, MergeIntoEntryList(t)
  PROVE  MInv'
<1>0. TypeOK /\ SneakInv /\ HeldInv /\ ThreadInv(t)
  BY Zenon DEF MInv
<1>1. TypeOK'
  BY <1>0 DEF MergeIntoEntryList, TypeOK, PCs, LockPCs, WaitPCs, UnlockPCs, OwnerPCs
<1>2. SneakInv' /\ HeldInv'
  BY <1>0 DEF MergeIntoEntryList, SneakInv, HeldInv, TypeOK, Holds, Inside, OwnerPCs
<1>3. ASSUME NEW u \in Threads PROVE StopInv(u)'
  <2>1. StopInv(u)
    BY Zenon DEF MInv, ThreadInv
  <2>2. QED
    BY <1>0, <2>1
    DEF MergeIntoEntryList, ThreadInv, StopInv, TypeOK, InTBIVM, LockPCs, WaitPCs, UnlockPCs
<1>4. ASSUME NEW u \in Threads PROVE PosInv(u)'
  <2>1. ThreadInv(u) /\ PairInv(u, t)
    BY Zenon DEF MInv
  <2>2. QED
    BY <1>0, <2>1
    DEF MergeIntoEntryList, ThreadInv, PosInv, PairInv, SneakInv, TypeOK, Inner, Holds, Inside,
        InCS, OwnerPCs
<1>5. \A u \in Threads : Kept(u, t)
  BY <1>0 DEF MergeIntoEntryList, Kept, SneakInv, TypeOK, Inner, Holds, Inside, OwnerPCs
<1>6. QED
  BY Zenon, <1>1, <1>2, <1>3, <1>4, <1>5, PairKept DEF MInv, ThreadInv

\* The holder of the inner lock hands OnDeck to the head of the EntryList.
LEMMA WakeOneStep ==
  ASSUME MInv, NEW t \in Threads, WakeOne(t)
  PROVE  MInv'
<1>0. TypeOK /\ SneakInv /\ HeldInv /\ ThreadInv(t)
  BY Zenon DEF MInv
<1>a. Head(EntryList) \in Threads /\ Tail(EntryList) \in Seq(Threads)
  BY <1>0 DEF WakeOne, ThreadInv, PosInv, TypeOK
<1>1. TypeOK'
  BY <1>0, <1>a DEF WakeOne, TypeOK, PCs, LockPCs, WaitPCs, UnlockPCs, OwnerPCs
<1>2. SneakInv' /\ HeldInv'
  BY <1>0 DEF WakeOne, SneakInv, HeldInv, TypeOK, Holds, Inside, OwnerPCs
<1>3. ASSUME NEW u \in Threads PROVE StopInv(u)'
  <2>1. StopInv(u)
    BY Zenon DEF MInv, ThreadInv
  <2>2. QED
    BY <1>0, <2>1 DEF WakeOne, ThreadInv, StopInv, TypeOK, InTBIVM, LockPCs, WaitPCs, UnlockPCs
<1>4. ASSUME NEW u \in Threads PROVE PosInv(u)'
  <2>1. ThreadInv(u) /\ PairInv(u, t)
    BY Zenon DEF MInv
  <2>2. QED
    BY <1>0, <2>1
    DEF WakeOne, ThreadInv, PosInv, PairInv, SneakInv, TypeOK, Inner, Holds, Inside, InCS,
        OwnerPCs
<1>5. \A u \in Threads : Kept(u, t)
  BY <1>0 DEF WakeOne, Kept, SneakInv, TypeOK, Inner, Holds, Inside, OwnerPCs
<1>6. QED
  BY Zenon, <1>1, <1>2, <1>3, <1>4, <1>5, PairKept DEF MInv, ThreadInv

\* Recheck keeps the invariant.
LEMMA RecheckStep ==
  ASSUME MInv, NEW t \in Threads, Recheck(t)
  PROVE  MInv'
<1>0. TypeOK /\ SneakInv /\ HeldInv /\ ThreadInv(t)
  BY Zenon DEF MInv
<1>a. Moved(t, {"unpark", "idle", "waitloop"}) /\ UNCHANGED snuck
  <2>1. ret[t] \in {"idle", "waitloop"}
    BY Zenon, <1>0 DEF TypeOK
  <2>2. \E l \in {"unpark", "idle", "waitloop"} : Goto(t, l)
    BY Zenon, <2>1 DEF Recheck
  <2>3. QED
    BY Zenon, <1>0, <2>2, GotoMoves DEF Recheck, PCs, LockPCs, WaitPCs, UnlockPCs
<1>1. TypeOK'
  <2>1. pc' \in [Threads -> PCs]
    BY <1>0 DEF Recheck, ThreadInv, PosInv, TypeOK, PCs, LockPCs, WaitPCs, UnlockPCs, OwnerPCs
  <2>2. \A u \in Threads : pc'[u] \in {"unpark", "notifypush", "notified"} => succ'[u] \in Threads
    BY Zenon, <1>0 DEF Recheck, ThreadInv, PosInv, TypeOK
  <2>3. succ' \in [Threads -> Threads \cup {NULL}]
    BY Zenon, <1>0 DEF Recheck, TypeOK
  <2>4. QED
    BY <1>0, <2>1, <2>2, <2>3 DEF Recheck, TypeOK
<1>2. SneakInv' /\ HeldInv'
  BY <1>0 DEF Recheck, SneakInv, HeldInv, TypeOK, Holds, Inside, OwnerPCs
<1>3. ASSUME NEW u \in Threads PROVE StopInv(u)'
  <2>1. StopInv(u)
    BY Zenon DEF MInv, ThreadInv
  <2>2. QED
    BY <1>0, <2>1 DEF Recheck, ThreadInv, StopInv, TypeOK, InTBIVM, LockPCs, WaitPCs, UnlockPCs
<1>b. \A u \in Threads \ {t} : succ'[u] = succ[u]
  BY Zenon, <1>0 DEF Recheck, TypeOK
<1>4. ASSUME NEW u \in Threads PROVE PosInv(u)'
  <2>1. PosInv(u) /\ UNCHANGED <<locked, owner, OnDeck, List, EntryList>>
    BY Zenon DEF MInv, ThreadInv, Recheck
  <2>2. QED
    BY <1>a, <1>b, <2>1 DEF Moved, PosInv, Inner, Holds, Inside, InCS, OwnerPCs
<1>5. \A u \in Threads : Kept(u, t)
  BY <1>a DEF Moved, Kept, Inner, Holds, Inside, OwnerPCs
<1>6. QED
  BY Zenon, <1>1, <1>2, <1>3, <1>4, <1>5, PairKept DEF MInv, ThreadInv

\* The holder of the inner lock drops it.
LEMMA PuntStep ==
  ASSUME MInv, NEW t \in Threads, Punt(t)
  PROVE  MInv'
<1>0. TypeOK /\ SneakInv /\ HeldInv /\ ThreadInv(t)
  BY Zenon DEF MInv
<1>1. TypeOK'
  BY <1>0 DEF Punt, TypeOK, PCs, LockPCs, WaitPCs, UnlockPCs, OwnerPCs
<1>2. SneakInv' /\ HeldInv'
  BY <1>0 DEF Punt, SneakInv, HeldInv, TypeOK, Holds, Inside, OwnerPCs
<1>3. ASSUME NEW u \in Threads PROVE StopInv(u)'
  <2>1. StopInv(u)
    BY Zenon DEF MInv, ThreadInv
  <2>2. QED
    BY <1>0, <2>1 DEF Punt, ThreadInv, StopInv, TypeOK, InTBIVM, LockPCs, WaitPCs, UnlockPCs
<1>4. ASSUME NEW u \in Threads PROVE PosInv(u)'
  <2>1. ThreadInv(u) /\ PairInv(u, t)
    BY Zenon DEF MInv
  <2>2. QED
    BY <1>0, <2>1
    DEF Punt, ThreadInv, PosInv, PairInv, SneakInv, TypeOK, Inner, Holds, Inside, InCS, OwnerPCs
<1>5. \A u \in Threads : Kept(u, t)
  BY <1>0 DEF Punt, Kept, SneakInv, TypeOK, Inner, Holds, Inside, OwnerPCs
<1>6. QED
  BY Zenon, <1>1, <1>2, <1>3, <1>4, <1>5, PairKept DEF MInv, ThreadInv

\* Resample keeps the invariant.
LEMMA ResampleStep ==
  ASSUME MInv, NEW t \in Threads, Resample(t)
  PROVE  MInv'
<1>0. TypeOK /\ SneakInv /\ HeldInv /\ ThreadInv(t)
  BY Zenon DEF MInv
<1>a. Moved(t, {"succession", "idle", "waitloop"}) /\ UNCHANGED snuck
  <2>1. ret[t] \in {"idle", "waitloop"}
    BY Zenon, <1>0 DEF TypeOK
  <2>2. \E l \in {"succession", "idle", "waitloop"} : Goto(t, l)
    BY Zenon, <2>1 DEF Resample
  <2>3. QED
    BY Zenon, <1>0, <2>2, GotoMoves DEF Resample, PCs, LockPCs, WaitPCs, UnlockPCs
<1>1. TypeOK'
  <2>1. \A u \in Threads : pc'[u] \in {"unpark", "notifypush", "notified"} => succ[u] \in Threads
    BY Zenon, <1>0, <1>a DEF Moved, TypeOK
  <2>2. QED
    BY <1>0, <1>a, <2>1 DEF Resample, Moved, TypeOK
<1>2. SneakInv' /\ HeldInv'
  BY <1>0 DEF Resample, SneakInv, HeldInv, TypeOK, Holds, Inside, OwnerPCs
<1>3. ASSUME NEW u \in Threads PROVE StopInv(u)'
  <2>1. StopInv(u)
    BY Zenon DEF MInv, ThreadInv
  <2>2. QED
    BY <1>0, <2>1 DEF Resample, ThreadInv, StopInv, TypeOK, InTBIVM, LockPCs, WaitPCs, UnlockPCs
<1>4. ASSUME NEW u \in Threads PROVE PosInv(u)'
  <2>1. PosInv(u) /\ UNCHANGED <<locked, owner, OnDeck, List, EntryList, succ>>
    BY Zenon DEF MInv, ThreadInv, Resample
  <2>2. QED
    BY <1>a, <2>1 DEF Moved, PosInv, Inner, Holds, Inside, InCS, OwnerPCs
<1>5. \A u \in Threads : Kept(u, t)
  BY Zenon, <1>a DEF Moved, Kept, Inner, Holds, Inside, OwnerPCs
<1>6. QED
  BY Zenon, <1>1, <1>2, <1>3, <1>4, <1>5, PairKept DEF MInv, ThreadInv

\* Wait keeps the invariant.
LEMMA WaitStep ==
  ASSUME MInv, NEW t \in Threads, Wait(t)
  PROVE  MInv'
<1>0. TypeOK /\ SneakInv /\ HeldInv /\ ThreadInv(t)
  BY Zenon DEF MInv
<1>1. TypeOK'
  BY <1>0 DEF Wait, TypeOK, PCs, LockPCs, WaitPCs, UnlockPCs, OwnerPCs
<1>2. SneakInv' /\ HeldInv'
  BY <1>0 DEF Wait, SneakInv, HeldInv, TypeOK, Holds, Inside, OwnerPCs
<1>3. ASSUME NEW u \in Threads PROVE StopInv(u)'
  <2>1. StopInv(u)
    BY Zenon DEF MInv, ThreadInv
  <2>2. QED
    BY <1>0, <2>1 DEF Wait, ThreadInv, StopInv, TypeOK, InTBIVM, LockPCs, WaitPCs, UnlockPCs
<1>4. ASSUME NEW u \in Threads PROVE PosInv(u)'
  <2>1. ThreadInv(u) /\ PairInv(u, t)
    BY Zenon DEF MInv
  <2>2. QED
    BY <1>0, <2>1
    DEF Wait, ThreadInv, PosInv, PairInv, SneakInv, TypeOK, Inner, Holds, Inside, InCS, OwnerPCs
<1>5. \A u \in Threads : Kept(u, t)
  BY <1>0 DEF Wait, Kept, SneakInv, TypeOK, Inner, Holds, Inside, OwnerPCs
<1>6. QED
  BY Zenon, <1>1, <1>2, <1>3, <1>4, <1>5, PairKept DEF MInv, ThreadInv

\* AddToWaitSet keeps the invariant.
LEMMA AddToWaitSetStep ==
  ASSUME MInv, NEW t \in Threads, AddToWaitSet(t)
  PROVE  MInv'
<1>0. TypeOK /\ SneakInv /\ HeldInv /\ ThreadInv(t)
  BY Zenon DEF MInv
<1>1. TypeOK'
  BY <1>0 DEF AddToWaitSet, TypeOK, PCs, LockPCs, WaitPCs, UnlockPCs, OwnerPCs
<1>2. SneakInv' /\ HeldInv'
  BY <1>0 DEF AddToWaitSet, SneakInv, HeldInv, TypeOK, Holds, Inside, OwnerPCs
<1>3. ASSUME NEW u \in Threads PROVE StopInv(u)'
  <2>1. StopInv(u)
    BY Zenon DEF MInv, ThreadInv
  <2>2. QED
    BY <1>0, <2>1
    DEF AddToWaitSet, ThreadInv, StopInv, TypeOK, InTBIVM, LockPCs, WaitPCs, UnlockPCs
<1>4. ASSUME NEW u \in Threads PROVE PosInv(u)'
  <2>1. ThreadInv(u) /\ PairInv(u, t)
    BY Zenon DEF MInv
  <2>2. QED
    BY <1>0, <2>1
    DEF AddToWaitSet, ThreadInv, PosInv, PairInv, SneakInv, TypeOK, Inner, Holds, Inside, InCS,
        OwnerPCs
<1>5. \A u \in Threads : Kept(u, t)
  BY <1>0 DEF AddToWaitSet, Kept, SneakInv, TypeOK, Inner, Holds, Inside, OwnerPCs
<1>6. QED
  BY Zenon, <1>1, <1>2, <1>3, <1>4, <1>5, PairKept DEF MInv, ThreadInv

\* WaitLoop keeps the invariant.
LEMMA WaitLoopStep ==
  ASSUME MInv, NEW t \in Threads, WaitLoop(t)
  PROVE  MInv'
<1>0. TypeOK /\ SneakInv /\ HeldInv /\ ThreadInv(t)
  BY Zenon DEF MInv
<1>1. TypeOK'
  BY <1>0 DEF WaitLoop, TypeOK, PCs, LockPCs, WaitPCs, UnlockPCs, OwnerPCs
<1>2. SneakInv' /\ HeldInv'
  BY <1>0 DEF WaitLoop, SneakInv, HeldInv, TypeOK, Holds, Inside, OwnerPCs
<1>3. ASSUME NEW u \in Threads PROVE StopInv(u)'
  <2>1. StopInv(u)
    BY Zenon DEF MInv, ThreadInv
  <2>2. QED
    BY Zenon, <1>0, <2>1 DEF WaitLoop, ThreadInv, StopInv, TypeOK, InTBIVM, LockPCs, WaitPCs, UnlockPCs
<1>4. ASSUME NEW u \in Threads PROVE PosInv(u)'
  <2>1. ThreadInv(u) /\ PairInv(u, t)
    BY Zenon DEF MInv
  <2>2. QED
    BY <1>0, <2>1
    DEF WaitLoop, ThreadInv, PosInv, PairInv, SneakInv, TypeOK, Inner, Holds, Inside, InCS,
        OwnerPCs
<1>5. \A u \in Threads : Kept(u, t)
  BY Zenon, <1>0 DEF WaitLoop, Kept, SneakInv, TypeOK, Inner, Holds, Inside, OwnerPCs
<1>6. QED
  BY Zenon, <1>1, <1>2, <1>3, <1>4, <1>5, PairKept DEF MInv, ThreadInv

\* Timeout keeps the invariant.
LEMMA TimeoutStep ==
  ASSUME MInv, NEW t \in Threads, Timeout(t)
  PROVE  MInv'
<1>0. TypeOK /\ SneakInv /\ HeldInv /\ ThreadInv(t)
  BY Zenon DEF MInv
<1>1. TypeOK'
  BY <1>0 DEF Timeout, TypeOK, PCs, LockPCs, WaitPCs, UnlockPCs, OwnerPCs
<1>2. SneakInv' /\ HeldInv'
  BY <1>0 DEF Timeout, SneakInv, HeldInv, TypeOK, Holds, Inside, OwnerPCs
<1>3. ASSUME NEW u \in Threads PROVE StopInv(u)'
  <2>1. StopInv(u)
    BY Zenon DEF MInv, ThreadInv
  <2>2. QED
    BY Zenon, <1>0, <2>1 DEF Timeout, ThreadInv, StopInv, TypeOK, InTBIVM, LockPCs, WaitPCs, UnlockPCs
<1>4. ASSUME NEW u \in Threads PROVE PosInv(u)'
  <2>1. ThreadInv(u) /\ PairInv(u, t)
    BY Zenon DEF MInv
  <2>2. QED
    BY <1>0, <2>1
    DEF Timeout, ThreadInv, PosInv, PairInv, SneakInv, TypeOK, Inner, Holds, Inside, InCS,
        OwnerPCs
<1>5. \A u \in Threads : Kept(u, t)
  BY Zenon, <1>0 DEF Timeout, Kept, SneakInv, TypeOK, Inner, Holds, Inside, OwnerPCs
<1>6. QED
  BY Zenon, <1>1, <1>2, <1>3, <1>4, <1>5, PairKept DEF MInv, ThreadInv

\* RemoveFromWaitSet keeps the invariant.
LEMMA RemoveFromWaitSetStep ==
  ASSUME MInv, NEW t \in Threads, RemoveFromWaitSet(t)
  PROVE  MInv'
<1>0. TypeOK /\ SneakInv /\ HeldInv /\ ThreadInv(t)
  BY Zenon DEF MInv
<1>1. TypeOK'
  <2>1. pc' \in [Threads -> PCs]
    <3>1. \E l \in {"check", "ilock"} : Goto(t, l)
      BY Zenon, <1>0 DEF RemoveFromWaitSet
    <3>2. QED
      BY Zenon, <1>0, <3>1, GotoType DEF PCs, LockPCs, UnlockPCs, OwnerPCs
  <2>2. \A u \in Threads : pc'[u] \in {"unpark", "notifypush", "notified"} => succ'[u] \in Threads
    BY <1>0 DEF RemoveFromWaitSet, TypeOK
  <2>3. WaitSet' \in Seq(Threads)
    <3>1. WaitSet \in Seq(Threads)
      BY Zenon, <1>0 DEF TypeOK
    <3>2. Unlink(WaitSet, t) \in Seq(Threads)
      BY Zenon, <3>1, UnlinkType
    <3>3. WaitSet' \in {WaitSet, Unlink(WaitSet, t)}
      BY Zenon DEF RemoveFromWaitSet
    <3>4. QED
      BY Zenon, <3>1, <3>2, <3>3
  <2>4. QED
    BY Zenon, <1>0, <2>1, <2>2, <2>3 DEF RemoveFromWaitSet, TypeOK
<1>2. SneakInv' /\ HeldInv'
  BY <1>0 DEF RemoveFromWaitSet, SneakInv, HeldInv, TypeOK, Holds, Inside, OwnerPCs
<1>3. ASSUME NEW u \in Threads PROVE StopInv(u)'
  <2>1. StopInv(u)
    BY Zenon DEF MInv, ThreadInv
  <2>2. QED
    BY <1>0, <2>1
    DEF RemoveFromWaitSet, ThreadInv, StopInv, TypeOK, InTBIVM, LockPCs, WaitPCs, UnlockPCs
<1>4. ASSUME NEW u \in Threads PROVE PosInv(u)'
  <2>1. ThreadInv(u) /\ PairInv(u, t)
    BY Zenon DEF MInv
  <2>2. QED
    BY <1>0, <2>1
    DEF RemoveFromWaitSet, ThreadInv, PosInv, PairInv, SneakInv, TypeOK, Inner, Holds, Inside,
        InCS, OwnerPCs
<1>5. \A u \in Threads : Kept(u, t)
  BY <1>0 DEF RemoveFromWaitSet, Kept, SneakInv, TypeOK, Inner, Holds, Inside, OwnerPCs
<1>6. QED
  BY Zenon, <1>1, <1>2, <1>3, <1>4, <1>5, PairKept DEF MInv, ThreadInv

\* Notify keeps the invariant.
LEMMA NotifyStep ==
  ASSUME MInv, NEW t \in Threads, Notify(t)
  PROVE  MInv'
<1>0. TypeOK /\ SneakInv /\ HeldInv /\ ThreadInv(t)
  BY Zenon DEF MInv
<1>1. TypeOK'
  BY <1>0 DEF Notify, MayRun, TypeOK, PCs, LockPCs, WaitPCs, UnlockPCs, OwnerPCs
<1>2. SneakInv' /\ HeldInv'
  BY Zenon, <1>0 DEF Notify, MayRun, SneakInv, HeldInv, TypeOK, Holds, Inside, OwnerPCs
<1>3. ASSUME NEW u \in Threads PROVE StopInv(u)'
  <2>1. StopInv(u)
    BY Zenon DEF MInv, ThreadInv
  <2>2. QED
    BY <1>0, <2>1
    DEF Notify, MayRun, ThreadInv, StopInv, TypeOK, InTBIVM, LockPCs, WaitPCs, UnlockPCs
<1>4. ASSUME NEW u \in Threads PROVE PosInv(u)'
  <2>1. ThreadInv(u) /\ PairInv(u, t)
    BY Zenon DEF MInv
  <2>2. QED
    BY Zenon, <1>0, <2>1
    DEF Notify, MayRun, ThreadInv, PosInv, PairInv, SneakInv, TypeOK, Inner, Holds, Inside,
        InCS, OwnerPCs
<1>5. \A u \in Threads : Kept(u, t)
  BY Zenon, <1>0 DEF Notify, MayRun, Kept, SneakInv, TypeOK, Inner, Holds, Inside, OwnerPCs
<1>6. QED
  BY Zenon, <1>1, <1>2, <1>3, <1>4, <1>5, PairKept DEF MInv, ThreadInv

\* NotifyPop keeps the invariant.
LEMMA NotifyPopStep ==
  ASSUME MInv, NEW t \in Threads, NotifyPop(t)
  PROVE  MInv'
<1>0. TypeOK /\ SneakInv /\ HeldInv /\ ThreadInv(t)
  BY Zenon DEF MInv
<1>a. WaitSet # <<>> => Head(WaitSet) \in Threads /\ Tail(WaitSet) \in Seq(Threads)
  BY <1>0 DEF TypeOK
<1>1. TypeOK'
  <2>1. pc' \in [Threads -> PCs]
    <3>1. \E l \in {"cs", "notifypush"} : Goto(t, l)
      BY Zenon, <1>0 DEF NotifyPop
    <3>2. QED
      BY Zenon, <1>0, <3>1, GotoType DEF PCs, LockPCs, UnlockPCs, OwnerPCs
  <2>2. \A u \in Threads : pc'[u] \in {"unpark", "notifypush", "notified"} => succ'[u] \in Threads
    BY <1>0, <1>a DEF NotifyPop, TypeOK
  <2>3. /\ WaitSet' \in Seq(Threads) /\ WaitLock' \in Threads \cup {NULL}
        /\ succ' \in [Threads -> Threads \cup {NULL}]
    <3>1. WaitSet \in Seq(Threads) /\ succ \in [Threads -> Threads \cup {NULL}]
      BY Zenon, <1>0 DEF TypeOK
    <3>2. QED
      BY Zenon, <3>1, <1>a DEF NotifyPop
  <2>4. QED
    BY Zenon, <1>0, <2>1, <2>2, <2>3 DEF NotifyPop, TypeOK
<1>2. SneakInv' /\ HeldInv'
  BY <1>0 DEF NotifyPop, SneakInv, HeldInv, TypeOK, Holds, Inside, OwnerPCs
<1>3. ASSUME NEW u \in Threads PROVE StopInv(u)'
  <2>1. StopInv(u)
    BY Zenon DEF MInv, ThreadInv
  <2>2. QED
    BY <1>0, <2>1
    DEF NotifyPop, ThreadInv, StopInv, TypeOK, InTBIVM, LockPCs, WaitPCs, UnlockPCs
<1>4. ASSUME NEW u \in Threads PROVE PosInv(u)'
  <2>1. ThreadInv(u) /\ PairInv(u, t)
    BY Zenon DEF MInv
  <2>2. QED
    BY SMTT(20), <1>0, <2>1
    DEF NotifyPop, ThreadInv, PosInv, PairInv, SneakInv, TypeOK, Inner, Holds, Inside, InCS,
        OwnerPCs
<1>5. \A u \in Threads : Kept(u, t)
  BY <1>0 DEF NotifyPop, Kept, SneakInv, TypeOK, Inner, Holds, Inside, OwnerPCs
<1>6. QED
  BY Zenon, <1>1, <1>2, <1>3, <1>4, <1>5, PairKept DEF MInv, ThreadInv

\* NotifyPush keeps the invariant.
LEMMA NotifyPushStep ==
  ASSUME MInv, NEW t \in Threads, NotifyPush(t)
  PROVE  MInv'
<1>0. TypeOK /\ SneakInv /\ HeldInv /\ ThreadInv(t)
  BY Zenon DEF MInv
<1>1. TypeOK'
  BY <1>0 DEF NotifyPush, TypeOK, PCs, LockPCs, WaitPCs, UnlockPCs, OwnerPCs
<1>2. SneakInv' /\ HeldInv'
  BY <1>0 DEF NotifyPush, SneakInv, HeldInv, TypeOK, Holds, Inside, OwnerPCs
<1>3. ASSUME NEW u \in Threads PROVE StopInv(u)'
  <2>1. StopInv(u)
    BY Zenon DEF MInv, ThreadInv
  <2>2. QED
    BY Zenon, <1>0, <2>1
    DEF NotifyPush, ThreadInv, StopInv, TypeOK, InTBIVM, LockPCs, WaitPCs, UnlockPCs
<1>4. ASSUME NEW u \in Threads PROVE PosInv(u)'
  <2>1. ThreadInv(u) /\ PairInv(u, t)
    BY Zenon DEF MInv
  <2>2. QED
    BY <1>0, <2>1
    DEF NotifyPush, ThreadInv, PosInv, PairInv, SneakInv, TypeOK, Inner, Holds, Inside, InCS,
        OwnerPCs
<1>5. \A u \in Threads : Kept(u, t)
  BY Zenon, <1>0 DEF NotifyPush, Kept, SneakInv, TypeOK, Inner, Holds, Inside, OwnerPCs
<1>6. QED
  BY Zenon, <1>1, <1>2, <1>3, <1>4, <1>5, PairKept DEF MInv, ThreadInv

\* NotifyDone keeps the invariant.
LEMMA NotifyDoneStep ==
  ASSUME MInv, NEW t \in Threads, NotifyDone(t)
  PROVE  MInv'
<1>0. TypeOK /\ SneakInv /\ HeldInv /\ ThreadInv(t)
  BY Zenon DEF MInv
<1>1. TypeOK'
  BY <1>0 DEF NotifyDone, TypeOK, PCs, LockPCs, WaitPCs, UnlockPCs, OwnerPCs
<1>2. SneakInv' /\ HeldInv'
  BY <1>0 DEF NotifyDone, SneakInv, HeldInv, TypeOK, Holds, Inside, OwnerPCs
<1>3. ASSUME NEW u \in Threads PROVE StopInv(u)'
  <2>1. StopInv(u)
    BY Zenon DEF MInv, ThreadInv
  <2>2. QED
    BY Zenon, <1>0, <2>1
    DEF NotifyDone, ThreadInv, StopInv, TypeOK, InTBIVM, LockPCs, WaitPCs, UnlockPCs
<1>4. ASSUME NEW u \in Threads PROVE PosInv(u)'
  <2>1. ThreadInv(u) /\ PairInv(u, t)
    BY Zenon DEF MInv
  <2>2. QED
    BY <1>0, <2>1
    DEF NotifyDone, ThreadInv, PosInv, PairInv, SneakInv, TypeOK, Inner, Holds, Inside, InCS,
        OwnerPCs
<1>5. \A u \in Threads : Kept(u, t)
  BY Zenon, <1>0 DEF NotifyDone, Kept, SneakInv, TypeOK, Inner, Holds, Inside, OwnerPCs
<1>6. QED
  BY Zenon, <1>1, <1>2, <1>3, <1>4, <1>5, PairKept DEF MInv, ThreadInv

\* BeginSafepoint keeps the invariant.
LEMMA BeginSafepointStep ==
  ASSUME MInv, BeginSafepoint
  PROVE  MInv'
<1>0. TypeOK /\ SneakInv /\ HeldInv
  BY Zenon DEF MInv
<1>1. TypeOK'
  BY Zenon, <1>0 DEF BeginSafepoint, TypeOK, PCs, LockPCs, WaitPCs, UnlockPCs, OwnerPCs
<1>2. SneakInv' /\ HeldInv'
  BY Zenon, <1>0 DEF BeginSafepoint, SneakInv, HeldInv, TypeOK, Holds, Inside, OwnerPCs
<1>3. ASSUME NEW u \in Threads PROVE StopInv(u)'
  <2>1. StopInv(u)
    BY Zenon DEF MInv, ThreadInv
  <2>2. QED
    BY Zenon, <1>0, <2>1
    DEF BeginSafepoint, ThreadInv, StopInv, TypeOK, InTBIVM, LockPCs, WaitPCs, UnlockPCs
<1>4. ASSUME NEW u \in Threads PROVE PosInv(u)'
  <2>1. ThreadInv(u) /\ PairInv(u, u)
    BY SMTT(20) DEF MInv
  <2>2. QED
    BY Zenon, <1>0, <2>1
    DEF BeginSafepoint, ThreadInv, PosInv, PairInv, SneakInv, TypeOK, Inner, Holds, Inside,
        InCS, OwnerPCs
<1>5. ASSUME NEW u \in Threads, NEW v \in Threads PROVE PairInv(u, v)'
  <2>1. PairInv(u, v)
    BY Zenon DEF MInv
  <2>2. QED
    BY Zenon, <2>1 DEF BeginSafepoint, PairInv, Inner, Holds, Inside
<1>6. QED
  BY Zenon, <1>1, <1>2, <1>3, <1>4, <1>5 DEF MInv, ThreadInv

\* EndSafepoint keeps the invariant.
LEMMA EndSafepointStep ==
  ASSUME MInv, EndSafepoint
  PROVE  MInv'
<1>0. TypeOK /\ SneakInv /\ HeldInv
  BY Zenon DEF MInv
<1>1. TypeOK'
  BY Zenon, <1>0 DEF EndSafepoint, TypeOK, PCs, LockPCs, WaitPCs, UnlockPCs, OwnerPCs
<1>2. SneakInv' /\ HeldInv'
  BY Zenon, <1>0 DEF EndSafepoint, SneakInv, HeldInv, TypeOK, Holds, Inside, OwnerPCs
<1>3. ASSUME NEW u \in Threads PROVE StopInv(u)'
  <2>1. StopInv(u)
    BY Zenon DEF MInv, ThreadInv
  <2>2. QED
    BY Zenon, <1>0, <2>1
    DEF EndSafepoint, ThreadInv, StopInv, TypeOK, InTBIVM, LockPCs, WaitPCs, UnlockPCs
<1>4. ASSUME NEW u \in Threads PROVE PosInv(u)'
  <2>1. ThreadInv(u) /\ PairInv(u, u)
    BY Zenon DEF MInv
  <2>2. QED
    BY Zenon, <1>0, <2>1
    DEF EndSafepoint, ThreadInv, PosInv, PairInv, SneakInv, TypeOK, Inner, Holds, Inside, InCS,
        OwnerPCs
<1>5. ASSUME NEW u \in Threads, NEW v \in Threads PROVE PairInv(u, v)'
  <2>1. PairInv(u, v)
    BY Zenon DEF MInv
  <2>2. QED
    BY Zenon, <2>1 DEF EndSafepoint, PairInv, Inner, Holds, Inside
<1>6. QED
  BY Zenon, <1>1, <1>2, <1>3, <1>4, <1>5 DEF MInv, ThreadInv

----------------------------------------------------------------------------
\* The invariant holds at the start and is kept by every step of every thread.
THEOREM MonitorInvariant == Spec => []MInv
<1>1. Init => MInv
  <2> SUFFICES ASSUME Init PROVE MInv
    OBVIOUS
  <2>1. TypeOK
    <3>1. locked \in BOOLEAN /\ snuck \in BOOLEAN /\ safepoint \in BOOLEAN
      BY Zenon DEF Init
    <3>2. cxq \in Seq(Threads) /\ EntryList \in Seq(Threads) /\ WaitSet \in Seq(Threads)
      BY DEF Init
    <3>3. permit \in [Threads -> BOOLEAN] /\ Notified \in [Threads -> BOOLEAN]
      BY Zenon DEF Init
    <3>4. List \in [Threads -> Seq(Threads)]
      BY DEF Init
    <3>5. /\ ret \in [Threads -> {"idle", "waitloop"}] /\ pc \in [Threads -> PCs]
          /\ succ \in [Threads -> Threads \cup {NULL}]
      BY Zenon DEF Init, PCs
    <3>6. \A t \in Threads : pc[t] = "idle"
      BY Zenon DEF Init
    <3>7. QED
      BY Zenon, <3>1, <3>2, <3>3, <3>4, <3>5, <3>6 DEF Init, TypeOK
  <2>2. SneakInv /\ HeldInv
    BY Zenon DEF Init, SneakInv, HeldInv
  <2>3. ASSUME NEW t \in Threads PROVE ThreadInv(t)
    BY Zenon DEF Init, ThreadInv, StopInv, PosInv, Holds, Inside, InCS, Inner, WaitPCs, OwnerPCs
  <2>4. ASSUME NEW t \in Threads, NEW u \in Threads PROVE PairInv(t, u)
    BY Zenon DEF Init, PairInv, Holds, Inside, Inner, OwnerPCs
  <2>5. QED
    BY Zenon, <2>1, <2>2, <2>3, <2>4 DEF MInv
<1>2. MInv /\ [Next]_vars => MInv'
  <2> SUFFICES ASSUME MInv, [Next]_vars PROVE MInv'
    OBVIOUS
  <2>1. ASSUME NEW t \in Threads, Step(t) PROVE MInv'
    BY <2>1, TrySpinStep, ILockStep, AcquireOrPushStep, CheckOnDeckStep, ParkStep,
       OnDeckLoopStep, ClearOnDeckStep, LeaveTBIVMStep, DropLockStep, ReadOnDeckStep,
       unparkStep, ReadLockWordStep, ReadEntryListStep, SuccessionStep, DrainCxqStep,
       MergeIntoEntryListStep, WakeOneStep, RecheckStep, PuntStep, ResampleStep,
       AddToWaitSetStep, WaitLoopStep, RemoveFromWaitSetStep, NotifyPopStep, NotifyPushStep,
       NotifyDoneStep
    DEF Step
  <2>2. ASSUME NEW t \in Threads, Begin(t) PROVE MInv'
    BY SMTT(20), <2>2, LockStep, try_lockStep, UnlockStep, NotifyStep, WaitStep, TimeoutStep DEF Begin
  <2>3. CASE UNCHANGED vars
    BY <2>3 DEF vars, MInv, TypeOK, SneakInv, HeldInv, ThreadInv, StopInv, PosInv, PairInv,
       Holds, Inside, InCS, Inner, InTBIVM
  <2>4. QED
    BY Zenon, <2>1, <2>2, <2>3, BeginSafepointStep, EndSafepointStep DEF Next
<1>3. QED
  BY <1>1, <1>2, PTL DEF Spec

\* Two threads are never in the critical section of a monitor, the VM thread that snuck past
\* the lock byte included: each thread inside is the advisory owner.
THEOREM MonitorIsExclusive == Spec => []MutualExclusion
<1>1. MInv => MutualExclusion
  BY Zenon DEF MInv, ThreadInv, PosInv, MutualExclusion
<1>2. QED
  BY <1>1, MonitorInvariant, PTL

\* The lock byte is set exactly while one thread holds it.
THEOREM LockByteIsExact == Spec => []LockByteHeldByOne
<1>1. MInv => LockByteHeldByOne
  <2> SUFFICES ASSUME MInv PROVE LockByteHeldByOne
    OBVIOUS
  <2>1. (\E t \in Threads : Holds(t)) => locked
    BY Zenon DEF MInv, ThreadInv, PosInv
  <2>2. locked => \E t \in Threads : Holds(t)
    BY Zenon DEF MInv, HeldInv
  <2>3. \A t, u \in Threads : Holds(t) /\ Holds(u) => t = u
    BY Zenon DEF MInv, PairInv
  <2>4. locked \in BOOLEAN
    BY Zenon DEF MInv, TypeOK
  <2>5. QED
    BY Zenon, <2>1, <2>2, <2>3, <2>4 DEF LockByteHeldByOne
<1>2. QED
  BY <1>1, MonitorInvariant, PTL

\* A thread stops being OnDeck only by its own step, when it holds the lock.
THEOREM OnDeckIsStable == Spec => OnDeckStable
<1> DEFINE Stable == OnDeck \in Threads => OnDeck' = OnDeck \/ (Holds(OnDeck) /\ OnDeck' = NULL)
<1>1. MInv /\ [Next]_vars => [Stable]_vars
  <2> SUFFICES ASSUME MInv, Next PROVE Stable
    OBVIOUS
  <2>1. ASSUME NEW t \in Threads, ClearOnDeck(t) PROVE Stable
    <3>1. OnDeck = t /\ Inside(t) /\ ~(t = VMThread /\ snuck)
      BY Zenon, <2>1 DEF ClearOnDeck, MInv, SneakInv, ThreadInv, PosInv, Inside
    <3>2. QED
      BY Zenon, <2>1, <3>1 DEF ClearOnDeck, Holds
  <2>2. ASSUME NEW t \in Threads, Succession(t) \/ WakeOne(t) \/ Punt(t) PROVE Stable
    <3>1. Inner(t) => OnDeck = LBIT
      BY Zenon DEF MInv, ThreadInv, PosInv
    <3>2. QED
      BY SMTT(20), <2>2, <3>1 DEF Succession, WakeOne, Punt, Inner
  <2>3. ASSUME NEW t \in Threads, Step(t),
               ~ClearOnDeck(t), ~(Succession(t) \/ WakeOne(t) \/ Punt(t))
        PROVE  OnDeck' = OnDeck
    <3>1. CASE \/ TrySpin(t) \/ ILock(t) \/ AcquireOrPush(t) \/ CheckOnDeck(t) \/ Park(t)
               \/ OnDeckLoop(t) \/ LeaveTBIVM(t) \/ DropLock(t) \/ ReadOnDeck(t)
               \/ unpark(t) \/ ReadLockWord(t) \/ ReadEntryList(t)
      BY SMTT(20), <3>1
      DEF TrySpin, ILock, AcquireOrPush, CheckOnDeck, Park, OnDeckLoop, LeaveTBIVM, DropLock,
          ReadOnDeck, unpark, ReadLockWord, ReadEntryList
    <3>2. CASE \/ DrainCxq(t) \/ MergeIntoEntryList(t) \/ Recheck(t) \/ Resample(t)
               \/ AddToWaitSet(t) \/ WaitLoop(t) \/ RemoveFromWaitSet(t)
               \/ NotifyPop(t) \/ NotifyPush(t) \/ NotifyDone(t)
      BY Zenon, <3>2
      DEF DrainCxq, MergeIntoEntryList, Recheck, Resample, AddToWaitSet, WaitLoop,
          RemoveFromWaitSet, NotifyPop, NotifyPush, NotifyDone
    <3>3. QED
      BY <2>3, <3>1, <3>2 DEF Step
  <2>4. ASSUME NEW t \in Threads, Begin(t) PROVE OnDeck' = OnDeck
    BY Zenon, <2>4 DEF Begin, Lock, try_lock, Unlock, Notify, Wait, Timeout
  <2>5. CASE BeginSafepoint \/ EndSafepoint
    BY Zenon, <2>5 DEF BeginSafepoint, EndSafepoint
  <2>6. QED
    BY Zenon, <2>1, <2>2, <2>3, <2>4, <2>5 DEF Next
<1>2. QED
  BY <1>1, MonitorInvariant, PTL DEF Spec, OnDeckStable

----------------------------------------------------------------------------
(* The lists *)

Members(s) == {s[i] : i \in DOMAIN s}
Distinct(s) == \A i, j \in DOMAIN s : s[i] = s[j] => i = j

\* An empty list has no members.
LEMMA NoMembers == Members(<<>>) = {} /\ Distinct(<<>>)
BY DEF Members, Distinct

\* The members of a list of threads are threads.
LEMMA MembersType == \A s \in Seq(Threads) : Members(s) \subseteq Threads
BY DEF Members

\* A thread is pushed on a list that it is not on.
LEMMA Pushed ==
  ASSUME NEW s \in Seq(Threads), NEW t \in Threads, Distinct(s), t \notin Members(s)
  PROVE  /\ Members(<<t>> \o s) = {t} \cup Members(s)
         /\ Distinct(<<t>> \o s)
<1> DEFINE r == <<t>> \o s
<1>1. /\ DOMAIN r = 1 .. Len(s) + 1 /\ r[1] = t
      /\ \A i \in 1 .. Len(s) : r[i + 1] = s[i]
      /\ \A i \in 2 .. Len(s) + 1 : r[i] = s[i - 1] /\ i - 1 \in 1 .. Len(s)
      /\ DOMAIN s = 1 .. Len(s) /\ Len(s) \in Nat
  OBVIOUS
<1> HIDE DEF r
<1>2. Members(r) \subseteq {t} \cup Members(s)
  <2> SUFFICES ASSUME NEW i \in DOMAIN r PROVE r[i] \in {t} \cup Members(s)
    BY Zenon DEF Members
  <2>1. i = 1 \/ i \in 2 .. Len(s) + 1
    BY <1>1
  <2> QED
    BY Zenon, <1>1, <2>1 DEF Members
<1>3. t \in Members(r)
  BY <1>1 DEF Members
<1>4. Members(s) \subseteq Members(r)
  <2> SUFFICES ASSUME NEW i \in DOMAIN s PROVE s[i] \in Members(r)
    BY Zenon DEF Members
  <2>1. i + 1 \in DOMAIN r /\ r[i + 1] = s[i]
    BY <1>1
  <2> QED
    BY Zenon, <2>1 DEF Members
<1>5. Distinct(r)
  <2> SUFFICES ASSUME NEW i \in DOMAIN r, NEW j \in DOMAIN r, r[i] = r[j] PROVE i = j
    BY Zenon DEF Distinct
  <2>1. ASSUME NEW k \in 2 .. Len(s) + 1 PROVE r[k] # t
    BY SMTT(20), <1>1, <2>1 DEF Members
  <2>2. (i = 1 \/ i \in 2 .. Len(s) + 1) /\ (j = 1 \/ j \in 2 .. Len(s) + 1)
    BY <1>1
  <2>3. CASE i \in 2 .. Len(s) + 1 /\ j \in 2 .. Len(s) + 1
    <3>1. /\ i - 1 \in DOMAIN s /\ j - 1 \in DOMAIN s
          /\ s[i - 1] = r[i] /\ s[j - 1] = r[j]
      BY Zenon, <1>1, <2>3
    <3>2. i - 1 = j - 1
      BY Zenon, <3>1 DEF Distinct
    <3> QED
      BY <2>3, <3>2
  <2> QED
    BY Zenon, <1>1, <2>1, <2>2, <2>3
<1> QED
  BY Zenon, <1>2, <1>3, <1>4, <1>5 DEF r

\* The head of a list is taken off.
LEMMA Popped ==
  ASSUME NEW s \in Seq(Threads), s # <<>>, Distinct(s)
  PROVE  /\ Head(s) \in Members(s)
         /\ Members(Tail(s)) = Members(s) \ {Head(s)}
         /\ Distinct(Tail(s))
<1> DEFINE r == Tail(s)
<1>1. /\ Len(s) \in Nat \ {0} /\ DOMAIN s = 1 .. Len(s) /\ Head(s) = s[1]
      /\ DOMAIN r = 1 .. Len(s) - 1
      /\ \A i \in 1 .. Len(s) - 1 : r[i] = s[i + 1]
  OBVIOUS
<1> HIDE DEF r
<1>2. Head(s) \in Members(s)
  BY <1>1 DEF Members
<1>3. Members(r) \subseteq Members(s) \ {Head(s)}
  <2> SUFFICES ASSUME NEW i \in DOMAIN r PROVE r[i] \in Members(s) \ {Head(s)}
    BY Zenon DEF Members
  <2>1. r[i] = s[i + 1] /\ i + 1 \in DOMAIN s /\ i + 1 # 1 /\ 1 \in DOMAIN s
    BY <1>1
  <2> QED
    BY <1>1, <2>1 DEF Members, Distinct
<1>4. Members(s) \ {Head(s)} \subseteq Members(r)
  <2> SUFFICES ASSUME NEW i \in DOMAIN s, s[i] # Head(s) PROVE s[i] \in Members(r)
    BY Zenon DEF Members
  <2>1. i - 1 \in DOMAIN r /\ r[i - 1] = s[i]
    BY <1>1
  <2> QED
    BY Zenon, <2>1 DEF Members
<1>5. Distinct(r)
  <2> SUFFICES ASSUME NEW i \in DOMAIN r, NEW j \in DOMAIN r, r[i] = r[j] PROVE i = j
    BY Zenon DEF Distinct
  <2>1. i + 1 \in DOMAIN s /\ j + 1 \in DOMAIN s /\ s[i + 1] = s[j + 1]
    BY <1>1
  <2> QED
    BY <1>1, <2>1 DEF Distinct
<1> QED
  BY Zenon, <1>2, <1>3, <1>4, <1>5 DEF r

\* A thread is unlinked from a list it is on.
LEMMA Unlinked ==
  ASSUME NEW s \in Seq(Threads), NEW t \in Members(s), Distinct(s)
  PROVE  /\ Members(Unlink(s, t)) = Members(s) \ {t}
         /\ Distinct(Unlink(s, t))
<1> DEFINE k == CHOOSE n \in DOMAIN s : s[n] = t
           r == Unlink(s, t)
<1>1. k \in DOMAIN s /\ s[k] = t
  BY Zenon DEF Members
<1>2. r = [j \in 1 .. (Len(s) - 1) |-> IF j < k THEN s[j] ELSE s[j + 1]]
  BY Zenon DEF Unlink
<1> HIDE DEF k
<1>3. /\ Len(s) \in Nat /\ DOMAIN s = 1 .. Len(s) /\ DOMAIN r = 1 .. Len(s) - 1
      /\ \A j \in 1 .. Len(s) - 1 : /\ j < k => r[j] = s[j]
                                    /\ ~(j < k) => r[j] = s[j + 1]
  BY <1>2
<1> HIDE DEF r
<1>4. Members(r) \subseteq Members(s) \ {t}
  <2> SUFFICES ASSUME NEW i \in DOMAIN r PROVE r[i] \in Members(s) \ {t}
    BY Zenon DEF Members
  <2>1. \E m \in DOMAIN s : m # k /\ r[i] = s[m]
    <3>1. /\ i \in 1 .. Len(s) - 1 /\ i \in DOMAIN s /\ i + 1 \in DOMAIN s
          /\ (i < k => i # k) /\ (~(i < k) => i + 1 # k)
      BY <1>1, <1>3
    <3> QED
      BY Zenon, <1>3, <3>1
  <2> QED
    BY Zenon, <1>1, <2>1 DEF Members, Distinct
<1>5. Members(s) \ {t} \subseteq Members(r)
  <2> SUFFICES ASSUME NEW i \in DOMAIN s, s[i] # t PROVE s[i] \in Members(r)
    BY Zenon DEF Members
  <2>1. \E m \in DOMAIN r : r[m] = s[i]
    <3>1. CASE i < k
      BY <1>1, <1>3, <3>1
    <3>2. CASE i > k
      <4>1. i - 1 \in DOMAIN r /\ ~(i - 1 < k) /\ i - 1 + 1 = i
        BY <1>1, <1>3, <3>2
      <4> QED
        BY Zenon, <1>3, <4>1
    <3> QED
      BY <1>1, <1>3, <3>1, <3>2
  <2> QED
    BY Zenon, <2>1 DEF Members
<1>6. Distinct(r)
  <2> SUFFICES ASSUME NEW i \in DOMAIN r, NEW j \in DOMAIN r, r[i] = r[j] PROVE i = j
    BY Zenon DEF Distinct
  <2>1. PICK m \in DOMAIN s : r[i] = s[m] /\ m = IF i < k THEN i ELSE i + 1
    BY <1>1, <1>3
  <2>2. PICK n \in DOMAIN s : r[j] = s[n] /\ n = IF j < k THEN j ELSE j + 1
    BY <1>1, <1>3
  <2>3. m = n
    BY Zenon, <2>1, <2>2 DEF Distinct
  <2> QED
    BY <1>1, <1>3, <2>1, <2>2, <2>3
<1> QED
  BY Zenon, <1>4, <1>5, <1>6 DEF r

\* Two lists with no common member are joined.
LEMMA Joined ==
  ASSUME NEW s \in Seq(Threads), NEW r \in Seq(Threads), Distinct(s), Distinct(r),
         Members(s) \cap Members(r) = {}
  PROVE  /\ s \o r \in Seq(Threads)
         /\ Members(s \o r) = Members(s) \cup Members(r)
         /\ Distinct(s \o r)
<1> DEFINE q == s \o r
<1>1. /\ q \in Seq(Threads)
      /\ Len(s) \in Nat /\ Len(r) \in Nat
      /\ DOMAIN s = 1 .. Len(s) /\ DOMAIN r = 1 .. Len(r)
      /\ DOMAIN q = 1 .. Len(s) + Len(r)
      /\ \A i \in 1 .. Len(s) : q[i] = s[i]
      /\ \A i \in Len(s) + 1 .. Len(s) + Len(r) : q[i] = r[i - Len(s)]
  OBVIOUS
<1> HIDE DEF q
<1>2. ASSUME NEW i \in DOMAIN q
      PROVE  \/ i \in DOMAIN s /\ q[i] = s[i] /\ q[i] \in Members(s)
             \/ i \notin DOMAIN s /\ i - Len(s) \in DOMAIN r /\ q[i] = r[i - Len(s)]
                /\ q[i] \in Members(r)
  <2>1. \/ i \in DOMAIN s /\ q[i] = s[i]
        \/ i \notin DOMAIN s /\ i - Len(s) \in DOMAIN r /\ q[i] = r[i - Len(s)]
    BY <1>1
  <2> QED
    BY Zenon, <2>1 DEF Members
<1>3. Members(q) \subseteq Members(s) \cup Members(r)
  <2> SUFFICES ASSUME NEW i \in DOMAIN q PROVE q[i] \in Members(s) \cup Members(r)
    BY Zenon DEF Members
  <2> QED
    BY Zenon, <1>2
<1>4. Members(s) \subseteq Members(q)
  <2> SUFFICES ASSUME NEW i \in DOMAIN s PROVE s[i] \in Members(q)
    BY Zenon DEF Members
  <2>1. i \in DOMAIN q /\ q[i] = s[i]
    BY <1>1
  <2> QED
    BY Zenon, <2>1 DEF Members
<1>5. Members(r) \subseteq Members(q)
  <2> SUFFICES ASSUME NEW i \in DOMAIN r PROVE r[i] \in Members(q)
    BY Zenon DEF Members
  <2>1. i + Len(s) \in DOMAIN q /\ q[i + Len(s)] = r[i]
    BY SMTT(20), <1>1
  <2> QED
    BY Zenon, <2>1 DEF Members
<1>6. Distinct(q)
  <2> SUFFICES ASSUME NEW i \in DOMAIN q, NEW j \in DOMAIN q, q[i] = q[j] PROVE i = j
    BY Zenon DEF Distinct
  <2>1. (i \in DOMAIN s) <=> (j \in DOMAIN s)
    BY Zenon, <1>2
  <2>2. CASE i \in DOMAIN s
    BY Zenon, <1>2, <2>1, <2>2 DEF Distinct
  <2>3. CASE i \notin DOMAIN s
    <3>1. i - Len(s) = j - Len(s)
      BY Zenon, <1>2, <2>1, <2>3 DEF Distinct
    <3> QED
      BY <1>1, <3>1
  <2> QED
    BY Zenon, <2>2, <2>3
<1> QED
  BY Zenon, <1>1, <1>3, <1>4, <1>5, <1>6 DEF q

----------------------------------------------------------------------------
(* Where the lists say that a thread is *)

\* t waits to become the OnDeck thread, or is OnDeck.
OnQueue(t) ==
  \/ t \in Members(cxq) \/ t \in Members(EntryList) \/ OnDeck = t
  \/ \E u \in Threads : t \in Members(List[u])

\* t is in wait(), from the time it is in the wait set until it contends again.
Asleep(t) == pc[t] \in {"waitloop", "waiting", "timedout"} \cup UnlockPCs /\ ret[t] = "waitloop"

Notifying == {"notifypush", "notified"}
Decked == {"check", "parked", "ondeck", "deckparked", "clear"}

\* No list holds a thread twice.
ShapeInv ==
  /\ Distinct(cxq) /\ Distinct(EntryList) /\ Distinct(WaitSet)
  /\ \A u \in Threads : Distinct(List[u])

\* No two queues hold the same thread.
ApartInv(t) ==
  /\ t \in Members(cxq) => t \notin Members(EntryList) /\ OnDeck # t
  /\ t \in Members(EntryList) => OnDeck # t
  /\ \A u \in Threads : t \in Members(List[u]) => t \notin Members(cxq) /\ OnDeck # t

\* Only a thread about to merge it holds a segment, and then the EntryList is empty.
TransitInv(u) ==
  /\ List[u] # <<>> => pc[u] = "merge"
  /\ pc[u] \in {"drain", "merge"} => EntryList = <<>>

\* What the position of a thread says of the lists, and the lists of its position.
PlaceInv(t) ==
  /\ pc[t] \in OwnerPCs \cup {"idle", "spin"} => ret[t] = "idle"
  /\ pc[t] \in {"addwait", "drop"} => ~Notified[t]
  /\ pc[t] \in {"check", "parked"} => OnQueue(t)
  /\ Asleep(t) /\ Notified[t] => OnQueue(t)
  /\ Asleep(t) /\ ~Notified[t] =>
       t \in Members(WaitSet) \/ \E u \in Threads : pc[u] \in Notifying /\ succ[u] = t
  /\ OnQueue(t) =>
       \/ pc[t] \in Decked
       \/ Asleep(t) /\ (Notified[t] \/ \E u \in Threads : pc[u] = "notified" /\ succ[u] = t)
  /\ t \in Members(WaitSet) => Asleep(t) /\ ~Notified[t]

\* The thread that a notify() moves is asleep and on no list, then on a queue.
NotifyInv(t) ==
  /\ pc[t] \in Notifying =>
       WaitLock = t /\ Asleep(succ[t]) /\ ~Notified[succ[t]] /\ succ[t] \notin Members(WaitSet)
  /\ pc[t] = "notifypush" => ~OnQueue(succ[t])
  /\ pc[t] = "notified" => OnQueue(succ[t])

QueueInv ==
  ShapeInv /\ \A t \in Threads : ApartInv(t) /\ TransitInv(t)
Places == \A t \in Threads : PlaceInv(t) /\ NotifyInv(t)
LInv == QueueInv /\ Places

----------------------------------------------------------------------------
(* Steps that move a thread without moving it between the lists *)

\* t goes on without changing the lists' view of it.
Calm(t) ==
  /\ UNCHANGED <<WaitSet, WaitLock, Notified, ret>>
  /\ \A u \in Threads \ {t} : pc'[u] = pc[u] /\ succ'[u] = succ[u]
  /\ pc[t] \notin Notifying /\ pc'[t] \notin Notifying
  /\ Asleep(t)' <=> Asleep(t)
  /\ (pc'[t] \in Decked) <=> (pc[t] \in Decked)
  /\ pc'[t] \in {"check", "parked"} => pc[t] \in {"check", "parked"}
  /\ pc'[t] \in OwnerPCs \cup {"idle", "spin"} => ret[t] = "idle"
  /\ pc'[t] \notin {"addwait", "drop"}

SameQueues == \A u \in Threads : OnQueue(u)' <=> OnQueue(u)

\* Such a step keeps the places.
LEMMA CalmKeepsPlaces ==
  ASSUME Places, NEW t \in Threads, Calm(t), SameQueues, TypeOK
  PROVE  Places'
<1>1. \A u \in Threads : Asleep(u)' <=> Asleep(u)
  BY Zenon DEF Calm, Asleep
<1>2. /\ WaitSet' = WaitSet /\ WaitLock' = WaitLock /\ Notified' = Notified /\ ret' = ret
      /\ \A u \in Threads \ {t} : pc'[u] = pc[u] /\ succ'[u] = succ[u]
      /\ pc[t] \notin Notifying /\ pc'[t] \notin Notifying
      /\ (pc'[t] \in Decked) <=> (pc[t] \in Decked)
      /\ pc'[t] \in {"check", "parked"} => pc[t] \in {"check", "parked"}
      /\ pc'[t] \in OwnerPCs \cup {"idle", "spin"} => ret[t] = "idle"
      /\ pc'[t] \notin {"addwait", "drop"}
  BY Zenon DEF Calm
<1>3. ASSUME NEW u \in Threads PROVE PlaceInv(u)'
  <2>1. PlaceInv(u)
    BY Zenon DEF Places
  <2>2. \A v \in Threads : /\ pc'[v] \in Notifying <=> pc[v] \in Notifying
                           /\ pc'[v] = "notified" <=> pc[v] = "notified"
                           /\ pc[v] \in Notifying => succ'[v] = succ[v]
    BY Zenon, <1>2 DEF Notifying
  <2> QED
    BY Zenon, <1>1, <1>2, <2>1, <2>2 DEF PlaceInv, SameQueues, Notifying
<1>4. ASSUME NEW u \in Threads PROVE NotifyInv(u)'
  <2>1. NotifyInv(u) /\ (pc[u] \in Notifying => succ[u] \in Threads)
    BY Zenon DEF Places, TypeOK, Notifying
  <2> QED
    BY Zenon, <1>1, <1>2, <2>1 DEF NotifyInv, SameQueues, Notifying
<1> QED
  BY Zenon, <1>3, <1>4 DEF Places

\* A step that leaves the queues alone, but for an OnDeck that names no thread.
QueuesKept ==
  /\ UNCHANGED <<cxq, EntryList, List>>
  /\ OnDeck' \in {OnDeck, NULL, LBIT}
  /\ Distinct(WaitSet) => Distinct(WaitSet')
  /\ \A u \in Threads : /\ pc[u] = "merge" => pc'[u] = "merge"
                        /\ pc'[u] \in {"drain", "merge"} =>
                             pc[u] \in {"drain", "merge"} \/ EntryList = <<>>

\* Such a step keeps the queues apart.
LEMMA QueuesKeptInv ==
  ASSUME QueueInv, QueuesKept
  PROVE  QueueInv'
<1>1. ShapeInv'
  BY Zenon DEF QueueInv, ShapeInv, QueuesKept
<1>2. ASSUME NEW u \in Threads PROVE ApartInv(u)' /\ TransitInv(u)'
  <2>1. ApartInv(u) /\ TransitInv(u)
    BY Zenon DEF QueueInv
  <2>2. OnDeck' = u => OnDeck = u
    BY Zenon DEF QueuesKept
  <2>3. ApartInv(u)'
    BY Zenon, <2>1, <2>2 DEF ApartInv, QueuesKept
  <2>4. TransitInv(u)'
    BY Zenon, <2>1 DEF TransitInv, QueuesKept
  <2> QED
    BY Zenon, <2>3, <2>4
<1> QED
  BY Zenon, <1>1, <1>2 DEF QueueInv

----------------------------------------------------------------------------
(* Which steps those are *)

\* The steps that change the lists or what they say.
Busy(t) ==
  \/ (AcquireOrPush(t) /\ pc'[t] = "check") \/ ClearOnDeck(t) \/ LeaveTBIVM(t)
  \/ (DrainCxq(t) /\ pc'[t] = "merge") \/ MergeIntoEntryList(t) \/ WakeOne(t)
  \/ Wait(t) \/ AddToWaitSet(t) \/ (WaitLoop(t) /\ pc'[t] = "check") \/ RemoveFromWaitSet(t)
  \/ (NotifyPop(t) /\ pc'[t] = "notifypush") \/ NotifyPush(t) \/ NotifyDone(t)

\* The steps of lock() that leave the lists alone.
LEMMA LockIsCalm ==
  ASSUME MInv, LInv, NEW t \in Threads,
         \/ Lock(t) \/ try_lock(t) \/ TrySpin(t) \/ ILock(t)
         \/ AcquireOrPush(t) /\ pc'[t] # "check"
         \/ CheckOnDeck(t) \/ Park(t) \/ OnDeckLoop(t)
  PROVE  Calm(t) /\ QueuesKept /\ OnDeck' = OnDeck
<1>1. /\ pc \in [Threads -> PCs] /\ PlaceInv(t)
      /\ pc[t] \in WaitPCs \cup {"drop"} => ret[t] = "waitloop"
  BY SMTT(20) DEF MInv, TypeOK, ThreadInv, StopInv, LInv, Places
<1> USE DEF Calm, QueuesKept, Asleep, Decked, Notifying, OwnerPCs, UnlockPCs
<1>2. CASE Lock(t) \/ try_lock(t)
  BY Zenon, <1>1, <1>2 DEF Lock, try_lock, TryLock, set_owner, PlaceInv
<1>3. CASE TrySpin(t) \/ ILock(t)
  BY Zenon, <1>1, <1>3 DEF TrySpin, ILock, TryLock, set_owner, PlaceInv
<1>4. CASE AcquireOrPush(t) /\ pc'[t] # "check"
  BY Zenon, <1>1, <1>4 DEF AcquireOrPush, TryLock
<1>5. CASE CheckOnDeck(t) \/ OnDeckLoop(t)
  BY Zenon, <1>1, <1>5 DEF CheckOnDeck, OnDeckLoop, TryLock
<1>6. CASE Park(t)
  BY Zenon, <1>1, <1>6 DEF Park, WaitPCs
<1> QED
  BY Zenon, <1>2, <1>3, <1>4, <1>5, <1>6

\* The steps of unlock() that leave the lists alone.
LEMMA UnlockIsCalm ==
  ASSUME MInv, LInv, NEW t \in Threads,
         \/ Unlock(t) \/ DropLock(t) \/ ReadOnDeck(t) \/ unpark(t) \/ ReadLockWord(t)
         \/ ReadEntryList(t) \/ Succession(t) \/ (DrainCxq(t) /\ pc'[t] # "merge")
         \/ Recheck(t) \/ Punt(t) \/ Resample(t)
  PROVE  Calm(t) /\ QueuesKept /\ (OnDeck \in Threads => OnDeck' = OnDeck)
<1>1. /\ pc \in [Threads -> PCs] /\ succ \in [Threads -> Threads \cup {NULL}]
      /\ ret[t] \in {"idle", "waitloop"} /\ PlaceInv(t)
      /\ pc[t] \in WaitPCs \cup {"drop"} => ret[t] = "waitloop"
      /\ Inner(t) => OnDeck = LBIT
  BY Zenon DEF MInv, TypeOK, ThreadInv, StopInv, PosInv, LInv, Places
<1> USE DEF Calm, QueuesKept, Asleep, Decked, Notifying, OwnerPCs, UnlockPCs
<1>2. CASE Unlock(t) \/ DropLock(t)
  BY Zenon, <1>1, <1>2 DEF Unlock, DropLock, PlaceInv
<1>3. CASE ReadOnDeck(t)
  BY Zenon, <1>1, <1>3 DEF ReadOnDeck
<1>4. CASE unpark(t) \/ ReadLockWord(t)
  BY <1>1, <1>4 DEF unpark, ReadLockWord
<1>5. CASE ReadEntryList(t) \/ Resample(t)
  BY Zenon, <1>1, <1>5 DEF ReadEntryList, Resample
<1>6. CASE Succession(t)
  BY Zenon, <1>1, <1>6 DEF Succession
<1>7. CASE DrainCxq(t) /\ pc'[t] # "merge"
  BY Zenon, <1>1, <1>7 DEF DrainCxq
<1>8. CASE Recheck(t) \/ Punt(t)
  BY <1>1, <1>8 DEF Recheck, Punt, Inner
<1> QED
  BY Zenon, <1>2, <1>3, <1>4, <1>5, <1>6, <1>7, <1>8

\* The steps of wait() and notify() that leave the lists alone.
LEMMA WaitIsCalm ==
  ASSUME MInv, LInv, NEW t \in Threads,
         \/ (WaitLoop(t) /\ pc'[t] # "check") \/ Timeout(t) \/ Notify(t)
         \/ NotifyPop(t) /\ pc'[t] # "notifypush"
  PROVE  Calm(t) /\ QueuesKept /\ OnDeck' = OnDeck
<1>1. /\ pc \in [Threads -> PCs] /\ PlaceInv(t)
      /\ pc[t] \in WaitPCs \cup {"drop"} => ret[t] = "waitloop"
  BY Zenon DEF MInv, TypeOK, ThreadInv, StopInv, LInv, Places
<1> USE DEF Calm, QueuesKept, Asleep, Decked, Notifying, OwnerPCs, UnlockPCs
<1>2. CASE (WaitLoop(t) /\ pc'[t] # "check") \/ Timeout(t)
  BY Zenon, <1>1, <1>2 DEF WaitLoop, Timeout, WaitPCs
<1>3. CASE Notify(t)
  BY Zenon, <1>1, <1>3 DEF Notify, PlaceInv
<1>4. CASE NotifyPop(t) /\ pc'[t] # "notifypush"
  BY Zenon, <1>1, <1>4 DEF NotifyPop, PlaceInv
<1> QED
  BY Zenon, <1>2, <1>3, <1>4

\* A calm step that leaves the queues alone keeps the invariant.
LEMMA CalmStep ==
  ASSUME MInv, LInv, NEW t \in Threads, Calm(t), QueuesKept,
         OnDeck \in Threads => OnDeck' = OnDeck
  PROVE  LInv'
<1>1. \A u \in Threads : OnDeck' = u <=> OnDeck = u
  BY Zenon DEF QueuesKept
<1>2. SameQueues
  BY Zenon, <1>1 DEF SameQueues, OnQueue, QueuesKept
<1>3. Places'
  BY Zenon, <1>2, CalmKeepsPlaces DEF LInv, MInv
<1>4. QueueInv'
  BY Zenon, QueuesKeptInv DEF LInv
<1> QED
  BY Zenon, <1>3, <1>4 DEF LInv

----------------------------------------------------------------------------
(* Steps that move threads between the queues *)

\* x joins the queues by way of the cxq.
Enqueued(x) ==
  /\ QueueInv'
  /\ \A u \in Threads : OnQueue(u)' <=> OnQueue(u) \/ u = x

\* Pushing a thread that is on no queue.
LEMMA PushKeepsApart ==
  ASSUME TypeOK, QueueInv, NEW x \in Threads, ~OnQueue(x), cxq' = <<x>> \o cxq,
         UNCHANGED <<EntryList, List, WaitSet, OnDeck>>,
         \A u \in Threads : /\ pc[u] = "merge" => pc'[u] = "merge"
                            /\ pc'[u] \in {"drain", "merge"} => pc[u] \in {"drain", "merge"}
  PROVE  Enqueued(x)
<1>1. x \notin Members(cxq) /\ x \notin Members(EntryList) /\ OnDeck # x
  BY Zenon DEF OnQueue
<1>2. \A u \in Threads : x \notin Members(List[u])
  BY Zenon DEF OnQueue
<1>3. cxq \in Seq(Threads) /\ Distinct(cxq)
  BY Zenon DEF TypeOK, QueueInv, ShapeInv
<1>4. Members(cxq') = {x} \cup Members(cxq) /\ Distinct(cxq')
  BY Zenon, <1>1, <1>3, Pushed
<1>5. ShapeInv'
  BY Zenon, <1>4 DEF QueueInv, ShapeInv
<1>6. ASSUME NEW u \in Threads PROVE ApartInv(u)' /\ TransitInv(u)'
  <2>1. ApartInv(u) /\ TransitInv(u)
    BY Zenon DEF QueueInv
  <2>2. ApartInv(u)'
    BY Zenon, <1>1, <1>2, <1>4, <2>1 DEF ApartInv
  <2>3. TransitInv(u)'
    BY Zenon, <2>1 DEF TransitInv
  <2> QED
    BY Zenon, <2>2, <2>3
<1>7. \A u \in Threads : OnQueue(u)' <=> OnQueue(u) \/ u = x
  BY Zenon, <1>4 DEF OnQueue
<1> QED
  BY Zenon, <1>5, <1>6, <1>7 DEF Enqueued, QueueInv

\* DrainCxq detaches the cxq.
LEMMA DrainLists ==
  ASSUME MInv, LInv, NEW t \in Threads, DrainCxq(t), pc'[t] = "merge"
  PROVE  LInv'
<1>1. /\ TypeOK /\ QueueInv /\ ApartInv(t) /\ TransitInv(t)
      /\ pc \in [Threads -> PCs] /\ List \in [Threads -> Seq(Threads)]
  BY Zenon DEF MInv, LInv, QueueInv, TypeOK
<1>2. /\ pc[t] = "drain" /\ cxq' = <<>> /\ List'[t] = cxq
      /\ \A u \in Threads \ {t} : List'[u] = List[u] /\ pc'[u] = pc[u]
      /\ UNCHANGED <<EntryList, WaitSet, OnDeck>>
  BY Zenon, <1>1 DEF DrainCxq
<1>3. \A u \in Threads \ {t} : pc[u] # "merge"
  BY Zenon, <1>2 DEF MInv, PairInv, Inner
<1>4. \A u \in Threads : List[u] = <<>>
  BY Zenon, <1>2, <1>3 DEF LInv, QueueInv, TransitInv
<1>5. /\ EntryList = <<>> /\ Members(EntryList) = {} /\ Members(cxq') = {} /\ Distinct(cxq')
      /\ \A u \in Threads : Members(List[u]) = {}
      /\ \A u \in Threads \ {t} : Members(List'[u]) = {} /\ Distinct(List'[u])
      /\ Members(List'[t]) = Members(cxq) /\ Distinct(List'[t])
  BY Zenon, <1>1, <1>2, <1>4, NoMembers DEF TransitInv, QueueInv, ShapeInv
<1>6. ShapeInv'
  BY Zenon, <1>1, <1>2, <1>5 DEF QueueInv, ShapeInv
<1>7. ASSUME NEW u \in Threads PROVE ApartInv(u)' /\ TransitInv(u)'
  <2>1. ApartInv(u)
    BY Zenon, <1>1 DEF QueueInv
  <2>2. ApartInv(u)'
    BY Zenon, <1>2, <1>5, <2>1 DEF ApartInv
  <2>3. TransitInv(u)'
    BY Zenon, <1>2, <1>4, <1>5 DEF TransitInv
  <2> QED
    BY Zenon, <2>2, <2>3
<1>8. SameQueues
  BY Zenon, <1>2, <1>5 DEF SameQueues, OnQueue
<1>9. Calm(t)
  BY Zenon, <1>1 DEF DrainCxq, Calm, Asleep, Notifying, Decked, OwnerPCs, UnlockPCs
<1> QED
  BY Zenon, <1>1, <1>6, <1>7, <1>8, <1>9, CalmKeepsPlaces DEF LInv, QueueInv

\* MergeIntoEntryList hands the segment over.
LEMMA MergeLists ==
  ASSUME MInv, LInv, NEW t \in Threads, MergeIntoEntryList(t)
  PROVE  LInv'
<1>1. /\ TypeOK /\ QueueInv /\ ApartInv(t) /\ TransitInv(t)
      /\ pc \in [Threads -> PCs] /\ List \in [Threads -> Seq(Threads)]
  BY Zenon DEF MInv, LInv, QueueInv, TypeOK
<1>2. /\ pc[t] = "merge" /\ pc'[t] = "wake" /\ EntryList' = List[t] /\ List'[t] = <<>>
      /\ \A u \in Threads \ {t} : List'[u] = List[u] /\ pc'[u] = pc[u]
      /\ UNCHANGED <<cxq, WaitSet, OnDeck>>
  BY Zenon, <1>1 DEF MergeIntoEntryList
<1>3. \A u \in Threads \ {t} : pc[u] \notin {"drain", "merge"}
  BY Zenon, <1>2 DEF MInv, PairInv, Inner
<1>4. \A u \in Threads \ {t} : List[u] = <<>>
  BY Zenon, <1>2, <1>3 DEF LInv, QueueInv, TransitInv
<1>5. /\ Members(EntryList) = {} /\ Members(EntryList') = Members(List[t])
      /\ Distinct(EntryList') /\ \A u \in Threads : Members(List'[u]) = {} /\ Distinct(List'[u])
      /\ \A u \in Threads \ {t} : Members(List[u]) = {}
  BY Zenon, <1>1, <1>2, <1>4, NoMembers DEF TransitInv, QueueInv, ShapeInv
<1>6. ShapeInv'
  BY Zenon, <1>1, <1>2, <1>5 DEF QueueInv, ShapeInv
<1>7. ASSUME NEW u \in Threads PROVE ApartInv(u)' /\ TransitInv(u)'
  <2>1. ApartInv(u)
    BY Zenon, <1>1 DEF QueueInv
  <2>2. ApartInv(u)'
    BY Zenon, <1>2, <1>5, <2>1 DEF ApartInv
  <2>3. TransitInv(u)'
    BY Zenon, <1>2, <1>3, <1>4 DEF TransitInv
  <2> QED
    BY Zenon, <2>2, <2>3
<1>8. SameQueues
  BY Zenon, <1>2, <1>5 DEF SameQueues, OnQueue
<1>9. Calm(t)
  BY Zenon, <1>1 DEF MergeIntoEntryList, Calm, Asleep, Notifying, Decked, OwnerPCs, UnlockPCs
<1> QED
  BY Zenon, <1>1, <1>6, <1>7, <1>8, <1>9, CalmKeepsPlaces DEF LInv, QueueInv

\* WakeOne moves the head of the EntryList to OnDeck.
LEMMA WakeLists ==
  ASSUME MInv, LInv, NEW t \in Threads, WakeOne(t)
  PROVE  LInv'
<1>1. /\ TypeOK /\ QueueInv /\ EntryList \in Seq(Threads) /\ Distinct(EntryList)
      /\ pc \in [Threads -> PCs] /\ succ \in [Threads -> Threads \cup {NULL}]
      /\ EntryList # <<>> /\ OnDeck = LBIT
  BY Zenon DEF MInv, LInv, QueueInv, ShapeInv, TypeOK, WakeOne, ThreadInv, PosInv, Inner
<1> DEFINE x == Head(EntryList)
<1>2. /\ x \in Members(EntryList) /\ Members(Tail(EntryList)) = Members(EntryList) \ {x}
      /\ Distinct(Tail(EntryList)) /\ x \in Threads
  BY Zenon, <1>1, Popped, MembersType
<1>3. /\ pc[t] = "wake" /\ pc'[t] = "recheck" /\ EntryList' = Tail(EntryList) /\ OnDeck' = x
      /\ \A u \in Threads \ {t} : pc'[u] = pc[u]
      /\ UNCHANGED <<cxq, List, WaitSet>>
  BY Zenon, <1>1 DEF WakeOne
<1> HIDE DEF x
<1>4. \A u \in Threads \ {t} : pc[u] \notin {"drain", "merge"}
  BY Zenon, <1>3 DEF MInv, PairInv, Inner
<1>5. \A u \in Threads : List[u] = <<>> /\ Members(List[u]) = {}
  BY Zenon, <1>3, <1>4, NoMembers DEF LInv, QueueInv, TransitInv
<1>6. ShapeInv'
  BY Zenon, <1>1, <1>2, <1>3 DEF QueueInv, ShapeInv
<1>7. ASSUME NEW u \in Threads PROVE ApartInv(u)' /\ TransitInv(u)'
  <2>1. ApartInv(u)
    BY Zenon, <1>1 DEF QueueInv
  <2>2. ApartInv(u)'
    BY Zenon, <1>2, <1>3, <1>5, <2>1 DEF ApartInv
  <2>3. TransitInv(u)'
    BY Zenon, <1>3, <1>4, <1>5 DEF TransitInv
  <2> QED
    BY Zenon, <2>2, <2>3
<1>8. SameQueues
  BY Zenon, <1>1, <1>2, <1>3, <1>5 DEF SameQueues, OnQueue
<1>9. Calm(t)
  BY Zenon, <1>1 DEF WakeOne, Calm, Asleep, Notifying, Decked, OwnerPCs, UnlockPCs
<1> QED
  BY Zenon, <1>1, <1>6, <1>7, <1>8, <1>9, CalmKeepsPlaces DEF LInv, QueueInv

----------------------------------------------------------------------------
(* Steps that change the place of the thread that takes them *)

\* Only t changes its place, and nobody is notifying it.
Own(t) ==
  /\ \A u \in Threads \ {t} :
       /\ pc'[u] = pc[u] /\ succ'[u] = succ[u] /\ ret'[u] = ret[u] /\ Notified'[u] = Notified[u]
       /\ OnQueue(u)' <=> OnQueue(u)
       /\ u \in Members(WaitSet') <=> u \in Members(WaitSet)
  /\ WaitLock' = WaitLock
  /\ pc[t] \notin Notifying /\ pc'[t] \notin Notifying
  /\ \A u \in Threads : pc[u] \in Notifying => succ[u] # t

\* The places of the others are kept.
LEMMA OwnKeepsPlaces ==
  ASSUME TypeOK, Places, NEW t \in Threads, Own(t), PlaceInv(t)'
  PROVE  Places'
<1>1. \A u \in Threads \ {t} : Asleep(u)' <=> Asleep(u)
  BY Zenon DEF Own, Asleep
<1>2. \A u \in Threads : /\ pc'[u] \in Notifying <=> pc[u] \in Notifying
                         /\ pc'[u] = "notified" <=> pc[u] = "notified"
                         /\ pc[u] \in Notifying => succ'[u] = succ[u] /\ succ[u] \in Threads \ {t}
  BY Zenon DEF Own, Notifying, TypeOK
<1>3. ASSUME NEW u \in Threads \ {t} PROVE PlaceInv(u)'
  <2>1. PlaceInv(u)
    BY Zenon DEF Places
  <2>2. /\ pc'[u] = pc[u] /\ ret'[u] = ret[u] /\ Notified'[u] = Notified[u]
        /\ OnQueue(u)' <=> OnQueue(u)
        /\ u \in Members(WaitSet') <=> u \in Members(WaitSet)
    BY Zenon DEF Own
  <2> QED
    BY Zenon, <1>1, <1>2, <2>1, <2>2 DEF PlaceInv, Notifying
<1>4. ASSUME NEW u \in Threads PROVE NotifyInv(u)'
  <2>1. CASE pc[u] \in Notifying
    <3>1. NotifyInv(u) /\ succ'[u] = succ[u] /\ succ[u] \in Threads \ {t} /\ u # t
      BY Zenon, <1>2, <2>1 DEF Places, Own
    <3>2. pc'[u] = pc[u] /\ WaitLock' = WaitLock
      BY Zenon, <3>1 DEF Own
    <3>3. /\ Notified'[succ[u]] = Notified[succ[u]]
          /\ OnQueue(succ[u])' <=> OnQueue(succ[u])
          /\ succ[u] \in Members(WaitSet') <=> succ[u] \in Members(WaitSet)
      BY Zenon, <3>1 DEF Own
    <3>4. NotifyInv(u)' = (/\ pc[u] \in Notifying =>
                                WaitLock = u /\ Asleep(succ[u])' /\ ~Notified'[succ[u]]
                                /\ succ[u] \notin Members(WaitSet')
                           /\ pc[u] = "notifypush" => ~OnQueue(succ[u])'
                           /\ pc[u] = "notified" => OnQueue(succ[u])')
      BY Zenon, <3>1, <3>2 DEF NotifyInv, OnQueue, Asleep
    <3> QED
      BY Zenon, <1>1, <3>1, <3>3, <3>4 DEF NotifyInv
  <2>2. CASE pc[u] \notin Notifying
    BY Zenon, <1>2, <2>2 DEF NotifyInv, Notifying
  <2> QED
    BY Zenon, <2>1, <2>2
<1> QED
  BY Zenon, <1>3, <1>4 DEF Places

\* A thread that nobody is notifying: it is not asleep, or has been notified.
LEMMA NotBeingNotified ==
  ASSUME Places, NEW t \in Threads, ~Asleep(t) \/ Notified[t]
  PROVE  \A u \in Threads : pc[u] \in Notifying => succ[u] # t
BY Zenon DEF Places, NotifyInv

\* AcquireOrPush, when the lock is held.
LEMMA PushLists ==
  ASSUME MInv, LInv, NEW t \in Threads, AcquireOrPush(t), pc'[t] = "check"
  PROVE  LInv'
<1>1. /\ TypeOK /\ QueueInv /\ Places /\ PlaceInv(t) /\ pc \in [Threads -> PCs]
  BY Zenon DEF MInv, LInv, TypeOK, Places
<1>2. /\ pc[t] = "push" /\ cxq' = <<t>> \o cxq
      /\ \A u \in Threads \ {t} : pc'[u] = pc[u]
      /\ UNCHANGED <<EntryList, List, WaitSet, OnDeck, WaitLock, Notified, ret, succ>>
  BY Zenon, <1>1 DEF AcquireOrPush
<1>3. ~Asleep(t) /\ ~OnQueue(t) /\ t \notin Members(WaitSet)
  BY Zenon, <1>1, <1>2 DEF PlaceInv, Asleep, UnlockPCs, Decked
<1>4. Enqueued(t)
  <2>1. \A u \in Threads : /\ pc[u] = "merge" => pc'[u] = "merge"
                           /\ pc'[u] \in {"drain", "merge"} => pc[u] \in {"drain", "merge"}
    BY Zenon, <1>2
  <2> QED
    BY Zenon, <1>1, <1>2, <1>3, <2>1, PushKeepsApart
<1>5. \A u \in Threads : pc[u] \in Notifying => succ[u] # t
  BY Zenon, <1>1, <1>3, NotBeingNotified
<1>6. Own(t)
  BY Zenon, <1>2, <1>4, <1>5 DEF Own, Enqueued, Notifying
<1>7. PlaceInv(t)'
  <2>1. ~Asleep(t)' /\ OnQueue(t)'
    BY Zenon, <1>4 DEF Asleep, UnlockPCs, Enqueued
  <2> QED
    BY Zenon, <1>2, <1>3, <2>1 DEF PlaceInv, Decked, OwnerPCs
<1> QED
  BY Zenon, <1>1, <1>4, <1>6, <1>7, OwnKeepsPlaces DEF LInv, Enqueued

\* The OnDeck thread has the lock and leaves the queues.
LEMMA ClearLists ==
  ASSUME MInv, LInv, NEW t \in Threads, ClearOnDeck(t)
  PROVE  LInv'
<1>1. /\ TypeOK /\ QueueInv /\ Places /\ PlaceInv(t) /\ ApartInv(t) /\ pc \in [Threads -> PCs]
      /\ OnDeck = t
  BY Zenon DEF MInv, LInv, QueueInv, TypeOK, Places, ThreadInv, PosInv, ClearOnDeck
<1>2. /\ pc[t] = "clear" /\ OnDeck' = NULL /\ pc'[t] = "leave"
      /\ \A u \in Threads \ {t} : pc'[u] = pc[u]
      /\ UNCHANGED <<cxq, EntryList, List, WaitSet, WaitLock, Notified, ret, succ>>
  BY SMTT(20), <1>1 DEF ClearOnDeck
<1>3. ~Asleep(t) /\ t \notin Members(WaitSet)
  BY Zenon, <1>1, <1>2 DEF PlaceInv, Asleep, UnlockPCs
<1>4. QueueInv'
  <2>1. QueuesKept
    BY Zenon, <1>2 DEF QueuesKept
  <2> QED
    BY Zenon, <1>1, <2>1, QueuesKeptInv
<1>5. \A u \in Threads : pc[u] \in Notifying => succ[u] # t
  <2>1. Places /\ (~Asleep(t) \/ Notified[t])
    BY Zenon, <1>1, <1>3
  <2> QED
    BY Zenon, <2>1, NotBeingNotified
<1>6. ~OnQueue(t)' /\ \A u \in Threads \ {t} : OnQueue(u)' <=> OnQueue(u)
  BY Zenon, <1>1, <1>2 DEF OnQueue, ApartInv
<1>7. Own(t)
  BY Zenon, <1>2, <1>5, <1>6 DEF Own, Notifying
<1>8. PlaceInv(t)'
  <2>1. ~Asleep(t)'
    BY Zenon, <1>2 DEF Asleep, UnlockPCs
  <2> QED
    BY Zenon, <1>2, <1>3, <1>6, <2>1 DEF PlaceInv, OwnerPCs
<1> QED
  BY Zenon, <1>1, <1>4, <1>7, <1>8, OwnKeepsPlaces DEF LInv

\* The return of lock() or wait(), and the call of wait(), reset what wait() keeps.
LEMMA ResetLists ==
  ASSUME MInv, LInv, NEW t \in Threads, LeaveTBIVM(t) \/ Wait(t)
  PROVE  LInv'
<1>1. /\ TypeOK /\ QueueInv /\ Places /\ PlaceInv(t) /\ pc \in [Threads -> PCs]
      /\ ret \in [Threads -> {"idle", "waitloop"}] /\ Notified \in [Threads -> BOOLEAN]
  BY Zenon DEF MInv, LInv, TypeOK, Places
<1>2. /\ pc[t] \in {"leave", "cs"} /\ pc'[t] \in {"cs", "addwait"} /\ ~Notified'[t]
      /\ pc'[t] = "cs" => ret'[t] = "idle"
      /\ \A u \in Threads \ {t} : pc'[u] = pc[u] /\ ret'[u] = ret[u] /\ Notified'[u] = Notified[u]
      /\ UNCHANGED <<cxq, EntryList, List, WaitSet, WaitLock, OnDeck, succ>>
  BY Zenon, <1>1 DEF LeaveTBIVM, Wait, set_owner
<1>3. ~Asleep(t) /\ ~OnQueue(t) /\ t \notin Members(WaitSet)
  BY Zenon, <1>1, <1>2 DEF PlaceInv, Asleep, UnlockPCs, Decked
<1>4. QueueInv'
  <2>1. QueuesKept
    BY Zenon, <1>2 DEF QueuesKept
  <2> QED
    BY Zenon, <1>1, <2>1, QueuesKeptInv
<1>5. \A u \in Threads : pc[u] \in Notifying => succ[u] # t
  BY Zenon, <1>1, <1>3, NotBeingNotified
<1>6. \A u \in Threads : OnQueue(u)' <=> OnQueue(u)
  BY Zenon, <1>2 DEF OnQueue
<1>7. Own(t)
  BY Zenon, <1>2, <1>5, <1>6 DEF Own, Notifying
<1>8. PlaceInv(t)'
  <2>1. ~Asleep(t)' /\ ~OnQueue(t)'
    BY Zenon, <1>2, <1>3, <1>6 DEF Asleep, UnlockPCs
  <2> QED
    BY Zenon, <1>2, <1>3, <2>1 DEF PlaceInv, OwnerPCs
<1> QED
  BY Zenon, <1>1, <1>4, <1>7, <1>8, OwnKeepsPlaces DEF LInv

\* The owner that calls wait() joins the wait set.
LEMMA AddLists ==
  ASSUME MInv, LInv, NEW t \in Threads, AddToWaitSet(t)
  PROVE  LInv'
<1>1. /\ TypeOK /\ QueueInv /\ Places /\ PlaceInv(t) /\ pc \in [Threads -> PCs]
      /\ WaitSet \in Seq(Threads) /\ Distinct(WaitSet) /\ ret[t] = "waitloop"
  BY Zenon DEF MInv, LInv, QueueInv, ShapeInv, TypeOK, Places, ThreadInv, StopInv, WaitPCs, AddToWaitSet
<1>2. /\ pc[t] = "addwait" /\ pc'[t] = "drop" /\ WaitSet' = <<t>> \o WaitSet
      /\ \A u \in Threads \ {t} : pc'[u] = pc[u]
      /\ UNCHANGED <<cxq, EntryList, List, OnDeck, WaitLock, Notified, ret, succ>>
  BY SMTT(20), <1>1 DEF AddToWaitSet
<1>3. ~Asleep(t) /\ ~OnQueue(t) /\ ~Notified[t] /\ t \notin Members(WaitSet)
  BY Zenon, <1>1, <1>2 DEF PlaceInv, Asleep, UnlockPCs, Decked
<1>4. Members(WaitSet') = {t} \cup Members(WaitSet) /\ Distinct(WaitSet')
  BY Zenon, <1>1, <1>2, <1>3, Pushed
<1>5. QueueInv'
  <2>1. QueuesKept
    BY Zenon, <1>2, <1>4 DEF QueuesKept
  <2> QED
    BY Zenon, <1>1, <2>1, QueuesKeptInv
<1>6. \A u \in Threads : pc[u] \in Notifying => succ[u] # t
  BY Zenon, <1>1, <1>3, NotBeingNotified
<1>7. \A u \in Threads : OnQueue(u)' <=> OnQueue(u)
  BY Zenon, <1>2 DEF OnQueue
<1>8. Own(t)
  BY Zenon, <1>2, <1>4, <1>6, <1>7 DEF Own, Notifying
<1>9. PlaceInv(t)'
  <2>1. Asleep(t)' /\ ~OnQueue(t)' /\ ~Notified'[t] /\ t \in Members(WaitSet')
    BY Zenon, <1>1, <1>2, <1>3, <1>4, <1>7 DEF Asleep, UnlockPCs
  <2> QED
    BY Zenon, <1>2, <2>1 DEF PlaceInv, OwnerPCs
<1> QED
  BY Zenon, <1>1, <1>5, <1>8, <1>9, OwnKeepsPlaces DEF LInv

\* A notified thread in wait() finds itself on a queue and waits to be OnDeck.
LEMMA NotifiedLists ==
  ASSUME MInv, LInv, NEW t \in Threads, WaitLoop(t) \/ RemoveFromWaitSet(t), Notified[t]
  PROVE  LInv'
<1>1. /\ TypeOK /\ QueueInv /\ Places /\ PlaceInv(t) /\ pc \in [Threads -> PCs]
      /\ pc[t] \in {"waitloop", "timedout"} /\ ret[t] = "waitloop"
  BY SMTT(20) DEF MInv, LInv, TypeOK, Places, ThreadInv, StopInv, WaitPCs, WaitLoop, RemoveFromWaitSet
<1>2. /\ pc'[t] = "check"
      /\ \A u \in Threads \ {t} : pc'[u] = pc[u]
      /\ UNCHANGED <<cxq, EntryList, List, WaitSet, OnDeck, WaitLock, Notified, ret, succ>>
  BY Zenon, <1>1 DEF WaitLoop, RemoveFromWaitSet
<1>3. OnQueue(t) /\ t \notin Members(WaitSet)
  BY Zenon, <1>1 DEF PlaceInv, Asleep
<1>4. QueueInv'
  <2>1. QueuesKept
    BY Zenon, <1>1, <1>2 DEF QueuesKept
  <2> QED
    BY Zenon, <1>1, <2>1, QueuesKeptInv
<1>5. \A u \in Threads : pc[u] \in Notifying => succ[u] # t
  BY Zenon, <1>1, NotBeingNotified
<1>6. \A u \in Threads : OnQueue(u)' <=> OnQueue(u)
  BY Zenon, <1>2 DEF OnQueue
<1>7. Own(t)
  <2>1. pc[t] \notin Notifying /\ pc'[t] \notin Notifying
    BY Zenon, <1>1, <1>2 DEF Notifying
  <2> QED
    BY Zenon, <1>2, <1>5, <1>6, <2>1 DEF Own
<1>8. PlaceInv(t)'
  <2>1. ~Asleep(t)' /\ OnQueue(t)'
    BY Zenon, <1>2, <1>3, <1>6 DEF Asleep, UnlockPCs
  <2> QED
    BY Zenon, <1>2, <1>3, <2>1 DEF PlaceInv, OwnerPCs, Decked
<1> QED
  BY Zenon, <1>1, <1>4, <1>7, <1>8, OwnKeepsPlaces DEF LInv

\* A thread whose wait() timed out is in the wait set, and unlinks itself.
LEMMA RemoveLists ==
  ASSUME MInv, LInv, NEW t \in Threads, RemoveFromWaitSet(t), ~Notified[t]
  PROVE  LInv' /\ t \in Members(WaitSet) /\ Members(WaitSet') = Members(WaitSet) \ {t}
<1>1. /\ TypeOK /\ QueueInv /\ Places /\ PlaceInv(t) /\ pc \in [Threads -> PCs]
      /\ WaitSet \in Seq(Threads) /\ Distinct(WaitSet)
      /\ pc[t] = "timedout" /\ ret[t] = "waitloop"
  BY SMTT(20) DEF MInv, LInv, QueueInv, ShapeInv, TypeOK, Places, ThreadInv, StopInv, WaitPCs,
         RemoveFromWaitSet
<1>2. /\ pc'[t] = "ilock" /\ WaitSet' = Unlink(WaitSet, t) /\ WaitLock = NULL
      /\ \A u \in Threads \ {t} : pc'[u] = pc[u]
      /\ UNCHANGED <<cxq, EntryList, List, OnDeck, WaitLock, Notified, ret, succ>>
  BY Zenon, <1>1 DEF RemoveFromWaitSet
<1>3. \A u \in Threads : pc[u] \notin Notifying
  BY Zenon, <1>1, <1>2 DEF Places, NotifyInv
<1>4. ~OnQueue(t) /\ t \in Members(WaitSet)
  BY Zenon, <1>1, <1>3 DEF PlaceInv, Asleep, Decked, Notifying
<1>5. Members(WaitSet') = Members(WaitSet) \ {t} /\ Distinct(WaitSet')
  BY Zenon, <1>1, <1>2, <1>4, Unlinked
<1>6. QueueInv'
  <2>1. QueuesKept
    BY Zenon, <1>1, <1>2, <1>5 DEF QueuesKept
  <2> QED
    BY Zenon, <1>1, <2>1, QueuesKeptInv
<1>7. \A u \in Threads : OnQueue(u)' <=> OnQueue(u)
  BY Zenon, <1>2 DEF OnQueue
<1>8. Own(t)
  BY Zenon, <1>1, <1>2, <1>3, <1>5, <1>7 DEF Own, Notifying
<1>9. PlaceInv(t)'
  <2>1. ~Asleep(t)' /\ ~OnQueue(t)' /\ t \notin Members(WaitSet')
    BY Zenon, <1>2, <1>4, <1>5, <1>7 DEF Asleep, UnlockPCs
  <2> QED
    BY Zenon, <1>2, <2>1 DEF PlaceInv, OwnerPCs
<1> QED
  BY Zenon, <1>1, <1>4, <1>5, <1>6, <1>8, <1>9, OwnKeepsPlaces DEF LInv

----------------------------------------------------------------------------
(* Steps that move the thread that is notified *)

\* The head of the wait set is unlinked.
LEMMA PopLists ==
  ASSUME MInv, LInv, NEW t \in Threads, NotifyPop(t), pc'[t] = "notifypush"
  PROVE  /\ LInv'
         /\ succ'[t] \in Members(WaitSet) /\ succ'[t] # t
         /\ Members(WaitSet') = Members(WaitSet) \ {succ'[t]}
<1>1. /\ TypeOK /\ QueueInv /\ Places /\ PlaceInv(t) /\ pc \in [Threads -> PCs]
      /\ WaitSet \in Seq(Threads) /\ Distinct(WaitSet)
      /\ succ \in [Threads -> Threads \cup {NULL}]
  BY Zenon DEF MInv, LInv, QueueInv, ShapeInv, TypeOK, Places
<1>0. WaitSet # <<>>
  BY Zenon, <1>1 DEF NotifyPop
<1>a. PICK x \in Threads : x = Head(WaitSet)
  BY <1>0, <1>1
<1>2. /\ pc[t] = "notify" /\ WaitLock = NULL /\ WaitSet # <<>> /\ WaitSet' = Tail(WaitSet)
      /\ WaitLock' = t /\ succ'[t] = x
      /\ \A u \in Threads \ {t} : pc'[u] = pc[u] /\ succ'[u] = succ[u]
      /\ UNCHANGED <<cxq, EntryList, List, OnDeck, Notified, ret>>
  BY Zenon, <1>1, <1>a DEF NotifyPop
<1>3. /\ x \in Members(WaitSet) /\ Members(WaitSet') = Members(WaitSet) \ {x}
      /\ Distinct(WaitSet')
  BY SMTT(20), <1>0, <1>1, <1>2, <1>a, Popped
<1>4. \A u \in Threads : pc[u] \notin Notifying
  BY Zenon, <1>1, <1>2 DEF Places, NotifyInv
<1>5. Asleep(x) /\ ~Notified[x] /\ x # t
  BY Zenon, <1>1, <1>2, <1>3 DEF Places, PlaceInv, Asleep, UnlockPCs
<1>6. ~OnQueue(x)
  BY Zenon, <1>1, <1>3, <1>4, <1>5 DEF Places, PlaceInv, Asleep, UnlockPCs, Decked, Notifying
<1>7. QueueInv'
  <2>1. QueuesKept
    BY Zenon, <1>2, <1>3 DEF QueuesKept
  <2> QED
    BY Zenon, <1>1, <2>1, QueuesKeptInv
<1>8. /\ \A u \in Threads : OnQueue(u)' <=> OnQueue(u)
      /\ \A u \in Threads : Asleep(u)' <=> Asleep(u)
      /\ \A u \in Threads : pc'[u] # "notified"
      /\ \A u \in Threads \ {t} : pc'[u] \notin Notifying
  BY Zenon, <1>2, <1>4 DEF OnQueue, Asleep, UnlockPCs, Notifying
<1>9. ASSUME NEW u \in Threads PROVE PlaceInv(u)'
  <2>1. PlaceInv(u)
    BY Zenon, <1>1 DEF Places
  <2>2. Asleep(u) /\ ~Notified[u] => u \in Members(WaitSet)
    BY Zenon, <1>4, <2>1 DEF PlaceInv
  <2>3. Asleep(u)' /\ ~Notified'[u] =>
          u \in Members(WaitSet') \/ \E v \in Threads : pc'[v] \in Notifying /\ succ'[v] = u
    BY Zenon, <1>2, <1>3, <1>8, <2>2 DEF Notifying
  <2>4. u # t => pc'[u] = pc[u]
    BY Zenon, <1>2
  <2>5. ~Asleep(t) /\ ~OnQueue(t) /\ t \notin Members(WaitSet) /\ ret[t] = "idle"
    <3>1. ~Asleep(t) /\ pc[t] \in OwnerPCs /\ pc[t] \notin Decked
      BY Zenon, <1>2 DEF Asleep, UnlockPCs, Decked, OwnerPCs
    <3> QED
      BY Zenon, <1>1, <3>1 DEF PlaceInv
  <2>6. CASE u = t
    BY Zenon, <1>2, <1>3, <1>8, <2>3, <2>5, <2>6 DEF PlaceInv
  <2>7. CASE u # t
    BY Zenon, <1>2, <1>3, <1>4, <1>8, <2>1, <2>3, <2>4, <2>7 DEF PlaceInv, Notifying
  <2> QED
    BY Zenon, <2>6, <2>7
<1>10. ASSUME NEW u \in Threads PROVE NotifyInv(u)'
  <2>1. CASE u = t
    <3>1. Asleep(succ[t])' /\ ~OnQueue(succ[t])'
      <4>1. Asleep(x)' /\ ~OnQueue(x)'
        BY Zenon, <1>3, <1>5, <1>6, <1>8
      <4> QED
        BY Zenon, <1>2, <4>1 DEF Asleep, OnQueue
    <3> QED
      BY Zenon, <1>2, <1>3, <1>5, <2>1, <3>1 DEF NotifyInv, Notifying
  <2>2. CASE u # t
    BY Zenon, <1>8, <2>2 DEF NotifyInv, Notifying
  <2> QED
    BY Zenon, <2>1, <2>2
<1> QED
  BY Zenon, <1>2, <1>3, <1>5, <1>7, <1>9, <1>10 DEF LInv, Places

\* The thread that was unlinked joins the cxq.
LEMMA NotifyPushLists ==
  ASSUME MInv, LInv, NEW t \in Threads, NotifyPush(t)
  PROVE  LInv'
<1>1. /\ TypeOK /\ QueueInv /\ Places /\ NotifyInv(t) /\ PlaceInv(t) /\ pc \in [Threads -> PCs]
      /\ succ[t] \in Threads
  BY Zenon DEF MInv, LInv, TypeOK, Places, NotifyPush
<1>a. PICK x \in Threads : x = succ[t]
  BY SMTT(20), <1>1
<1>2. /\ pc[t] = "notifypush" /\ pc'[t] = "notified" /\ cxq' = <<x>> \o cxq
      /\ \A u \in Threads \ {t} : pc'[u] = pc[u]
      /\ UNCHANGED <<EntryList, List, WaitSet, WaitLock, OnDeck, Notified, ret, succ>>
  BY Zenon, <1>1, <1>a DEF NotifyPush
<1>3. Asleep(x) /\ ~Notified[x] /\ x \notin Members(WaitSet) /\ ~OnQueue(x) /\ WaitLock = t
  BY Zenon, <1>1, <1>2, <1>a DEF NotifyInv, Notifying
<1>4. x # t
  BY Zenon, <1>2, <1>3 DEF Asleep, UnlockPCs
<1>5. \A u \in Threads \ {t} : pc[u] \notin Notifying
  BY Zenon, <1>1, <1>3 DEF Places, NotifyInv
<1>6. Enqueued(x)
  <2>1. \A u \in Threads : /\ pc[u] = "merge" => pc'[u] = "merge"
                           /\ pc'[u] \in {"drain", "merge"} => pc[u] \in {"drain", "merge"}
    BY Zenon, <1>2
  <2> QED
    BY Zenon, <1>1, <1>2, <1>3, <2>1, PushKeepsApart
<1>7. /\ \A u \in Threads : OnQueue(u)' <=> OnQueue(u) \/ u = x
      /\ \A u \in Threads : Asleep(u)' <=> Asleep(u)
      /\ \A u \in Threads \ {t} : pc'[u] \notin Notifying
  BY Zenon, <1>2, <1>5, <1>6 DEF Enqueued, Asleep, UnlockPCs
<1>8. ASSUME NEW u \in Threads PROVE PlaceInv(u)'
  <2>0. PlaceInv(u)
    BY Zenon, <1>1 DEF Places
  <2>1. PlaceInv(u) /\ (u # t => pc'[u] = pc[u])
    BY Zenon, <1>2, <2>0
  <2>2. CASE u = t
    BY Zenon, <1>2, <1>4, <1>5, <1>7, <2>1, <2>2
    DEF PlaceInv, Notifying, Decked, OwnerPCs
  <2>3. CASE u = x
    BY Zenon, <1>2, <1>3, <1>4, <1>7, <2>1, <2>3, <1>a DEF PlaceInv, Notifying
  <2>4. CASE u # t /\ u # x
    BY Zenon, <1>2, <1>5, <1>7, <1>a, <2>1, <2>4 DEF PlaceInv, Notifying
  <2> QED
    BY Zenon, <2>2, <2>3, <2>4
<1>9. ASSUME NEW u \in Threads PROVE NotifyInv(u)'
  <2>1. CASE u = t
    <3>1. Asleep(x)' /\ OnQueue(x)'
      BY Zenon, <1>3, <1>7
    <3>2. Asleep(succ[t])' /\ OnQueue(succ[t])'
      BY Zenon, <1>2, <1>a, <3>1 DEF Asleep, OnQueue
    <3> QED
      BY Zenon, <1>2, <1>3, <1>a, <2>1, <3>2 DEF NotifyInv, Notifying
  <2>2. CASE u # t
    BY Zenon, <1>7, <2>2 DEF NotifyInv, Notifying
  <2> QED
    BY SMTT(20), <2>1, <2>2
<1> QED
  BY Zenon, <1>6, <1>8, <1>9 DEF LInv, Places, Enqueued

\* The thread is told, once it is on a queue.
LEMMA NotifyDoneLists ==
  ASSUME MInv, LInv, NEW t \in Threads, NotifyDone(t)
  PROVE  LInv'
<1>1. /\ TypeOK /\ QueueInv /\ Places /\ NotifyInv(t) /\ PlaceInv(t) /\ pc \in [Threads -> PCs]
      /\ succ \in [Threads -> Threads \cup {NULL}] /\ succ[t] \in Threads
      /\ Notified \in [Threads -> BOOLEAN]
  BY Zenon DEF MInv, LInv, TypeOK, Places, NotifyDone
<1>a. PICK x \in Threads : x = succ[t]
  BY Zenon, <1>1
<1>2. /\ pc[t] = "notified" /\ pc'[t] = "cs" /\ Notified'[x]
      /\ \A u \in Threads \ {t} : pc'[u] = pc[u] /\ succ'[u] = succ[u]
      /\ \A u \in Threads \ {x} : Notified'[u] = Notified[u]
      /\ UNCHANGED <<cxq, EntryList, List, WaitSet, OnDeck, ret>>
  BY Zenon, <1>1, <1>a DEF NotifyDone
<1>3. Asleep(x) /\ ~Notified[x] /\ x \notin Members(WaitSet) /\ OnQueue(x) /\ WaitLock = t
  BY Zenon, <1>1, <1>2, <1>a DEF NotifyInv, Notifying
<1>4. x # t /\ pc[x] # "addwait"
  BY Zenon, <1>2, <1>3 DEF Asleep, UnlockPCs
<1>5. pc[x] # "drop"
  <2>1. Inside(t) /\ ~snuck
    BY Zenon, <1>1, <1>2 DEF Inside, OwnerPCs, MInv, ThreadInv, PosInv, SneakInv, InCS
  <2>2. pc[x] = "drop" => Holds(x) /\ Holds(t)
    BY Zenon, <2>1 DEF Holds, Inside
  <2> QED
    BY Zenon, <1>4, <2>2 DEF MInv, PairInv
<1>6. \A u \in Threads \ {t} : pc[u] \notin Notifying
  BY Zenon, <1>1, <1>3 DEF Places, NotifyInv
<1>7. QueueInv'
  <2>1. QueuesKept
    BY Zenon, <1>2 DEF QueuesKept
  <2> QED
    BY Zenon, <1>1, <2>1, QueuesKeptInv
<1>8. /\ \A u \in Threads : OnQueue(u)' <=> OnQueue(u)
      /\ \A u \in Threads : Asleep(u)' <=> Asleep(u)
      /\ \A u \in Threads : pc'[u] \notin Notifying
  BY Zenon, <1>2, <1>6 DEF OnQueue, Asleep, UnlockPCs, Notifying
<1>9. ASSUME NEW u \in Threads PROVE PlaceInv(u)'
  <2>0. PlaceInv(u)
    BY Zenon, <1>1 DEF Places
  <2>1. PlaceInv(u) /\ (u # t => pc'[u] = pc[u])
    BY Zenon, <1>2, <2>0
  <2>2. CASE u = t
    <3>1. ~Asleep(t) /\ ~OnQueue(t) /\ t \notin Members(WaitSet) /\ ret[t] = "idle"
      <4>1. ~Asleep(t) /\ pc[t] \in OwnerPCs /\ pc[t] \notin Decked
        BY Zenon, <1>2 DEF Asleep, UnlockPCs, Decked, OwnerPCs
      <4> QED
        BY Zenon, <1>1, <4>1 DEF PlaceInv
    <3> QED
      BY Zenon, <1>2, <1>8, <2>2, <3>1 DEF PlaceInv
  <2>3. CASE u = x
    BY Zenon, <1>2, <1>3, <1>4, <1>5, <1>8, <2>1, <2>3 DEF PlaceInv
  <2>4. CASE u # t /\ u # x
    <3>1. /\ ~\E v \in Threads : pc[v] \in Notifying /\ succ[v] = u
          /\ Notified'[u] = Notified[u]
      BY Zenon, <1>2, <1>6, <1>a, <2>4
    <3> QED
      BY Zenon, <1>2, <1>8, <2>1, <2>4, <3>1 DEF PlaceInv, Notifying
  <2> QED
    BY Zenon, <2>2, <2>3, <2>4
<1>10. ASSUME NEW u \in Threads PROVE NotifyInv(u)'
  BY Zenon, <1>8 DEF NotifyInv, Notifying
<1> QED
  BY Zenon, <1>7, <1>9, <1>10 DEF LInv, Places

----------------------------------------------------------------------------
\* Every step keeps the lists in order.
LEMMA ListsStep == MInv /\ LInv /\ [Next]_vars => LInv'
<1> SUFFICES ASSUME MInv, LInv, [Next]_vars PROVE LInv'
  OBVIOUS
<1>1. ASSUME NEW t \in Threads, Step(t) \/ Begin(t), Busy(t) PROVE LInv'
  <2>1. CASE RemoveFromWaitSet(t)
    BY Zenon, <2>1, NotifiedLists, RemoveLists
  <2>2. CASE WaitLoop(t) /\ pc'[t] = "check"
    <3>1. pc \in [Threads -> PCs]
      BY Zenon DEF MInv, TypeOK
    <3>2. Notified[t]
      BY Zenon, <2>2, <3>1 DEF WaitLoop
    <3> QED
      BY Zenon, <2>2, <3>2, NotifiedLists
  <2> QED
    BY Zenon, <1>1, <2>1, <2>2, PushLists, ClearLists, ResetLists, DrainLists, MergeLists,
       WakeLists, AddLists, PopLists, NotifyPushLists, NotifyDoneLists
    DEF Busy
<1>2. ASSUME NEW t \in Threads, Step(t) \/ Begin(t), ~Busy(t) PROVE LInv'
  <2>1. CASE \/ Lock(t) \/ try_lock(t) \/ TrySpin(t) \/ ILock(t) \/ AcquireOrPush(t)
             \/ CheckOnDeck(t) \/ Park(t) \/ OnDeckLoop(t)
    BY Zenon, <1>2, <2>1, LockIsCalm, CalmStep DEF Busy
  <2>2. CASE \/ Unlock(t) \/ DropLock(t) \/ ReadOnDeck(t) \/ unpark(t) \/ ReadLockWord(t)
             \/ ReadEntryList(t) \/ Succession(t) \/ DrainCxq(t)
             \/ Recheck(t) \/ Punt(t) \/ Resample(t)
    BY Zenon, <1>2, <2>2, UnlockIsCalm, CalmStep DEF Busy
  <2>3. CASE WaitLoop(t) \/ Timeout(t) \/ Notify(t) \/ NotifyPop(t)
    BY Zenon, <1>2, <2>3, WaitIsCalm, CalmStep DEF Busy
  <2> QED
    BY Zenon, <1>2, <2>1, <2>2, <2>3 DEF Step, Begin, Busy
<1>3. CASE BeginSafepoint \/ EndSafepoint \/ UNCHANGED vars
  <2>1. UNCHANGED <<cxq, EntryList, OnDeck, WaitSet, WaitLock, Notified, ret, List, succ, pc>>
    BY Zenon, <1>3 DEF BeginSafepoint, EndSafepoint, vars
  <2>2. QueueInv'
    BY Zenon, <2>1 DEF LInv, QueueInv, ShapeInv, ApartInv, TransitInv
  <2>3. \A u \in Threads : (OnQueue(u)' <=> OnQueue(u)) /\ (Asleep(u)' <=> Asleep(u))
    BY SMTT(20), <2>1 DEF OnQueue, Asleep
  <2>4. ASSUME NEW u \in Threads PROVE PlaceInv(u)'
    BY Zenon, <2>1, <2>3 DEF LInv, Places, PlaceInv
  <2>5. ASSUME NEW u \in Threads PROVE NotifyInv(u)'
    <3>1. NotifyInv(u)
      BY Zenon DEF LInv, Places
    <3> QED
      BY Zenon, <2>1, <3>1 DEF NotifyInv, OnQueue, Asleep
  <2> QED
    BY Zenon, <2>2, <2>4, <2>5 DEF LInv, Places
<1> QED
  BY Zenon, <1>1, <1>2, <1>3 DEF Next

\* The lists are empty at the start, and nobody is on one.
LEMMA ListsInit == Init => LInv
<1> SUFFICES ASSUME Init PROVE LInv
  OBVIOUS
<1>1. /\ cxq = <<>> /\ EntryList = <<>> /\ WaitSet = <<>> /\ OnDeck = NULL
      /\ \A t \in Threads : List[t] = <<>> /\ pc[t] = "idle" /\ ret[t] = "idle"
  BY Zenon DEF Init
<1>2. \A t \in Threads : ~OnQueue(t) /\ ~Asleep(t)
  BY Zenon, <1>1, NoMembers DEF OnQueue, Asleep
<1>3. QueueInv
  BY Zenon, <1>1, NoMembers DEF QueueInv, ShapeInv, ApartInv, TransitInv
<1>4. Places
  BY Zenon, <1>1, <1>2, NoMembers DEF Places, PlaceInv, NotifyInv, Notifying
<1> QED
  BY Zenon, <1>3, <1>4 DEF LInv

\* The two invariants hold always.
THEOREM ListsInvariant == Spec => [](MInv /\ LInv)
<1>1. MInv /\ LInv /\ [Next]_vars => LInv'
  BY Zenon, ListsStep
<1> QED
  BY <1>1, ListsInit, MonitorInvariant, PTL DEF Spec

\* A thread is on at most one of cxq, EntryList and wait set, at most once, and the OnDeck
\* thread is on none of them.
THEOREM ThreadsAreOnOneList == Spec => []OnOneList
<1>1. MInv /\ LInv => OnOneList
  <2> SUFFICES ASSUME MInv, LInv PROVE Distinct(AllLists)
    BY Zenon DEF OnOneList, Distinct
  <2> DEFINE Transit == {t \in Threads : List[t] # <<>>}
             M == IF Transit = {} THEN <<>> ELSE List[CHOOSE t \in Transit : TRUE]
             D == IF OnDeck \in Threads THEN <<OnDeck>> ELSE <<>>
  <2>1. /\ cxq \in Seq(Threads) /\ EntryList \in Seq(Threads) /\ WaitSet \in Seq(Threads)
        /\ List \in [Threads -> Seq(Threads)]
        /\ Distinct(cxq) /\ Distinct(EntryList) /\ Distinct(WaitSet)
        /\ \A t \in Threads : Distinct(List[t])
    BY Zenon DEF MInv, TypeOK, LInv, QueueInv, ShapeInv
  <2>2. \A t \in Threads : PlaceInv(t) /\ NotifyInv(t) /\ ApartInv(t) /\ TransitInv(t)
    BY Zenon DEF LInv, Places, QueueInv
  <2>3. M = <<>> \/ \E t \in Threads : M = List[t] /\ M # <<>>
    <3>1. Transit # {} => (CHOOSE t \in Transit : TRUE) \in Transit
      BY Zenon
    <3> QED
      BY Zenon, <3>1
  <2>4. D \in Seq(Threads) /\ Distinct(D) /\ \A t \in Members(D) : OnDeck = t
    BY DEF Distinct, Members
  <2>5. AllLists = (((cxq \o EntryList) \o M) \o D) \o WaitSet
    BY Zenon DEF AllLists
  <2> HIDE DEF M, D
  <2>6. /\ M \in Seq(Threads) /\ Distinct(M)
        /\ \A t \in Members(M) : \E u \in Threads : t \in Members(List[u])
        /\ Members(M) \cap Members(EntryList) = {}
    <3>1. CASE M = <<>>
      BY <3>1, NoMembers
    <3>2. ASSUME NEW t \in Threads, M = List[t], M # <<>>
          PROVE  M \in Seq(Threads) /\ Distinct(M) /\ EntryList = <<>>
      BY Zenon, <2>1, <2>2, <3>2 DEF TransitInv
    <3> QED
      BY Zenon, <2>3, <3>1, <3>2, NoMembers
  <2>7. /\ Members(cxq) \subseteq Threads /\ Members(EntryList) \subseteq Threads
        /\ Members(M) \subseteq Threads /\ Members(D) \subseteq Threads
        /\ Members(WaitSet) \subseteq Threads
    BY Zenon, <2>1, <2>4, <2>6, MembersType
  <2>8. \A t \in Threads : OnQueue(t) => t \notin Members(WaitSet)
    BY <2>2 DEF PlaceInv, NotifyInv, Asleep, UnlockPCs, Decked, Notifying
  <2> DEFINE A == cxq \o EntryList
             B == A \o M
             C == B \o D
  <2>9. A \in Seq(Threads) /\ Members(A) = Members(cxq) \cup Members(EntryList) /\ Distinct(A)
    <3>1. Members(cxq) \cap Members(EntryList) = {}
      BY Zenon, <2>2, <2>7 DEF ApartInv
    <3> QED
      BY Zenon, <2>1, <3>1, Joined
  <2> HIDE DEF A
  <2>10. B \in Seq(Threads) /\ Members(B) = Members(A) \cup Members(M) /\ Distinct(B)
    <3>1. Members(A) \cap Members(M) = {}
      BY Zenon, <2>2, <2>6, <2>7, <2>9 DEF ApartInv
    <3> QED
      BY Zenon, <2>6, <2>9, <3>1, Joined
  <2> HIDE DEF B
  <2>11. C \in Seq(Threads) /\ Members(C) = Members(B) \cup Members(D) /\ Distinct(C)
    <3>1. Members(B) \cap Members(D) = {}
      BY <2>2, <2>4, <2>6, <2>7, <2>9, <2>10 DEF ApartInv
    <3> QED
      BY Zenon, <2>4, <2>10, <3>1, Joined
  <2> HIDE DEF C
  <2>12. Members(C) \cap Members(WaitSet) = {}
    <3>1. \A t \in Members(C) : t \in Threads /\ OnQueue(t)
      BY Zenon, <2>4, <2>6, <2>7, <2>9, <2>10, <2>11 DEF OnQueue
    <3> QED
      BY Zenon, <2>8, <3>1
  <2>13. Distinct(C \o WaitSet)
    BY Zenon, <2>1, <2>11, <2>12, Joined
  <2> QED
    BY Zenon, <2>5, <2>13 DEF A, B, C
<1> QED
  BY <1>1, ListsInvariant, PTL

\* A thread that parks until it is OnDeck is on a queue or OnDeck, and only such threads,
\* and threads in wait() that have been notified, are queued.
THEOREM QueuedThreadsPark == Spec => []QueuedAreParked
<1>1. MInv /\ LInv => QueuedAreParked
  <2> SUFFICES ASSUME MInv, LInv PROVE QueuedAreParked
    OBVIOUS
  <2> DEFINE Q == Members(cxq) \cup Members(EntryList)
                    \cup UNION {Members(List[u]) : u \in Threads}
  <2>1. ASSUME NEW t \in Threads
        PROVE  /\ pc[t] \in {"check", "parked"} => t \in Q \/ OnDeck = t
               /\ pc[t] \in {"ondeck", "deckparked", "clear"} => OnDeck = t
               /\ t \in Q => \/ pc[t] \in {"check", "parked", "waitloop", "waiting", "timedout"}
                             \/ InUnlock(t) /\ ret[t] = "waitloop"
    <3>1. PlaceInv(t) /\ NotifyInv(t) /\ ApartInv(t) /\ PosInv(t)
      BY Zenon DEF LInv, Places, QueueInv, MInv, ThreadInv
    <3>2. t \in Q <=> \/ t \in Members(cxq) \/ t \in Members(EntryList)
                      \/ \E u \in Threads : t \in Members(List[u])
      OBVIOUS
    <3> HIDE DEF Q
    <3>3. (OnQueue(t) <=> t \in Q \/ OnDeck = t) /\ (t \in Q => OnDeck # t)
      BY Zenon, <3>1, <3>2 DEF OnQueue, ApartInv
    <3>4. pc[t] = "drop" => ~OnQueue(t)
      <4> SUFFICES ASSUME pc[t] = "drop", OnQueue(t) PROVE FALSE
        OBVIOUS
      <4>1. PICK u \in Threads : pc[u] = "notified" /\ succ[u] = t
        BY Zenon, <3>1 DEF PlaceInv, Decked
      <4>2. Holds(t) /\ Holds(u) /\ t # u
        BY Zenon, <4>1 DEF MInv, SneakInv, Holds, Inside, OwnerPCs
      <4> QED
        BY Zenon, <4>2 DEF MInv, PairInv
    <3>5. t \in Q => \/ pc[t] \in {"check", "parked"} \/ Asleep(t)
      BY Zenon, <3>1, <3>3 DEF PlaceInv, PosInv, Decked
    <3> QED
      BY Zenon, <3>1, <3>3, <3>4, <3>5 DEF PlaceInv, PosInv, Asleep, InUnlock, UnlockPCs
  <2> QED
    BY Zenon, <2>1 DEF QueuedAreParked, Members
<1> QED
  BY <1>1, ListsInvariant, PTL

----------------------------------------------------------------------------
(* The monitor implements AbstractMonitor *)

\* The holder is the thread that holds the lock byte.
LEMMA HolderIs ==
  ASSUME MInv
  PROVE  /\ \A t \in Threads : Holds(t) => Holder = t
         /\ ~locked => Holder = NULL
         /\ \A t \in Threads : Holder = t => Holds(t)
<1>1. \A t, u \in Threads : Holds(t) /\ Holds(u) => t = u
  BY Zenon DEF MInv, PairInv
<1>2. ~locked => ~\E t \in Threads : Holds(t)
  BY Zenon DEF MInv, ThreadInv, PosInv
<1>3. (\E t \in Threads : Holds(t)) => Holder \in Threads /\ Holds(Holder)
  <2> SUFFICES ASSUME \E t \in Threads : Holds(t) PROVE Holder \in Threads /\ Holds(Holder)
    OBVIOUS
  <2>1. Holder = CHOOSE t \in Threads : Holds(t)
    BY Zenon DEF Holder
  <2> QED
    BY Zenon, <2>1
<1>4. (~\E t \in Threads : Holds(t)) => Holder = NULL
  BY Zenon DEF Holder
<1> QED
  BY Zenon, <1>1, <1>2, <1>3, <1>4, ThreadFacts

\* The same of the next state.
LEMMA NextHolder ==
  ASSUME MInv'
  PROVE  /\ \A t \in Threads : Holds(t)' => Holder' = t
         /\ ~locked' => Holder' = NULL
<1>1. \A t, u \in Threads : Holds(t)' /\ Holds(u)' => t = u
  BY Zenon DEF MInv, PairInv
<1>2. ~locked' => ~\E t \in Threads : Holds(t)'
  BY Zenon DEF MInv, ThreadInv, PosInv
<1>3. (\E t \in Threads : Holds(t)') => Holder' \in Threads /\ \A t \in Threads : Holder' = t => Holds(t)'
  <2> SUFFICES ASSUME \E t \in Threads : Holds(t)'
               PROVE  Holder' \in Threads /\ \A t \in Threads : Holder' = t => Holds(t)'
    OBVIOUS
  <2>1. Holder' = CHOOSE t \in Threads : Holds(t)'
    BY Zenon DEF Holder
  <2> QED
    BY Zenon, <2>1
<1>4. (~\E t \in Threads : Holds(t)') => Holder' = NULL
  BY Zenon DEF Holder
<1> QED
  BY Zenon, <1>1, <1>2, <1>3, <1>4, ThreadFacts

SameHolders == \A u \in Threads : Holds(u)' <=> Holds(u)

\* A step that leaves the holders alone is not seen.
LEMMA HolderKept ==
  ASSUME MInv, MInv', SameHolders
  PROVE  Holder' = Holder
<1>1. CASE \E t \in Threads : Holds(t)
  BY Zenon, <1>1, HolderIs, NextHolder DEF SameHolders
<1>2. CASE ~\E t \in Threads : Holds(t)
  BY Zenon, <1>2 DEF Holder, SameHolders
<1> QED
  BY Zenon, <1>1, <1>2

\* Taking the lock byte is Acquire, for a thread that is not in the wait set.
LEMMA TakeIsAcquire ==
  ASSUME MInv, MInv', LInv, NEW t \in Threads, ~Asleep(t), ~locked, Holds(t)', WaitSet' = WaitSet
  PROVE  AM!Acquire(t)
<1>1. Holder = NULL /\ Holder' = t
  BY Zenon, HolderIs, NextHolder
<1>2. t \notin Members(WaitSet)
  BY Zenon DEF LInv, Places, PlaceInv
<1> QED
  BY Zenon, <1>1, <1>2 DEF AM!Acquire, Waiting, Members

\* Dropping it is Release.
LEMMA DropIsRelease ==
  ASSUME MInv, MInv', NEW t \in Threads, Holds(t), ~locked', WaitSet' = WaitSet
  PROVE  AM!Release(t)
<1>1. Holder = t /\ Holder' = NULL
  BY Zenon, HolderIs, NextHolder
<1> QED
  BY Zenon, <1>1 DEF AM!Release, Waiting

\* What a step of t does to the lock byte.
Takes(t) == ~locked /\ Holds(t)' /\ ~Asleep(t) /\ WaitSet' = WaitSet
Drops(t) == ~locked' /\ Holds(t) /\ WaitSet' = WaitSet
Passes == SameHolders /\ WaitSet' = WaitSet

\* The steps of lock().
LEMMA LockIsAbstract ==
  ASSUME MInv, NEW t \in Threads,
         \/ Lock(t) \/ try_lock(t) \/ TrySpin(t) \/ ILock(t) \/ AcquireOrPush(t)
         \/ CheckOnDeck(t) \/ Park(t) \/ OnDeckLoop(t) \/ ClearOnDeck(t) \/ LeaveTBIVM(t)
  PROVE  Takes(t) \/ Passes
<1>1. /\ pc \in [Threads -> PCs] /\ SneakInv /\ (t = VMThread => ThreadInv(t))
      /\ VMThread \in Threads
  BY Zenon DEF MInv, TypeOK
<1>2. /\ pc[t] = "spin" => ~snuck \/ t # VMThread
  BY Zenon, <1>1 DEF SneakInv
<1> USE DEF Takes, Passes, SameHolders, Holds, Inside, OwnerPCs, SneakInv
<1>3. CASE Lock(t)
  BY Zenon, <1>1, <1>3 DEF Lock, TryLock, set_owner, CanSneak, Asleep, UnlockPCs
<1>4. CASE try_lock(t)
  BY Zenon, <1>1, <1>4 DEF try_lock, TryLock, set_owner, CanSneak, Asleep, UnlockPCs
<1>5. CASE TrySpin(t) \/ ILock(t)
  BY Zenon, <1>1, <1>5 DEF TrySpin, ILock, TryLock, set_owner, Asleep, UnlockPCs
<1>6. CASE AcquireOrPush(t) \/ OnDeckLoop(t)
  BY Zenon, <1>1, <1>6 DEF AcquireOrPush, OnDeckLoop, TryLock, Asleep, UnlockPCs
<1>7. CASE CheckOnDeck(t) \/ Park(t)
  BY Zenon, <1>1, <1>7 DEF CheckOnDeck, Park
<1>8. CASE ClearOnDeck(t) \/ LeaveTBIVM(t)
  BY Zenon, <1>1, <1>8 DEF ClearOnDeck, LeaveTBIVM, set_owner
<1> QED
  BY Zenon, <1>3, <1>4, <1>5, <1>6, <1>7, <1>8

\* The steps of unlock().
LEMMA UnlockIsAbstract ==
  ASSUME MInv, NEW t \in Threads,
         \/ Unlock(t) \/ DropLock(t) \/ ReadOnDeck(t) \/ unpark(t) \/ ReadLockWord(t)
         \/ ReadEntryList(t) \/ Succession(t) \/ DrainCxq(t) \/ MergeIntoEntryList(t)
         \/ WakeOne(t) \/ Recheck(t) \/ Punt(t) \/ Resample(t)
  PROVE  Drops(t) \/ Passes
<1>1. /\ pc \in [Threads -> PCs] /\ SneakInv /\ VMThread \in Threads
      /\ ret[t] \in {"idle", "waitloop"}
  BY Zenon DEF MInv, TypeOK
<1> USE DEF Drops, Passes, SameHolders, Holds, Inside, OwnerPCs, SneakInv
<1>2. CASE Unlock(t)
  <2>1. snuck => t = VMThread
    BY Zenon, <1>1, <1>2 DEF Unlock, MInv, ThreadInv, PosInv, InCS
  <2> QED
    BY SMTT(20), <1>1, <1>2, <2>1 DEF Unlock
<1>3. CASE DropLock(t)
  BY Zenon, <1>1, <1>3 DEF DropLock
<1>4. CASE ReadOnDeck(t) \/ unpark(t)
  BY Zenon, <1>1, <1>4 DEF ReadOnDeck, unpark
<1>5. CASE ReadLockWord(t) \/ ReadEntryList(t)
  BY Zenon, <1>1, <1>5 DEF ReadLockWord, ReadEntryList
<1>6. CASE Succession(t) \/ DrainCxq(t)
  BY Zenon, <1>1, <1>6 DEF Succession, DrainCxq
<1>7. CASE MergeIntoEntryList(t) \/ WakeOne(t)
  BY Zenon, <1>1, <1>7 DEF MergeIntoEntryList, WakeOne
<1>8. CASE Recheck(t) \/ Punt(t) \/ Resample(t)
  BY Zenon, <1>1, <1>8 DEF Recheck, Punt, Resample
<1> QED
  BY Zenon, <1>2, <1>3, <1>4, <1>5, <1>6, <1>7, <1>8

\* The steps of wait() and of notify() that the wait set does not show.
LEMMA WaitIsAbstract ==
  ASSUME MInv, NEW t \in Threads,
         \/ Wait(t) \/ WaitLoop(t) \/ Timeout(t) \/ (RemoveFromWaitSet(t) /\ Notified[t])
         \/ Notify(t) \/ (NotifyPop(t) /\ pc'[t] # "notifypush") \/ NotifyPush(t) \/ NotifyDone(t)
  PROVE  Passes
<1>1. pc \in [Threads -> PCs] /\ SneakInv
  BY Zenon DEF MInv, TypeOK
<1> USE DEF Passes, SameHolders, Holds, Inside, OwnerPCs, SneakInv
<1>2. CASE Wait(t) \/ WaitLoop(t) \/ Timeout(t)
  BY <1>1, <1>2 DEF Wait, WaitLoop, Timeout
<1>3. CASE RemoveFromWaitSet(t) /\ Notified[t]
  BY Zenon, <1>1, <1>3 DEF RemoveFromWaitSet
<1>4. CASE Notify(t) \/ (NotifyPop(t) /\ pc'[t] # "notifypush")
  BY <1>1, <1>4 DEF Notify, NotifyPop
<1>5. CASE NotifyPush(t) \/ NotifyDone(t)
  BY <1>1, <1>5 DEF NotifyPush, NotifyDone
<1> QED
  BY Zenon, <1>2, <1>3, <1>4, <1>5

\* Every step of the monitor is a step of AbstractMonitor or one it does not see.
LEMMA MonitorStep ==
  ASSUME MInv, MInv', LInv, [Next]_vars
  PROVE  [AM!Next]_<<Holder, Waiting>>
<1> DEFINE Goal == AM!Next \/ (Holder' = Holder /\ Waiting' = Waiting)
<1> SUFFICES Goal
  OBVIOUS
<1>0. Waiting = Members(WaitSet) /\ Waiting' = Members(WaitSet')
  BY Zenon DEF Waiting, Members
<1>1. ASSUME Passes PROVE Goal
  BY Zenon, <1>1, HolderKept DEF Passes, Waiting
<1>2. ASSUME NEW t \in Threads, Takes(t) PROVE Goal
  <2>1. AM!Acquire(t)
    BY Zenon, <1>2, TakeIsAcquire DEF Takes
  <2> QED
    BY Zenon, <2>1 DEF AM!Next
<1>3. ASSUME NEW t \in Threads, Drops(t) PROVE Goal
  <2>1. AM!Release(t)
    BY Zenon, <1>3, DropIsRelease DEF Drops
  <2> QED
    BY Zenon, <2>1 DEF AM!Next
<1>4. ASSUME NEW t \in Threads, AddToWaitSet(t) PROVE Goal
  <2>1. /\ TypeOK /\ SneakInv /\ WaitSet \in Seq(Threads) /\ pc \in [Threads -> PCs]
        /\ Distinct(WaitSet) /\ PlaceInv(t)
    BY Zenon DEF MInv, TypeOK, LInv, QueueInv, ShapeInv, Places
  <2>2. /\ pc[t] = "addwait" /\ pc'[t] = "drop" /\ WaitSet' = <<t>> \o WaitSet
        /\ \A u \in Threads \ {t} : pc'[u] = pc[u]
        /\ snuck' = snuck
    BY Zenon, <2>1, <1>4 DEF AddToWaitSet
  <2>3. Holds(t) /\ SameHolders
    BY Zenon, <2>1, <2>2 DEF Holds, Inside, OwnerPCs, SameHolders, SneakInv
  <2>4. t \notin Members(WaitSet)
    BY Zenon, <2>1, <2>2 DEF PlaceInv, Asleep, UnlockPCs
  <2>5. Members(WaitSet') = {t} \cup Members(WaitSet)
    BY Zenon, <2>1, <2>2, <2>4, Pushed
  <2>6. Holder = t /\ Holder' = Holder
    BY Zenon, <2>3, HolderIs, HolderKept
  <2>7. AM!Join(t)
    BY Zenon, <1>0, <2>4, <2>5, <2>6 DEF AM!Join
  <2> QED
    BY Zenon, <2>7 DEF AM!Next
<1>5. ASSUME NEW t \in Threads, RemoveFromWaitSet(t), ~Notified[t] PROVE Goal
  <2>1. pc \in [Threads -> PCs] /\ SneakInv
    BY Zenon DEF MInv, TypeOK
  <2>2. ~Holds(t) /\ SameHolders
    BY Zenon, <1>5, <2>1 DEF RemoveFromWaitSet, Holds, Inside, OwnerPCs, SameHolders, SneakInv
  <2>3. Holder # t /\ Holder' = Holder
    BY Zenon, <2>2, HolderIs, HolderKept
  <2>4. AM!TimeOut(t)
    BY Zenon, <1>0, <1>5, <2>3, RemoveLists DEF AM!TimeOut
  <2> QED
    BY Zenon, <2>4 DEF AM!Next
<1>6. ASSUME NEW t \in Threads, NotifyPop(t), pc'[t] = "notifypush" PROVE Goal
  <2>1. pc \in [Threads -> PCs] /\ SneakInv /\ WaitSet \in Seq(Threads)
    BY Zenon DEF MInv, TypeOK
  <2>2. Holds(t) /\ SameHolders
    BY Zenon, <1>6, <2>1 DEF NotifyPop, Holds, Inside, OwnerPCs, SameHolders, SneakInv
  <2>3. Holder = t /\ Holder' = Holder
    BY Zenon, <2>2, HolderIs, HolderKept
  <2>4. Members(WaitSet) \subseteq Threads
    BY Zenon, <2>1, MembersType
  <2>5. /\ succ'[t] \in Members(WaitSet) /\ succ'[t] # t
        /\ Members(WaitSet') = Members(WaitSet) \ {succ'[t]}
    BY Zenon, <1>6, PopLists
  <2>6. PICK u \in Threads : u = succ'[t]
    BY Zenon, <2>4, <2>5
  <2>7. AM!Notify(t, u)
    BY Zenon, <1>0, <2>3, <2>5, <2>6 DEF AM!Notify
  <2> QED
    BY Zenon, <2>7 DEF AM!Next
<1>7. ASSUME NEW t \in Threads, Step(t) \/ Begin(t) PROVE Goal
  <2>1. CASE \/ Lock(t) \/ try_lock(t) \/ TrySpin(t) \/ ILock(t) \/ AcquireOrPush(t)
             \/ CheckOnDeck(t) \/ Park(t) \/ OnDeckLoop(t) \/ ClearOnDeck(t) \/ LeaveTBIVM(t)
    BY Zenon, <1>1, <1>2, <2>1, LockIsAbstract
  <2>2. CASE \/ Unlock(t) \/ DropLock(t) \/ ReadOnDeck(t) \/ unpark(t) \/ ReadLockWord(t)
             \/ ReadEntryList(t) \/ Succession(t) \/ DrainCxq(t) \/ MergeIntoEntryList(t)
             \/ WakeOne(t) \/ Recheck(t) \/ Punt(t) \/ Resample(t)
    BY Zenon, <1>1, <1>3, <2>2, UnlockIsAbstract
  <2>3. CASE \/ Wait(t) \/ WaitLoop(t) \/ Timeout(t) \/ RemoveFromWaitSet(t)
             \/ Notify(t) \/ NotifyPop(t) \/ NotifyPush(t) \/ NotifyDone(t)
    BY Zenon, <1>1, <1>5, <1>6, <2>3, WaitIsAbstract
  <2> QED
    BY Zenon, <1>4, <1>7, <2>1, <2>2, <2>3 DEF Step, Begin
<1>8. CASE BeginSafepoint \/ EndSafepoint \/ UNCHANGED vars
  <2>1. UNCHANGED <<pc, snuck, WaitSet>>
    BY Zenon, <1>8 DEF BeginSafepoint, EndSafepoint, vars
  <2>2. Passes
    BY Zenon, <2>1 DEF Passes, SameHolders, Holds, Inside
  <2> QED
    BY Zenon, <1>1, <2>2
<1> QED
  BY Zenon, <1>7, <1>8 DEF Next

LEMMA MonitorInit == Init => AM!Init
<1> SUFFICES ASSUME Init PROVE AM!Init
  OBVIOUS
<1>1. \A t \in Threads : ~Holds(t)
  BY Zenon DEF Init, Holds, Inside, OwnerPCs
<1>2. Holder = NULL
  BY Zenon, <1>1 DEF Holder
<1>3. Waiting = {}
  BY DEF Init, Waiting
<1> QED
  BY Zenon, <1>2, <1>3 DEF AM!Init

\* The native monitor implements the monitor its callers rely on: every step of the lock,
\* unlock, wait and notify protocols is one of Acquire, Release, Join, Notify and TimeOut
\* of AbstractMonitor, or changes neither the holder nor the set of un-notified waiters.
THEOREM MonitorRefinement == Spec => ImplementsMonitor
<1>1. MInv /\ MInv' /\ LInv /\ [Next]_vars => [AM!Next]_<<Holder, Waiting>>
  BY Zenon, MonitorStep
<1> QED
  BY <1>1, MonitorInit, ListsInvariant, PTL DEF Spec, ImplementsMonitor, AM!Spec
============================================================================
