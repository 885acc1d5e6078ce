--------------------------- MODULE NativeMonitor ---------------------------
(***************************************************************************)
(* The VM's own Mutex/Monitor (share/vm/runtime/mutex.cpp): one lock byte, *)
(* the contention queue cxq that shares the lock word with it, the         *)
(* EntryList, the wait set, and OnDeck, which names the heir presumptive   *)
(* and doubles as the inner lock (LBIT) of the thread arranging            *)
(* succession.  One step is one access to shared state: a CAS loop is the  *)
(* step that ends it, a park is enabled by the permit of the thread's      *)
(* ParkEvent.  The lists, which the code links through ParkEvent::ListNext,*)
(* are sequences; OnOneList is what makes that representation right.       *)
(* Every fence of the code stands between two of these steps, so the       *)
(* shared variables are sequentially consistent.                           *)
(***************************************************************************)
EXTENDS Naturals, Sequences

CONSTANTS
  JavaThreads,   \* threads that block through ThreadBlockInVM
  VMThread,      \* the thread that runs safepoints, and may sneak past a lock
  Waiters,       \* the threads that call wait() on this monitor
  Contenders,    \* the threads that insist on a lock that is held; others try again later
  NULL,          \* no thread
  LBIT           \* the mark of the inner lock in OnDeck

Threads == JavaThreads \cup {VMThread}

ASSUME ConstantsDistinct ==
  /\ VMThread \notin JavaThreads
  /\ NULL \notin Threads
  /\ LBIT \notin Threads \cup {NULL}
  /\ Waiters \subseteq Contenders
  /\ Contenders \subseteq Threads

VARIABLES
  locked,      \* the lock byte of _LockWord
  cxq,         \* the rest of _LockWord: recently arrived threads, head first
  EntryList,   \* threads next in line, head first
  OnDeck,      \* the heir presumptive, LBIT while succession is arranged
  WaitSet,     \* threads in wait(), head first
  WaitLock,    \* holder of the muxAcquire lock of the wait set
  owner,       \* the advisory _owner
  snuck,       \* _snuck: the VM thread only pretends to hold the lock
  permit,      \* ParkEvent::_Event is 1
  Notified,    \* ParkEvent::Notified
  ret,         \* where IUnlock returns to: "idle", or "waitloop" inside wait()
  List,        \* the segment a thread detached from cxq
  succ,        \* the event a thread is about to unpark, or to notify
  pc,          \* control state of each thread
  safepoint    \* SafepointSynchronize::is_at_safepoint()

vars == <<locked, cxq, EntryList, OnDeck, WaitSet, WaitLock, owner, snuck, permit,
          Notified, ret, List, succ, pc, safepoint>>

\* Control states of lock(), of wait() and of IUnlock().
LockPCs == {"spin", "ilock", "push", "check", "parked", "ondeck", "deckparked",
            "clear", "leave"}
WaitPCs == {"addwait", "waitloop", "waiting", "timedout"}
UnlockPCs == {"drop", "readdeck", "readword", "readentry", "succession", "drain",
              "merge", "wake", "recheck", "unpark", "punt", "resample"}
OwnerPCs == {"cs", "notify", "notifypush", "notified"}
PCs == {"idle"} \cup LockPCs \cup WaitPCs \cup UnlockPCs \cup OwnerPCs

\* The thread has set the lock byte and has not cleared it since, or pretends so.
Inside(t) == pc[t] \in OwnerPCs \cup {"clear", "leave", "addwait", "drop"}
Holds(t) == Inside(t) /\ ~(t = VMThread /\ snuck)

\* A Java thread inside the ThreadBlockInVM of lock() or of wait(): a safepoint
\* does not wait for it, and it stalls at the exit ("leave") during one.
InTBIVM(t) ==
  \/ pc[t] \in (LockPCs \ {"spin"}) \cup WaitPCs
  \/ pc[t] \in UnlockPCs /\ ret[t] = "waitloop"

Goto(t, l) == pc' = [pc EXCEPT ![t] = l]

Init ==
  /\ locked = FALSE
  /\ cxq = <<>> /\ EntryList = <<>> /\ WaitSet = <<>>
  /\ OnDeck = NULL /\ WaitLock = NULL /\ owner = NULL
  /\ snuck = FALSE /\ safepoint = FALSE
  /\ permit = [t \in Threads |-> FALSE]
  /\ Notified = [t \in Threads |-> FALSE]
  /\ ret = [t \in Threads |-> "idle"]
  /\ List = [t \in Threads |-> <<>>]
  /\ succ = [t \in Threads |-> NULL]
  /\ pc = [t \in Threads |-> "idle"]

----------------------------------------------------------------------------
(* lock(), try_lock() and ILock() *)

lists == <<cxq, EntryList, WaitSet, WaitLock, List>>
waitvars == <<Notified, ret>>

\* Java threads do not run in the VM while a safepoint is in progress.
MayRun(t) == safepoint => t = VMThread

\* Mutant of CanSneak: the VM thread does not look for an owner.
CanSneakAlways(t) == t = VMThread /\ safepoint

CanSneak(t) == t = VMThread /\ safepoint /\ owner = NULL

\* TryLock, TryFast and a TrySpin that succeeds: the CAS that sets the lock byte.
TryLock == ~locked /\ locked' = TRUE

\* The thread becomes the owner.  No other thread looks at the owner before the next
\* safepoint, so set_owner is a step with the CAS or with the exit of ThreadBlockInVM.
set_owner(t) ==
  /\ owner' = t
  /\ Goto(t, "cs")

\* lock(): TryFast, else sneak, else spin.  The VM thread does not ask for a lock that a
\* stopped Java thread owns (check_block_state).
Lock(t) ==
  /\ pc[t] = "idle"
  /\ MayRun(t)
  /\ \/ TryLock /\ set_owner(t) /\ UNCHANGED snuck
     \/ locked /\ CanSneak(t) /\ snuck' = TRUE /\ set_owner(t) /\ UNCHANGED locked
     \/ /\ locked /\ ~safepoint /\ t \in Contenders
        /\ Goto(t, "spin")
        /\ UNCHANGED <<locked, owner, snuck>>
  /\ UNCHANGED <<lists, waitvars, OnDeck, permit, succ, safepoint>>

\* try_lock() that returns true: the sneaking VM thread does not look at the lock byte.
try_lock(t) ==
  /\ pc[t] = "idle"
  /\ MayRun(t)
  /\ \/ CanSneak(t) /\ snuck' = TRUE /\ UNCHANGED locked
     \/ ~CanSneak(t) /\ TryLock /\ UNCHANGED snuck
  /\ set_owner(t)
  /\ UNCHANGED <<lists, waitvars, OnDeck, permit, succ, safepoint>>

\* lock(): TrySpin in the VM, then ILock, for a Java thread inside ThreadBlockInVM.
TrySpin(t) ==
  /\ pc[t] = "spin"
  /\ \/ TryLock /\ set_owner(t)
     \/ locked /\ Goto(t, "ilock") /\ UNCHANGED <<locked, owner>>
  /\ UNCHANGED <<lists, waitvars, OnDeck, snuck, permit, succ, safepoint>>

\* ILock(): TryFast and TrySpin; when both fail the event is reset.
ILock(t) ==
  /\ pc[t] = "ilock"
  /\ \/ TryLock /\ Goto(t, "leave") /\ UNCHANGED permit
     \/ locked /\ permit' = [permit EXCEPT ![t] = FALSE] /\ Goto(t, "push") /\ UNCHANGED locked
  /\ UNCHANGED <<lists, waitvars, OnDeck, owner, snuck, succ, safepoint>>

AcquireOrPush(t) ==
  /\ pc[t] = "push"
  /\ \/ TryLock /\ Goto(t, "leave") /\ UNCHANGED cxq
     \/ locked /\ cxq' = <<t>> \o cxq /\ Goto(t, "check") /\ UNCHANGED locked
  /\ UNCHANGED <<EntryList, WaitSet, WaitLock, List, waitvars, OnDeck, owner, snuck, permit,
                 succ, safepoint>>

\* The loop that parks until OnDeck is the thread's own event.
CheckOnDeck(t) ==
  /\ pc[t] = "check"
  /\ Goto(t, IF OnDeck = t THEN "ondeck" ELSE "parked")
  /\ UNCHANGED <<lists, waitvars, locked, OnDeck, owner, snuck, permit, succ, safepoint>>

\* ParkEvent::park() returns.
Park(t) ==
  /\ pc[t] \in {"parked", "deckparked", "waiting"}
  /\ permit[t]
  /\ permit' = [permit EXCEPT ![t] = FALSE]
  /\ Goto(t, CASE pc[t] = "parked" -> "check"
               [] pc[t] = "deckparked" -> "ondeck"
               [] pc[t] = "waiting" -> "waitloop")
  /\ UNCHANGED <<lists, waitvars, locked, OnDeck, owner, snuck, succ, safepoint>>

\* The OnDeck thread contends for the lock byte, or parks.
OnDeckLoop(t) ==
  /\ pc[t] = "ondeck"
  /\ \/ TryLock /\ Goto(t, "clear")
     \/ locked /\ Goto(t, "deckparked") /\ UNCHANGED locked
  /\ UNCHANGED <<lists, waitvars, OnDeck, owner, snuck, permit, succ, safepoint>>

ClearOnDeck(t) ==
  /\ pc[t] = "clear"
  /\ OnDeck' = NULL
  /\ Goto(t, "leave")
  /\ UNCHANGED <<lists, waitvars, locked, owner, snuck, permit, succ, safepoint>>

\* The exit of ThreadBlockInVM, where a Java thread blocks for a safepoint; the wait()
\* it may end leaves no trace (nothing reads Notified before the next wait() clears it).
LeaveTBIVM(t) ==
  /\ pc[t] = "leave"
  /\ MayRun(t)
  /\ set_owner(t)
  /\ ret' = [ret EXCEPT ![t] = "idle"]
  /\ Notified' = [Notified EXCEPT ![t] = FALSE]
  /\ UNCHANGED <<lists, locked, OnDeck, snuck, permit, succ, safepoint>>

----------------------------------------------------------------------------
(* unlock() and IUnlock() *)

\* Mutant of Unlock: the VM thread that snuck drops the lock byte as well.
UnlockSnuck(t) ==
  /\ pc[t] = "cs"
  /\ MayRun(t)
  /\ owner' = NULL
  /\ snuck' = FALSE
  /\ locked' = FALSE
  /\ Goto(t, "readdeck")
  /\ UNCHANGED <<lists, waitvars, OnDeck, permit, succ, safepoint>>

Unlock(t) ==
  /\ pc[t] = "cs"
  /\ MayRun(t)
  /\ owner' = NULL
  /\ IF snuck THEN snuck' = FALSE /\ Goto(t, "idle") /\ UNCHANGED locked
              ELSE locked' = FALSE /\ Goto(t, "readdeck") /\ UNCHANGED snuck
  /\ UNCHANGED <<lists, waitvars, OnDeck, permit, succ, safepoint>>

\* IUnlock() as called by IWait() clears the lock byte.
DropLock(t) ==
  /\ pc[t] = "drop"
  /\ locked' = FALSE
  /\ Goto(t, "readdeck")
  /\ UNCHANGED <<lists, waitvars, OnDeck, owner, snuck, permit, succ, safepoint>>

\* An OnDeck thread is unparked; a thread holding the inner lock takes over succession.
ReadOnDeck(t) ==
  /\ pc[t] = "readdeck"
  /\ Goto(t, CASE OnDeck = NULL -> "readword"
               [] OnDeck = LBIT -> ret[t]
               [] OTHER -> "unpark")
  /\ succ' = [succ EXCEPT ![t] = IF OnDeck \in Threads THEN OnDeck ELSE NULL]
  /\ UNCHANGED <<lists, waitvars, locked, OnDeck, owner, snuck, permit, safepoint>>

unpark(t) ==
  /\ pc[t] = "unpark"
  /\ permit' = [permit EXCEPT ![succ[t]] = TRUE]
  /\ succ' = [succ EXCEPT ![t] = NULL]
  /\ Goto(t, ret[t])
  /\ UNCHANGED <<lists, waitvars, locked, OnDeck, owner, snuck, safepoint>>

\* The lock word: a new owner is responsible for succession.
ReadLockWord(t) ==
  /\ pc[t] = "readword"
  /\ Goto(t, CASE locked -> ret[t]
               [] ~locked /\ cxq # <<>> -> "succession"
               [] OTHER -> "readentry")
  /\ UNCHANGED <<lists, waitvars, locked, OnDeck, owner, snuck, permit, succ, safepoint>>

ReadEntryList(t) ==
  /\ pc[t] = "readentry"
  /\ Goto(t, IF EntryList = <<>> THEN ret[t] ELSE "succession")
  /\ UNCHANGED <<lists, waitvars, locked, OnDeck, owner, snuck, permit, succ, safepoint>>

\* Mutant of Succession: a store in place of the CAS.
SuccessionStore(t) ==
  /\ pc[t] = "succession"
  /\ OnDeck' = LBIT
  /\ Goto(t, IF EntryList = <<>> THEN "drain" ELSE "wake")
  /\ UNCHANGED <<lists, waitvars, locked, owner, snuck, permit, succ, safepoint>>

\* CAS of OnDeck from NULL to LBIT: the inner lock, and the EntryList under it.
Succession(t) ==
  /\ pc[t] = "succession"
  /\ IF OnDeck = NULL
       THEN OnDeck' = LBIT /\ Goto(t, IF EntryList = <<>> THEN "drain" ELSE "wake")
       ELSE UNCHANGED OnDeck /\ Goto(t, ret[t])
  /\ UNCHANGED <<lists, waitvars, locked, owner, snuck, permit, succ, safepoint>>

\* Detach the whole cxq by CAS, unless it is empty or the lock is taken again.
DrainCxq(t) ==
  /\ pc[t] = "drain"
  /\ IF cxq = <<>> \/ locked
       THEN Goto(t, "punt") /\ UNCHANGED <<cxq, List>>
       ELSE /\ cxq' = <<>>
            /\ List' = [List EXCEPT ![t] = cxq]
            /\ Goto(t, "merge")
  /\ UNCHANGED <<EntryList, WaitSet, WaitLock, waitvars, locked, OnDeck, owner, snuck, permit,
                 succ, safepoint>>

MergeIntoEntryList(t) ==
  /\ pc[t] = "merge"
  /\ EntryList' = List[t]
  /\ List' = [List EXCEPT ![t] = <<>>]
  /\ Goto(t, "wake")
  /\ UNCHANGED <<cxq, WaitSet, WaitLock, waitvars, locked, OnDeck, owner, snuck, permit, succ,
                 safepoint>>

\* The head of the EntryList becomes the OnDeck thread.
WakeOne(t) ==
  /\ pc[t] = "wake"
  /\ EntryList' = Tail(EntryList)
  /\ OnDeck' = Head(EntryList)
  /\ succ' = [succ EXCEPT ![t] = Head(EntryList)]
  /\ Goto(t, "recheck")
  /\ UNCHANGED <<cxq, WaitSet, WaitLock, List, waitvars, locked, owner, snuck, permit, safepoint>>

\* The unpark is left to a new owner, if there is one.
Recheck(t) ==
  /\ pc[t] = "recheck"
  /\ Goto(t, IF locked THEN ret[t] ELSE "unpark")
  /\ succ' = [succ EXCEPT ![t] = IF locked THEN NULL ELSE @]
  /\ UNCHANGED <<lists, waitvars, locked, OnDeck, owner, snuck, permit, safepoint>>

Punt(t) ==
  /\ pc[t] = "punt"
  /\ OnDeck' = NULL
  /\ Goto(t, "resample")
  /\ UNCHANGED <<lists, waitvars, locked, owner, snuck, permit, succ, safepoint>>

\* Mutant of Resample: the inner lock is dropped and nothing is looked at again.
ResampleNot(t) ==
  /\ pc[t] = "resample"
  /\ Goto(t, ret[t])
  /\ UNCHANGED <<lists, waitvars, locked, OnDeck, owner, snuck, permit, succ, safepoint>>

\* A thread may have pushed itself while this one held the inner lock.
Resample(t) ==
  /\ pc[t] = "resample"
  /\ Goto(t, IF cxq # <<>> /\ ~locked THEN "succession" ELSE ret[t])
  /\ UNCHANGED <<lists, waitvars, locked, OnDeck, owner, snuck, permit, succ, safepoint>>

----------------------------------------------------------------------------
(* wait() and notify(), called by the owner; the VM thread waits outside safepoints
   only, and notifies only when it holds the lock byte itself *)

\* wait(): gives up ownership, enters ThreadBlockInVM, IWait resets the event.
Wait(t) ==
  /\ pc[t] = "cs" /\ t \in Waiters
  /\ ~safepoint
  /\ owner' = NULL
  /\ Notified' = [Notified EXCEPT ![t] = FALSE]
  /\ permit' = [permit EXCEPT ![t] = FALSE]
  /\ ret' = [ret EXCEPT ![t] = "waitloop"]
  /\ Goto(t, "addwait")
  /\ UNCHANGED <<lists, locked, OnDeck, snuck, succ, safepoint>>

AddToWaitSet(t) ==
  /\ pc[t] = "addwait"
  /\ WaitLock = NULL
  /\ WaitSet' = <<t>> \o WaitSet
  /\ Goto(t, "drop")
  /\ UNCHANGED <<cxq, EntryList, WaitLock, List, waitvars, locked, OnDeck, owner, snuck, permit,
                 succ, safepoint>>

WaitLoop(t) ==
  /\ pc[t] = "waitloop"
  /\ Goto(t, IF Notified[t] THEN "check" ELSE "waiting")
  /\ UNCHANGED <<lists, waitvars, locked, OnDeck, owner, snuck, permit, succ, safepoint>>

\* park(timo) returns OS_TIMEOUT and leaves the event reset: an unpark between its last
\* look at _Event and its store of 0 is swallowed (Parking).  A wait() without a timeout
\* is one for which this step never comes.
Timeout(t) ==
  /\ pc[t] = "waiting"
  /\ permit' = [permit EXCEPT ![t] = FALSE]
  /\ Goto(t, "timedout")
  /\ UNCHANGED <<lists, waitvars, locked, OnDeck, owner, snuck, succ, safepoint>>

\* Mutant of Unlink: the thread stays linked.
UnlinkNot(s, t) == s

\* The list s without its element t.
Unlink(s, t) ==
  LET i == CHOOSE k \in DOMAIN s : s[k] = t
  IN  [j \in 1..(Len(s) - 1) |-> IF j < i THEN s[j] ELSE s[j + 1]]

\* Mutant of RemoveFromWaitSet: Notified is not looked at again under the WaitLock.
RemoveUnchecked(t) ==
  /\ pc[t] = "timedout"
  /\ WaitLock = NULL
  /\ WaitSet' = IF \E k \in DOMAIN WaitSet : WaitSet[k] = t THEN Unlink(WaitSet, t) ELSE WaitSet
  /\ Goto(t, "ilock")
  /\ UNCHANGED <<cxq, EntryList, WaitLock, List, waitvars, locked, OnDeck, owner, snuck, permit,
                 succ, safepoint>>

\* After a timeout the thread unlinks itself, unless a notify() moved it meanwhile.
RemoveFromWaitSet(t) ==
  /\ pc[t] = "timedout"
  /\ \/ Notified[t] /\ Goto(t, "check") /\ UNCHANGED WaitSet
     \/ /\ ~Notified[t] /\ WaitLock = NULL
        /\ WaitSet' = Unlink(WaitSet, t)
        /\ Goto(t, "ilock")
  /\ UNCHANGED <<cxq, EntryList, WaitLock, List, waitvars, locked, OnDeck, owner, snuck, permit,
                 succ, safepoint>>

\* notify() by the owner, and one round of notify_all().
Notify(t) ==
  /\ pc[t] = "cs" /\ ~snuck
  /\ MayRun(t)
  /\ WaitSet # <<>>
  /\ Goto(t, "notify")
  /\ UNCHANGED <<lists, waitvars, locked, OnDeck, owner, snuck, permit, succ, safepoint>>

\* Mutant of NotifyPop: the wait set is cut off behind the thread that is notified.
NotifyPopCut(t) ==
  /\ pc[t] = "notify"
  /\ WaitLock = NULL
  /\ IF WaitSet = <<>>
       THEN Goto(t, "cs") /\ UNCHANGED <<WaitSet, WaitLock, succ>>
       ELSE /\ WaitLock' = t
            /\ WaitSet' = <<>>
            /\ succ' = [succ EXCEPT ![t] = Head(WaitSet)]
            /\ Goto(t, "notifypush")
  /\ UNCHANGED <<cxq, EntryList, List, waitvars, locked, OnDeck, owner, snuck, permit, safepoint>>

\* The head of the wait set is unlinked under the WaitLock, if it is still there.
NotifyPop(t) ==
  /\ pc[t] = "notify"
  /\ WaitLock = NULL
  /\ IF WaitSet = <<>>
       THEN Goto(t, "cs") /\ UNCHANGED <<WaitSet, WaitLock, succ>>
       ELSE /\ WaitLock' = t
            /\ WaitSet' = Tail(WaitSet)
            /\ succ' = [succ EXCEPT ![t] = Head(WaitSet)]
            /\ Goto(t, "notifypush")
  /\ UNCHANGED <<cxq, EntryList, List, waitvars, locked, OnDeck, owner, snuck, permit, safepoint>>

NotifyPush(t) ==
  /\ pc[t] = "notifypush"
  /\ cxq' = <<succ[t]>> \o cxq
  /\ Goto(t, "notified")
  /\ UNCHANGED <<EntryList, WaitSet, WaitLock, List, waitvars, locked, OnDeck, owner, snuck, permit,
                 succ, safepoint>>

NotifyDone(t) ==
  /\ pc[t] = "notified"
  /\ Notified' = [Notified EXCEPT ![succ[t]] = TRUE]
  /\ WaitLock' = NULL
  /\ succ' = [succ EXCEPT ![t] = NULL]
  /\ Goto(t, "cs")
  /\ UNCHANGED <<cxq, EntryList, WaitSet, List, ret, locked, OnDeck, owner, snuck, permit,
                 safepoint>>

----------------------------------------------------------------------------
(* Safepoints (safepoint.cpp), seen from a monitor *)

\* Every Java thread is outside the monitor, inside one of its ThreadBlockInVMs, or owns it
\* and is stopped elsewhere, as by the ThreadBlockInVM of another monitor.
BeginSafepoint ==
  /\ ~safepoint
  /\ pc[VMThread] = "idle"
  /\ \A t \in JavaThreads : pc[t] \in {"idle", "cs"} \/ InTBIVM(t)
  /\ safepoint' = TRUE
  /\ UNCHANGED <<lists, waitvars, locked, OnDeck, owner, snuck, permit, succ, pc>>

EndSafepoint ==
  /\ safepoint
  /\ pc[VMThread] = "idle"
  /\ safepoint' = FALSE
  /\ UNCHANGED <<lists, waitvars, locked, OnDeck, owner, snuck, permit, succ, pc>>

----------------------------------------------------------------------------
\* A thread goes on with a call it has begun; the owner leaves in the end.
Step(t) ==
  \/ TrySpin(t) \/ ILock(t) \/ AcquireOrPush(t) \/ CheckOnDeck(t) \/ Park(t)
  \/ OnDeckLoop(t) \/ ClearOnDeck(t) \/ LeaveTBIVM(t)
  \/ DropLock(t) \/ ReadOnDeck(t) \/ unpark(t) \/ ReadLockWord(t)
  \/ ReadEntryList(t) \/ Succession(t) \/ DrainCxq(t) \/ MergeIntoEntryList(t)
  \/ WakeOne(t) \/ Recheck(t) \/ Punt(t) \/ Resample(t)
  \/ AddToWaitSet(t) \/ WaitLoop(t) \/ RemoveFromWaitSet(t)
  \/ NotifyPop(t) \/ NotifyPush(t) \/ NotifyDone(t)

Begin(t) ==
  Lock(t) \/ try_lock(t) \/ Unlock(t) \/ Notify(t) \/ Wait(t) \/ Timeout(t)

Next ==
  \/ \E t \in Threads : Step(t) \/ Begin(t)
  \/ BeginSafepoint
  \/ EndSafepoint

\* The OS runs every thread that can run, owners unlock, safepoints end.
Fairness ==
  /\ \A t \in Threads : WF_vars(Step(t) \/ Unlock(t))
  /\ WF_vars(EndSafepoint)

Spec == Init /\ [][Next]_vars /\ Fairness

----------------------------------------------------------------------------
\* The types of the variables; succ is a thread whenever its event is used.
TypeOK ==
  /\ locked \in BOOLEAN /\ snuck \in BOOLEAN /\ safepoint \in BOOLEAN
  /\ cxq \in Seq(Threads) /\ EntryList \in Seq(Threads) /\ WaitSet \in Seq(Threads)
  /\ OnDeck \in Threads \cup {NULL, LBIT}
  /\ WaitLock \in Threads \cup {NULL} /\ owner \in Threads \cup {NULL}
  /\ permit \in [Threads -> BOOLEAN]
  /\ Notified \in [Threads -> BOOLEAN]
  /\ ret \in [Threads -> {"idle", "waitloop"}]
  /\ List \in [Threads -> Seq(Threads)]
  /\ succ \in [Threads -> Threads \cup {NULL}]
  /\ pc \in [Threads -> PCs]
  /\ \A t \in Threads : pc[t] \in {"unpark", "notifypush", "notified"} => succ[t] \in Threads

\* The critical section: from the return of lock() or of wait() to unlock() or wait().
InCS(t) == pc[t] \in OwnerPCs

\* At most one thread is in the critical section of a monitor, the VM thread that
\* snuck past a held lock byte included (Monitor::lock, "ON THE VMTHREAD SNEAKING PAST
\* HELD LOCKS").
MutualExclusion == \A t, u \in Threads : InCS(t) /\ InCS(u) => t = u

\* The lock byte is set exactly when one thread has set it and not yet cleared it, also
\* while the VM thread pretends to hold the lock: sneaking neither takes nor drops it.
LockByteHeldByOne ==
  /\ locked <=> \E t \in Threads : Holds(t)
  /\ \A t, u \in Threads : Holds(t) /\ Holds(u) => t = u

\* "a thread appears on at most one list -- cxq, EntryList or WaitSet -- at any one
\* time", and the OnDeck thread on none (comment at the head of mutex.cpp).  A segment
\* in transit from the cxq to the EntryList counts as a list.
AllLists ==
  LET Transit == {t \in Threads : List[t] # <<>>}
      Moving == IF Transit = {} THEN <<>> ELSE List[CHOOSE t \in Transit : TRUE]
      Deck == IF OnDeck \in Threads THEN <<OnDeck>> ELSE <<>>
  IN  cxq \o EntryList \o Moving \o Deck \o WaitSet
OnOneList == \A i, j \in DOMAIN AllLists : AllLists[i] = AllLists[j] => i = j

\* Nobody is lost: a thread that parks until it is made OnDeck is on a queue or is OnDeck,
\* and only such threads are queued, so that none of them contends by another way.
InUnlock(t) == pc[t] \in UnlockPCs \ {"drop"}
QueuedAreParked ==
  LET Queued == {cxq[i] : i \in DOMAIN cxq} \cup {EntryList[i] : i \in DOMAIN EntryList}
                  \cup UNION {{List[u][i] : i \in DOMAIN List[u]} : u \in Threads}
  IN  \A t \in Threads :
        /\ pc[t] \in {"check", "parked"} => t \in Queued \/ OnDeck = t
        /\ pc[t] \in {"ondeck", "deckparked", "clear"} => OnDeck = t
        /\ t \in Queued => \/ pc[t] \in {"check", "parked", "waitloop", "waiting", "timedout"}
                           \/ InUnlock(t) /\ ret[t] = "waitloop"

\* "being OnDeck is a stable property": it ends only when that thread holds the lock.
OnDeckStable ==
  [][(OnDeck \in Threads) => (OnDeck' = OnDeck \/ (Holds(OnDeck) /\ OnDeck' = NULL))]_vars

\* Every step of the lists, the inner lock and the sneaking VM thread is a step of the
\* atomic monitor, or invisible in it: the holder is the thread that has the lock byte.
Holder == IF \E t \in Threads : Holds(t) THEN CHOOSE t \in Threads : Holds(t) ELSE NULL
Waiting == {WaitSet[i] : i \in DOMAIN WaitSet}
AM == INSTANCE AbstractMonitor WITH holder <- Holder, waiting <- Waiting
ImplementsMonitor == AM!Spec

\* No wake-up is lost: while some thread wants the lock, or has been notified, it is
\* taken again and again (the policy of competitive handoff does not promise by whom).
Contends(t) ==
  \/ pc[t] \in {"spin", "ilock", "push", "check", "parked", "ondeck", "deckparked"}
  \/ pc[t] \in {"waitloop", "waiting", "timedout"} /\ Notified[t]
Progress == (\E t \in Threads : Contends(t)) ~> (\E t \in Threads : Holds(t))

============================================================================
