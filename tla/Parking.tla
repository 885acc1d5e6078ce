------------------------------ MODULE Parking ------------------------------
(***************************************************************************)
(* The two per-thread parking primitives of os_linux.cpp: PlatformEvent,   *)
(* on which the native monitors block, and Parker, behind                  *)
(* LockSupport.park.  One thread parks; several others publish a condition *)
(* and unpark it.  The parking thread follows the protocol both are made   *)
(* for: it tests its condition before and after every park.                *)
(* A variable that the mutex does not protect (_Event; _counter in the     *)
(* fast path of Parker::park) is read and written in separate steps, and a *)
(* plain store to it may be delayed past later loads, as on x86.           *)
(***************************************************************************)
EXTENDS Integers

CONSTANTS
  Unparkers,     \* the threads that call unpark()
  NULL           \* nobody

ASSUME ParkingAssumption == NULL \notin Unparkers \cup {"parker"} /\ "parker" \notin Unparkers

VARIABLES
  kind,        \* "PlatformEvent" or "Parker"
  workaround,  \* -XX:WorkAroundNPTLTimedWaitHang: signal before the mutex is released
  word,        \* _Event or _counter
  pending,     \* a store of 0 to _counter is in the store buffer of the parking thread
  mutex,       \* holder of _mutex: "parker", an unparker, or NULL
  waiting,     \* the parking thread is in pthread_cond_wait
  signalled,   \* it has been signalled there
  nParked,     \* _nParked
  flag,        \* the condition the parking thread waits for
  timed,       \* this park has a timeout
  result,      \* what PlatformEvent::park returned
  pc,          \* control state of the parking thread
  upc,         \* control state of the unparkers
  seen         \* the value of the word an unparker has read

vars == <<kind, workaround, word, pending, mutex, waiting, signalled, nParked, flag, timed,
          result, pc, upc, seen>>
options == <<kind, workaround>>
condvars == <<waiting, signalled>>

Goto(l) == pc' = l
UGoto(u, l) == upc' = [upc EXCEPT ![u] = l]

Init ==
  /\ kind \in {"PlatformEvent", "Parker"} /\ workaround \in BOOLEAN
  /\ word = 0 /\ pending = FALSE /\ mutex = NULL
  /\ waiting = FALSE /\ signalled = FALSE /\ nParked = 0
  /\ flag = FALSE /\ timed = FALSE /\ result = "OS_OK"
  /\ pc = "test"
  /\ upc = [u \in Unparkers |-> "idle"]
  /\ seen = [u \in Unparkers |-> 0]

----------------------------------------------------------------------------
(* The parking thread *)

\* The caller: the condition is taken by an atomic instruction, which drains the buffer.
Test ==
  /\ pc = "test"
  /\ \/ ~flag /\ Goto("park") /\ UNCHANGED <<flag, pending, word>>
     \/ /\ flag
        /\ flag' = FALSE
        /\ word' = IF pending THEN 0 ELSE word
        /\ pending' = FALSE
        /\ UNCHANGED pc
  /\ UNCHANGED <<options, mutex, condvars, nParked, timed, result, upc, seen>>

\* pthread_cond_wait releases the mutex.
CondWait ==
  /\ waiting' = TRUE
  /\ signalled' = FALSE
  /\ mutex' = NULL
  /\ Goto("wait")

\* pthread_cond_(timed)wait returns, with the mutex: signalled, or for any other reason
\* (a timeout, EINTR, a spurious wakeup).
CondReturn(l) ==
  /\ pc = "wait"
  /\ mutex = NULL
  /\ mutex' = "parker"
  /\ waiting' = FALSE
  /\ signalled' = FALSE
  /\ Goto(l)
  /\ UNCHANGED <<options, word, pending, nParked, flag, timed, result, upc, seen>>

Wakeup == signalled /\ CondReturn("loop")
SpuriousWakeup == ~signalled /\ CondReturn("loop")
Timeout == timed /\ ~signalled /\ CondReturn(IF kind = "Parker" THEN "loop" ELSE "decide")

\* PlatformEvent::park() and park(millis): the CAS that takes one.
EventPark ==
  /\ pc = "park" /\ kind = "PlatformEvent"
  /\ word' = word - 1
  /\ timed' \in BOOLEAN
  /\ IF word > 0 THEN Goto("test") /\ result' = "OS_OK" ELSE Goto("lock") /\ UNCHANGED result
  /\ UNCHANGED <<options, pending, mutex, condvars, nParked, flag, upc, seen>>

\* Mutant of EventLock: the thread does not count itself as parked.
EventLockUncounted ==
  /\ pc = "lock"
  /\ mutex = NULL
  /\ mutex' = "parker"
  /\ Goto("loop")
  /\ UNCHANGED <<options, word, pending, condvars, nParked, flag, timed, result, upc, seen>>

EventLock ==
  /\ pc = "lock"
  /\ mutex = NULL
  /\ mutex' = "parker"
  /\ nParked' = nParked + 1
  /\ Goto("loop")
  /\ UNCHANGED <<options, word, pending, condvars, flag, timed, result, upc, seen>>

\* while (_Event < 0) cond_wait.
EventLoop ==
  /\ pc = "loop" /\ kind = "PlatformEvent"
  /\ IF word < 0 THEN CondWait ELSE Goto("decide") /\ UNCHANGED <<condvars, mutex>>
  /\ UNCHANGED <<options, word, pending, nParked, flag, timed, result, upc, seen>>

\* Mutant of EventDecide: _Event is not looked at after a timeout.
EventDecideOK ==
  /\ pc = "decide"
  /\ result' = "OS_OK"
  /\ nParked' = nParked - 1
  /\ Goto("store")
  /\ UNCHANGED <<options, word, pending, mutex, condvars, flag, timed, upc, seen>>

\* park(millis) reads _Event once more ...
EventDecide ==
  /\ pc = "decide"
  /\ result' = IF word >= 0 THEN "OS_OK" ELSE "OS_TIMEOUT"
  /\ nParked' = nParked - 1
  /\ Goto("store")
  /\ UNCHANGED <<options, word, pending, mutex, condvars, flag, timed, upc, seen>>

\* ... and stores 0: an unpark() between the two is swallowed by a park that timed out.
EventStore ==
  /\ pc = "store"
  /\ word' = 0
  /\ mutex' = NULL
  /\ Goto("test")
  /\ UNCHANGED <<options, pending, condvars, nParked, flag, timed, result, upc, seen>>

\* Parker::park: the fast path reads _counter (its own delayed store first).
ParkerFast ==
  /\ pc = "park" /\ kind = "Parker"
  /\ Goto(IF word > 0 /\ ~pending THEN "clear" ELSE "enter")
  /\ UNCHANGED <<options, word, pending, mutex, condvars, nParked, flag, timed, result, upc, seen>>

\* _counter = 0, with no fence behind it.
ParkerClear ==
  /\ pc = "clear"
  /\ pending' = TRUE
  /\ Goto("test")
  /\ UNCHANGED <<options, word, mutex, condvars, nParked, flag, timed, result, upc, seen>>

\* The store reaches memory.
Drain ==
  /\ pending
  /\ pending' = FALSE
  /\ word' = 0
  /\ UNCHANGED <<options, mutex, condvars, nParked, flag, timed, result, pc, upc, seen>>

\* An interrupt is pending or time < 0, or ThreadBlockInVM is entered, with a fence.
ParkerEnter ==
  /\ pc = "enter"
  /\ \/ Goto("test") /\ UNCHANGED timed
     \/ ~pending /\ Goto("try") /\ timed' \in BOOLEAN
  /\ UNCHANGED <<options, word, pending, mutex, condvars, nParked, flag, result, upc, seen>>

\* pthread_mutex_trylock; contention means that someone is unparking this thread.
ParkerTry ==
  /\ pc = "try"
  /\ \/ mutex = NULL /\ mutex' = "parker" /\ Goto("locked")
     \/ mutex # NULL /\ Goto("test") /\ UNCHANGED mutex
  /\ UNCHANGED <<options, word, pending, condvars, nParked, flag, timed, result, upc, seen>>

\* Mutant of ParkerLocked: _counter is not looked at again under the mutex.
ParkerLockedUnchecked ==
  /\ pc = "locked"
  /\ CondWait
  /\ UNCHANGED <<options, word, pending, nParked, flag, timed, result, upc, seen>>

ParkerLocked ==
  /\ pc = "locked"
  /\ \/ word > 0 /\ word' = 0 /\ mutex' = NULL /\ Goto("test") /\ UNCHANGED condvars
     \/ word = 0 /\ CondWait /\ UNCHANGED word
  /\ UNCHANGED <<options, pending, nParked, flag, timed, result, upc, seen>>

\* _counter = 0 and unlock, whatever ended the wait.
ParkerWoken ==
  /\ pc = "loop" /\ kind = "Parker"
  /\ word' = 0
  /\ mutex' = NULL
  /\ Goto("test")
  /\ UNCHANGED <<options, pending, condvars, nParked, flag, timed, result, upc, seen>>

----------------------------------------------------------------------------
(* The unparkers *)

\* The caller: a thread that makes the condition true unparks the one that waits for it.
Publish(u) ==
  /\ upc[u] = "idle"
  /\ ~flag
  /\ flag' = TRUE
  /\ UGoto(u, "unpark")
  /\ UNCHANGED <<options, word, pending, mutex, condvars, nParked, timed, result, pc, seen>>

Signal == signalled' = waiting /\ UNCHANGED waiting

\* Mutant of EventUnpark: a counting semaphore.
EventUnparkCount(u) ==
  /\ upc[u] = "unpark" /\ kind = "PlatformEvent"
  /\ word' = word + 1
  /\ UGoto(u, IF word < 0 THEN "ulock" ELSE "idle")
  /\ UNCHANGED <<options, pending, mutex, condvars, nParked, flag, timed, result, pc, seen>>

\* PlatformEvent::unpark: nothing to do at 1, else the CAS that adds one.
EventUnpark(u) ==
  /\ upc[u] = "unpark" /\ kind = "PlatformEvent"
  /\ word' = IF word > 0 THEN word ELSE word + 1
  /\ UGoto(u, IF word < 0 THEN "ulock" ELSE "idle")
  /\ UNCHANGED <<options, pending, mutex, condvars, nParked, flag, timed, result, pc, seen>>

\* Under the mutex: is anybody parked?
EventAnyWaiters(u) ==
  /\ upc[u] = "ulock"
  /\ mutex = NULL
  /\ \/ nParked # 0 /\ workaround /\ Signal /\ UGoto(u, "idle")
     \/ nParked # 0 /\ ~workaround /\ UGoto(u, "signal") /\ UNCHANGED condvars
     \/ nParked = 0 /\ UGoto(u, "idle") /\ UNCHANGED condvars
  /\ UNCHANGED <<options, word, pending, mutex, nParked, flag, timed, result, pc, seen>>

\* Parker::unpark: lock, s = _counter ...
ParkerRead(u) ==
  /\ upc[u] = "unpark" /\ kind = "Parker"
  /\ mutex = NULL
  /\ mutex' = u
  /\ seen' = [seen EXCEPT ![u] = word]
  /\ UGoto(u, "write")
  /\ UNCHANGED <<options, word, pending, condvars, nParked, flag, timed, result, pc>>

\* ... _counter = 1, and the signal if s < 1.
ParkerWrite(u) ==
  /\ upc[u] = "write"
  /\ word' = 1
  /\ mutex' = NULL
  /\ seen' = [seen EXCEPT ![u] = 0]
  /\ \/ seen[u] < 1 /\ workaround /\ Signal /\ UGoto(u, "idle")
     \/ seen[u] < 1 /\ ~workaround /\ UGoto(u, "signal") /\ UNCHANGED condvars
     \/ seen[u] >= 1 /\ UGoto(u, "idle") /\ UNCHANGED condvars
  /\ UNCHANGED <<options, pending, nParked, flag, timed, result, pc>>

\* pthread_cond_signal after the mutex has been released.
LateSignal(u) ==
  /\ upc[u] = "signal"
  /\ Signal
  /\ UGoto(u, "idle")
  /\ UNCHANGED <<options, word, pending, mutex, nParked, flag, timed, result, pc, seen>>

----------------------------------------------------------------------------
ParkerStep ==
  \/ Test \/ Wakeup
  \/ EventPark \/ EventLock \/ EventLoop \/ EventDecide \/ EventStore
  \/ ParkerFast \/ ParkerClear \/ ParkerEnter \/ ParkerTry \/ ParkerLocked \/ ParkerWoken

UnparkerStep(u) ==
  EventUnpark(u) \/ EventAnyWaiters(u) \/ ParkerRead(u) \/ ParkerWrite(u) \/ LateSignal(u)

Next ==
  \/ ParkerStep \/ SpuriousWakeup \/ Timeout \/ Drain
  \/ \E u \in Unparkers : Publish(u) \/ UnparkerStep(u)

\* Running threads run, and stores reach memory; nothing ends a wait without a reason.
Fairness ==
  /\ WF_vars(ParkerStep) /\ WF_vars(Drain)
  /\ \A u \in Unparkers : WF_vars(UnparkerStep(u))

Spec == Init /\ [][Next]_vars /\ Fairness

----------------------------------------------------------------------------
\* The types of the variables; _Event and _nParked stay within what the guarantees of
\* park() demand, with any number of unparkers.
TypeOK ==
  /\ kind \in {"PlatformEvent", "Parker"} /\ workaround \in BOOLEAN
  /\ word \in -1..1 /\ pending \in BOOLEAN
  /\ pc = "test" \/ kind = "Parker" => word >= 0
  /\ mutex \in Unparkers \cup {"parker", NULL}
  /\ waiting \in BOOLEAN /\ signalled \in BOOLEAN /\ nParked \in 0..1
  /\ flag \in BOOLEAN /\ timed \in BOOLEAN /\ result \in {"OS_OK", "OS_TIMEOUT"}
  /\ upc \in [Unparkers -> {"idle", "unpark", "ulock", "write", "signal"}]
  /\ seen \in [Unparkers -> 0..1]

\* Whether the thread's permit is set: while PlatformEvent::park waits, _Event counts from -1.
Blocking == kind = "PlatformEvent" /\ pc \in {"lock", "loop", "wait", "decide", "store"}
Permit == IF Blocking THEN word >= 0 ELSE word > 0

\* A thread that waits on the condition variable although its permit is set has a signal,
\* or an unpark() that is about to give one.
NoStrandedWaiter ==
  pc = "wait" /\ Permit /\ ~signalled =>
    \E u \in Unparkers : upc[u] \in {"ulock", "write", "signal"}

\* PlatformEvent: the permit is taken by a park() that returns and by nothing else, and
\* OS_OK is not returned without it.
ReturnTakesPermit ==
  [][(kind = "PlatformEvent") =>
       /\ Permit /\ ~Permit' => pc' = "test" /\ pc # "test"
       /\ pc # "test" /\ pc' = "test" => ~Permit' /\ (result' = "OS_OK" => Permit)]_vars

\* No PlatformEvent::unpark() is lost: the condition that was published is seen, however
\* parks, unparks, timeouts and late signals follow each other.
EventConditionSeen == (kind = "PlatformEvent" /\ flag) ~> ~flag

\* What the comment over Parker promises, "Park decrements count if > 0, else does a condvar
\* wait.  Unpark sets count to 1 and signals condvar", used in the same way.
ParkerConditionSeen == (kind = "Parker" /\ flag) ~> ~flag

============================================================================
