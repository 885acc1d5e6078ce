-------------------------- MODULE AbstractMonitor --------------------------
(***************************************************************************)
(* What a native monitor promises its callers (share/vm/runtime/mutex.hpp): *)
(* one holder at a time; a thread in wait() cannot hold the lock again      *)
(* before the holder has notified it or its timeout has removed it; only    *)
(* the holder notifies, and one notify() releases one waiter.               *)
(***************************************************************************)
CONSTANTS Threads, NULL

VARIABLES
  holder,    \* the thread that physically holds the lock, or NULL
  waiting    \* the threads in wait() that nobody has notified

Init == holder = NULL /\ waiting = {}

Acquire(t) == holder = NULL /\ t \notin waiting /\ holder' = t /\ UNCHANGED waiting

Release(t) == holder = t /\ holder' = NULL /\ UNCHANGED waiting

\* The holder joins the wait set, on its way to releasing the lock.
Join(t) == holder = t /\ t \notin waiting /\ waiting' = waiting \cup {t} /\ UNCHANGED holder

Notify(t, u) == holder = t /\ u \in waiting \ {t} /\ waiting' = waiting \ {u} /\ UNCHANGED holder

TimeOut(u) == u \in waiting /\ holder # u /\ waiting' = waiting \ {u} /\ UNCHANGED holder

Next ==
  \/ \E t \in Threads : Acquire(t) \/ Release(t) \/ Join(t) \/ TimeOut(t)
  \/ \E t, u \in Threads : Notify(t, u)

Spec == Init /\ [][Next]_<<holder, waiting>>

============================================================================
