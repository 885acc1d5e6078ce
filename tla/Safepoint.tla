----------------------------- MODULE Safepoint -----------------------------
(***************************************************************************)
(* Safepoints: SafepointSynchronize::begin, block and end (safepoint.cpp)  *)
(* against the thread state transitions of interfaceSupport.hpp and the    *)
(* starting and exiting of threads under the Threads_lock (thread.cpp).    *)
(* A thread publishes its state, then reads _state; the VM thread          *)
(* publishes _state, then reads the thread states.  Both sides put a fence *)
(* (or the serialize page) between the two, so each is a step.  What is    *)
(* done under the Safepoint_lock without waiting is one step: nothing of   *)
(* it but _state is read without that lock.                                *)
(***************************************************************************)
EXTENDS Naturals, FiniteSets

CONSTANTS
  JavaThreads,   \* every JavaThread that may ever be started
  MainThreads,   \* those on the list from the start
  VMThread,      \* the thread that runs begin() and end()
  NULL           \* no thread

ASSUME ThreadsAssumption ==
  /\ IsFiniteSet(JavaThreads)
  /\ MainThreads \subseteq JavaThreads
  /\ VMThread \notin JavaThreads
  /\ NULL \notin JavaThreads \cup {VMThread}

VARIABLES
  _state,             \* SafepointSynchronize::_state
  _waiting_to_block,  \* the threads begin() still waits for
  polling,            \* the interpreter and the polling page stop Java code
  Threads_lock,       \* its owner, or NULL
  Safepoint_lock,     \* the VM thread, while it holds it over several steps, or NULL
  notified,           \* notify_all() on the Safepoint_lock reached the VM thread
  list,               \* Threads::_thread_list
  thread_state,       \* JavaThread::_thread_state
  type,               \* ThreadSafepointState::_type
  called_back,        \* ThreadSafepointState::_has_called_back
  dest,               \* where the transition in progress leads
  saved,              \* the state block() restores
  pc,                 \* control state of each Java thread
  vpc                 \* control state of the VM thread

syncvars == <<_state, _waiting_to_block, polling, notified, vpc>>
typevars == <<type, called_back>>
transvars == <<dest, saved>>
locks == <<Threads_lock, Safepoint_lock>>
vars == <<syncvars, typevars, transvars, locks, list, thread_state, pc>>

\* The states of JavaThreadState and the transition state each one leads to.
TransOf(s) ==
  CASE s = "vm" -> "vm_trans"
    [] s = "native" -> "native_trans"
    [] s = "blocked" -> "blocked_trans"
    [] s = "new" -> "new_trans"
TransStates == {"vm_trans", "native_trans", "blocked_trans", "new_trans"}
ThreadStates == {"new", "vm", "java", "native", "blocked"} \cup TransStates
PCs == {"none", "run", "trans", "poll", "block", "callback", "stopped", "arrive",
        "acquire", "own", "gone"}
VMPCs == {"idle", "begin", "arm", "examine", "block", "waiting", "operate", "end", "restart"}

Goto(t, l) == pc' = [pc EXCEPT ![t] = l]
SetState(t, s) == thread_state' = [thread_state EXCEPT ![t] = s]

Init ==
  /\ _state = "not_synchronized"
  /\ _waiting_to_block = 0
  /\ polling = FALSE /\ notified = FALSE
  /\ Threads_lock = NULL /\ Safepoint_lock = NULL
  /\ list = MainThreads
  /\ thread_state = [t \in JavaThreads |-> IF t \in MainThreads THEN "vm" ELSE "new"]
  /\ type = [t \in JavaThreads |-> "running"]
  /\ called_back = [t \in JavaThreads |-> FALSE]
  /\ dest = [t \in JavaThreads |-> "vm"]
  /\ saved = [t \in JavaThreads |-> "vm"]
  /\ pc = [t \in JavaThreads |-> IF t \in MainThreads THEN "run" ELSE "none"]
  /\ vpc = "idle"

do_call_back == _state # "not_synchronized"
is_synchronizing == _state = "synchronizing"

----------------------------------------------------------------------------
(* Thread state transitions *)

\* transition_from_java: the VM is entered without a look at _state.
EnterVM(t) ==
  /\ pc[t] = "run" /\ thread_state[t] = "java"
  /\ SetState(t, "vm")
  /\ UNCHANGED <<syncvars, typevars, transvars, locks, list, pc>>

\* transition, transition_and_fence, transition_from_native: the first store.
Transition(t, from, to) ==
  /\ thread_state[t] = from
  /\ SetState(t, TransOf(from))
  /\ dest' = [dest EXCEPT ![t] = to]
  /\ Goto(t, "trans")

\* ~ThreadInVMfromJava, ~ThreadInVMfromNative, ThreadBlockInVM, and a new thread.
LeaveVM(t) ==
  /\ pc[t] = "run"
  /\ \/ \E to \in {"java", "native", "blocked"} : Transition(t, "vm", to)
     \/ Transition(t, "new", "vm")
  /\ UNCHANGED <<syncvars, typevars, saved, locks, list>>

\* ThreadInVMfromNative, the return of a native method to Java, ~ThreadBlockInVM.
Return(t) ==
  /\ pc[t] = "run"
  /\ \/ \E to \in {"vm", "java"} : Transition(t, "native", to)
     \/ Transition(t, "blocked", "vm")
  /\ UNCHANGED <<syncvars, typevars, saved, locks, list>>

\* Mutant of CheckState: the thread spins until the safepoint is over and does not block.
SpinInTransition(t) ==
  /\ pc[t] = "trans"
  /\ Goto(t, IF do_call_back THEN "trans" ELSE "arrive")
  /\ UNCHANGED <<syncvars, typevars, transvars, locks, list, thread_state>>

\* The read of _state between the two stores of a transition.
CheckState(t) ==
  /\ pc[t] = "trans"
  /\ Goto(t, IF do_call_back THEN "block" ELSE "arrive")
  /\ UNCHANGED <<syncvars, typevars, transvars, locks, list, thread_state>>

\* The second store.  Monitor::lock goes on with the Threads_lock inside ThreadBlockInVM.
Arrive(t) ==
  /\ pc[t] = "arrive"
  /\ IF dest[t] = "lock"
       THEN SetState(t, "blocked") /\ Goto(t, "acquire")
       ELSE SetState(t, dest[t]) /\ Goto(t, IF Threads_lock = t THEN "own" ELSE "run")
  /\ dest' = [dest EXCEPT ![t] = "vm"]
  /\ UNCHANGED <<syncvars, typevars, saved, locks, list>>

\* Java code meets a poll that is armed.
Poll(t) ==
  /\ pc[t] = "run" /\ thread_state[t] = "java"
  /\ polling
  /\ Goto(t, "poll")
  /\ UNCHANGED <<syncvars, typevars, transvars, locks, list, thread_state>>

\* handle_polling_page_exception calls block().
PollException(t) ==
  /\ pc[t] = "poll"
  /\ Goto(t, "block")
  /\ UNCHANGED <<syncvars, typevars, transvars, locks, list, thread_state>>

----------------------------------------------------------------------------
(* SafepointSynchronize::block *)

\* Mutant of Block: the thread does not pretend to be in the VM.
BlockEarly(t) ==
  /\ pc[t] = "block"
  /\ saved' = [saved EXCEPT ![t] = thread_state[t]]
  /\ SetState(t, "blocked")
  /\ Goto(t, IF thread_state[t] \in {"vm_trans", "java"} THEN "callback" ELSE "stopped")
  /\ UNCHANGED <<syncvars, typevars, dest, locks, list>>

\* From Java and from the VM the thread pretends to be in the VM until it has the
\* Safepoint_lock; otherwise the state is safe as soon as it is stored.
Block(t) ==
  /\ pc[t] = "block"
  /\ saved' = [saved EXCEPT ![t] = thread_state[t]]
  /\ IF thread_state[t] \in {"vm_trans", "java"}
       THEN SetState(t, "vm") /\ Goto(t, "callback")
       ELSE SetState(t, "blocked") /\ Goto(t, "stopped")
  /\ UNCHANGED <<syncvars, typevars, dest, locks, list>>

\* Under the Safepoint_lock: the thread counts itself, the last one wakes the VM thread.
CallBack(t) ==
  /\ pc[t] = "callback"
  /\ Safepoint_lock = NULL
  /\ IF is_synchronizing
       THEN /\ _waiting_to_block' = _waiting_to_block - 1
            /\ called_back' = [called_back EXCEPT ![t] = TRUE]
            /\ notified' = (notified \/ _waiting_to_block = 1)
       ELSE UNCHANGED <<_waiting_to_block, called_back, notified>>
  /\ SetState(t, "blocked")
  /\ Goto(t, "stopped")
  /\ UNCHANGED <<_state, polling, vpc, type, transvars, locks, list>>

\* The Threads_lock is free, that is, no safepoint is in progress: the thread passes it.
Resume(t) ==
  /\ pc[t] = "stopped"
  /\ Threads_lock = NULL
  /\ SetState(t, saved[t])
  /\ Goto(t, IF saved[t] = "java" THEN "run" ELSE "arrive")
  /\ saved' = [saved EXCEPT ![t] = "vm"]
  /\ UNCHANGED <<syncvars, typevars, dest, locks, list>>

----------------------------------------------------------------------------
(* Threads::add and Threads::remove, under a MutexLocker of the Threads_lock *)

\* Monitor::lock: at once, or inside ThreadBlockInVM when the lock is held.
LockThreads(t) ==
  /\ pc[t] = "run" /\ thread_state[t] = "vm"
  /\ \/ /\ Threads_lock = NULL
        /\ Threads_lock' = t
        /\ Goto(t, "own")
        /\ UNCHANGED <<dest, thread_state>>
     \/ Threads_lock # NULL /\ Transition(t, "vm", "lock") /\ UNCHANGED Threads_lock
  /\ UNCHANGED <<syncvars, typevars, saved, Safepoint_lock, list>>

\* ILock has the lock; ThreadBlockInVM is left with it.
Acquire(t) ==
  /\ pc[t] = "acquire"
  /\ Threads_lock = NULL
  /\ Threads_lock' = t
  /\ Transition(t, "blocked", "vm")
  /\ UNCHANGED <<syncvars, typevars, saved, Safepoint_lock, list>>

\* JVM_StartThread: prepare() adds the new thread, in state _thread_new, unless it has been
\* started before or has no OS thread.
AddThread(t) ==
  /\ pc[t] = "own"
  /\ Threads_lock' = NULL
  /\ \/ \E u \in JavaThreads :
          /\ pc[u] = "none"
          /\ list' = list \cup {u}
          /\ pc' = [pc EXCEPT ![t] = "run", ![u] = "run"]
     \/ Goto(t, "run") /\ UNCHANGED list
  /\ UNCHANGED <<syncvars, typevars, transvars, Safepoint_lock, thread_state>>

\* JavaThread::exit ends with Threads::remove.
RemoveThread(t) ==
  /\ pc[t] = "own"
  /\ Threads_lock' = NULL
  /\ list' = list \ {t}
  /\ Goto(t, "gone")
  /\ UNCHANGED <<syncvars, typevars, transvars, Safepoint_lock, thread_state>>

----------------------------------------------------------------------------
(* SafepointSynchronize::begin *)

Begin ==
  /\ vpc = "idle"
  /\ Threads_lock = NULL
  /\ Threads_lock' = VMThread
  /\ vpc' = "begin"
  /\ UNCHANGED <<_state, _waiting_to_block, polling, notified, typevars, transvars,
                 Safepoint_lock, list, thread_state, pc>>

\* MutexLocker mu(Safepoint_lock), held up to the wait below.
Synchronize ==
  /\ vpc = "begin"
  /\ Safepoint_lock = NULL
  /\ Safepoint_lock' = VMThread
  /\ _waiting_to_block' = Cardinality(list)
  /\ _state' = "synchronizing"
  /\ vpc' = "arm"
  /\ UNCHANGED <<polling, notified, typevars, transvars, Threads_lock, list, thread_state, pc>>

\* Mutant of ArmPolls: Java code is not made to poll.
ArmNothing ==
  /\ vpc = "arm"
  /\ vpc' = "examine"
  /\ UNCHANGED <<_state, _waiting_to_block, polling, notified, typevars, transvars, locks, list,
                 thread_state, pc>>

\* notice_safepoints and make_polling_page_unreadable.
ArmPolls ==
  /\ vpc = "arm"
  /\ polling' = TRUE
  /\ vpc' = "examine"
  /\ UNCHANGED <<_state, _waiting_to_block, notified, typevars, transvars, locks, list,
                 thread_state, pc>>

\* Mutant of safepoint_safe: a thread on its way back counts as safe.
SafeInTransition(s) == s \in {"native", "blocked", "native_trans", "blocked_trans"}

safepoint_safe(s) == s \in {"native", "blocked"}

\* Mutant of Examine: a thread in transition is expected to call back, too.
ExamineInTransition(t) ==
  /\ vpc = "examine"
  /\ t \in list /\ type[t] = "running"
  /\ \/ /\ safepoint_safe(thread_state[t])
        /\ type' = [type EXCEPT ![t] = "at_safepoint"]
        /\ _waiting_to_block' = _waiting_to_block - 1
        /\ UNCHANGED called_back
     \/ /\ ~safepoint_safe(thread_state[t])
        /\ type' = [type EXCEPT ![t] = "call_back"]
        /\ called_back' = [called_back EXCEPT ![t] = FALSE]
        /\ UNCHANGED _waiting_to_block
  /\ UNCHANGED <<_state, polling, notified, vpc, transvars, locks, list, thread_state, pc>>

\* examine_state_of_thread and roll_forward, of one thread of the list that still runs.
Examine(t) ==
  /\ vpc = "examine"
  /\ t \in list /\ type[t] = "running"
  /\ \/ /\ safepoint_safe(thread_state[t])
        /\ type' = [type EXCEPT ![t] = "at_safepoint"]
        /\ _waiting_to_block' = _waiting_to_block - 1
        /\ UNCHANGED called_back
     \/ /\ thread_state[t] = "vm"
        /\ type' = [type EXCEPT ![t] = "call_back"]
        /\ called_back' = [called_back EXCEPT ![t] = FALSE]
        /\ UNCHANGED _waiting_to_block
  /\ UNCHANGED <<_state, polling, notified, vpc, transvars, locks, list, thread_state, pc>>

StillRunning == {t \in list : type[t] = "running"}

AllExamined ==
  /\ vpc = "examine"
  /\ StillRunning = {}
  /\ vpc' = "block"
  /\ UNCHANGED <<_state, _waiting_to_block, polling, notified, typevars, transvars, locks, list,
                 thread_state, pc>>

\* Safepoint_lock->wait(true) gives the lock to the threads that call back.
WaitToBlock ==
  /\ vpc = "block"
  /\ _waiting_to_block > 0
  /\ Safepoint_lock' = NULL
  /\ notified' = FALSE
  /\ vpc' = "waiting"
  /\ UNCHANGED <<_state, _waiting_to_block, polling, typevars, transvars, Threads_lock, list,
                 thread_state, pc>>

WakeUp ==
  /\ vpc = "waiting"
  /\ notified
  /\ Safepoint_lock = NULL
  /\ Safepoint_lock' = VMThread
  /\ notified' = FALSE
  /\ vpc' = "block"
  /\ UNCHANGED <<_state, _waiting_to_block, polling, typevars, transvars, Threads_lock, list,
                 thread_state, pc>>

Synchronized ==
  /\ vpc = "block"
  /\ _waiting_to_block = 0
  /\ _state' = "synchronized"
  /\ Safepoint_lock' = NULL
  /\ vpc' = "operate"
  /\ UNCHANGED <<_waiting_to_block, polling, notified, typevars, transvars, Threads_lock, list,
                 thread_state, pc>>

----------------------------------------------------------------------------
(* SafepointSynchronize::end, after the operation *)

\* Mutant of DisarmPolls: the polling page stays unreadable.
DisarmNothing ==
  /\ vpc = "operate"
  /\ vpc' = "end"
  /\ UNCHANGED <<_state, _waiting_to_block, polling, notified, typevars, transvars, locks, list,
                 thread_state, pc>>

DisarmPolls ==
  /\ vpc = "operate"
  /\ polling' = FALSE
  /\ vpc' = "end"
  /\ UNCHANGED <<_state, _waiting_to_block, notified, typevars, transvars, locks, list,
                 thread_state, pc>>

Desynchronize ==
  /\ vpc = "end"
  /\ Safepoint_lock = NULL
  /\ Safepoint_lock' = VMThread
  /\ _state' = "not_synchronized"
  /\ vpc' = "restart"
  /\ UNCHANGED <<_waiting_to_block, polling, notified, typevars, transvars, Threads_lock, list,
                 thread_state, pc>>

\* restart() of every thread, then both locks are released.
Restart ==
  /\ vpc = "restart"
  /\ type' = [t \in JavaThreads |-> IF t \in list THEN "running" ELSE type[t]]
  /\ called_back' = [t \in JavaThreads |-> IF t \in list THEN FALSE ELSE called_back[t]]
  /\ Threads_lock' = NULL
  /\ Safepoint_lock' = NULL
  /\ vpc' = "idle"
  /\ UNCHANGED <<_state, _waiting_to_block, polling, notified, transvars, list, thread_state, pc>>

----------------------------------------------------------------------------
\* A thread goes on with what it has begun.
Step(t) ==
  \/ CheckState(t) \/ Arrive(t) \/ PollException(t) \/ Block(t) \/ CallBack(t)
  \/ Resume(t) \/ Acquire(t) \/ AddThread(t) \/ RemoveThread(t)

ThreadNext(t) ==
  Step(t) \/ EnterVM(t) \/ LeaveVM(t) \/ Return(t) \/ Poll(t) \/ LockThreads(t)

\* begin() runs to its end, and so do the operation and end().
VMStep ==
  \/ Synchronize \/ ArmPolls \/ AllExamined \/ WaitToBlock \/ WakeUp \/ Synchronized
  \/ DisarmPolls \/ Desynchronize \/ Restart

VMNext == Begin \/ VMStep \/ \E t \in JavaThreads : Examine(t)

Next == VMNext \/ \E t \in JavaThreads : ThreadNext(t)

\* Every runnable thread is scheduled; VM code ends in a transition; Java code polls; the
\* loop of begin() comes back to every thread.  Native code and what a blocked thread waits
\* for may take for ever.
Fairness ==
  /\ WF_vars(VMStep)
  /\ \A t \in JavaThreads :
       WF_vars(Step(t)) /\ WF_vars(LeaveVM(t)) /\ WF_vars(Poll(t)) /\ WF_vars(Examine(t))

Spec == Init /\ [][Next]_vars /\ Fairness

----------------------------------------------------------------------------
\* The types of the variables.
TypeOK ==
  /\ _state \in {"not_synchronized", "synchronizing", "synchronized"}
  /\ _waiting_to_block \in 0..Cardinality(JavaThreads)
  /\ polling \in BOOLEAN /\ notified \in BOOLEAN
  /\ Threads_lock \in JavaThreads \cup {VMThread, NULL}
  /\ Safepoint_lock \in {VMThread, NULL}
  /\ list \subseteq JavaThreads
  /\ thread_state \in [JavaThreads -> ThreadStates]
  /\ type \in [JavaThreads -> {"running", "at_safepoint", "call_back"}]
  /\ called_back \in [JavaThreads -> BOOLEAN]
  /\ dest \in [JavaThreads -> {"vm", "java", "native", "blocked", "lock"}]
  /\ saved \in [JavaThreads -> {"vm", "java"} \cup TransStates]
  /\ pc \in [JavaThreads -> PCs]
  /\ vpc \in VMPCs

\* At a safepoint no thread of the list runs Java or VM code or is about to: it is in
\* native code or blocked, or on its way out of that and will read _state first.
Stopped(t) ==
  \/ thread_state[t] \in {"native", "blocked"}
  \/ thread_state[t] \in TransStates /\ pc[t] \in {"trans", "block"}
StoppedAtSafepoint == _state = "synchronized" => \A t \in list : Stopped(t)

\* begin() waits for exactly the threads that are neither safe nor have called back: a
\* thread is never counted twice, over any number of safepoints that follow each other.
Unaccounted ==
  {t \in list : type[t] = "running" \/ (type[t] = "call_back" /\ ~called_back[t])}
WaitsForTheRest ==
  vpc \in {"arm", "examine", "block", "waiting"} => _waiting_to_block = Cardinality(Unaccounted)

\* block(): "Deadlock in safepoint code.  Should have called back to the VM before
\* blocking." is never reached, no thread waits there for a Threads_lock that it holds
\* itself, and end() finds no thread that was not stopped.
NoDeadlockFatal ==
  /\ \A t \in list : pc[t] = "block" /\ thread_state[t] \in TransStates \ {"vm_trans"}
                       => type[t] # "call_back"
  /\ \A t \in JavaThreads : pc[t] \in {"block", "callback", "stopped"} => Threads_lock # t
  /\ vpc = "restart" => StillRunning = {}

\* handle_polling_page_exception: "polling encountered outside safepoint synchronization"
\* does not happen, since Java code runs while polls are armed only during begin().
PollsOnlyWhileSynchronizing == \A t \in JavaThreads : pc[t] = "poll" => is_synchronizing

\* A thread that holds the Threads_lock, and would deadlock on it in block(), finds no
\* safepoint in progress when it leaves the ThreadBlockInVM of Monitor::lock.
OwnerNeverBlocks == Threads_lock \in JavaThreads => ~do_call_back

\* A safepoint that has been asked for is reached, whatever the threads are doing.
SafepointReached == is_synchronizing ~> _state = "synchronized"

\* A thread stopped by a safepoint runs again, unless the VM thread for further safepoints,
\* or other threads, take the Threads_lock again and again (it is handed over
\* competitively).  So whoever holds the lock gives it back: begin(), the operation and
\* end() come to their end, and no owner is stopped.
ThreadsResume ==
  \A t \in JavaThreads :
    \/ (pc[t] = "stopped") ~> (pc[t] # "stopped")
    \/ []<><<Threads_lock = NULL /\ Threads_lock' \notin {NULL, t}>>_vars

============================================================================
