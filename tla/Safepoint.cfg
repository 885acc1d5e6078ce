SPECIFICATION Spec
CONSTANTS
  JavaThreads = {t1, t2}
  MainThreads = {t1}
  VMThread = vm
  NULL = NULL
INVARIANTS StoppedAtSafepoint WaitsForTheRest NoDeadlockFatal PollsOnlyWhileSynchronizing
PROPERTIES SafepointReached ThreadsResume
