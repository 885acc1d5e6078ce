SPECIFICATION Spec
CONSTANTS
  JavaThreads = {j1, j2}
  VMThread = vm
  Waiters = {j1, j2}
  Contenders = {j1, j2}
  NULL = NULL
  LBIT = LBIT
INVARIANTS MutualExclusion LockByteHeldByOne OnOneList QueuedAreParked
PROPERTIES OnDeckStable ImplementsMonitor Progress
