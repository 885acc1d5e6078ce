SPECIFICATION Spec
CONSTANTS
  Threads = {t1, t2}
  MAX_TRANSEDEN = 2
  TransIDs = {x1, x2, x3}
  NoTrans = NoTrans
  NoThread = NoThread
  UseParkUnpark = TRUE
  ThreadRunAsTransaction = TRUE
  Pretenure = FALSE
  AVOID_COLLECT_TRAINED = TRUE
  ExamineResiduals = TRUE
  DebugTypeGenGC = TRUE
  Env = {"gc", "promotion_failure", "unsafe", "gc_locker"}
SYMMETRY Symmetry
INVARIANTS
  IInv
  Isolation
  TlabInOwnEden
  AllocateFindsEden
PROPERTIES
  OnlyOwnerPublishes
  ImplementsPool
  OnlyEndedEdensAreFreed
