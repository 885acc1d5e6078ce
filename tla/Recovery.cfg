SPECIFICATION FairSpec
CONSTANTS
  Threads = {t1, t2}
  MAX_TRANSEDEN = 2
  TransIDs = {x1, x2, x3}
  NoTrans = NoTrans
  NoThread = NoThread
  UseParkUnpark = FALSE
  ThreadRunAsTransaction = FALSE
  Pretenure = FALSE
  AVOID_COLLECT_TRAINED = FALSE
  ExamineResiduals = FALSE
  DebugTypeGenGC = FALSE
  Env = {}
INVARIANTS
  AssignedHasOneOwner
  PoolAccounting
  CollectableAccounting
  CollectionHasWork
PROPERTIES
  PoolRecovers
