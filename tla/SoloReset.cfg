SPECIFICATION Spec
CONSTANTS
  Threads = {t1}
  MAX_TRANSEDEN = 2
  TransIDs = {x1, x2, x3}
  NoTrans = NoTrans
  NoThread = NoThread
  UseParkUnpark = TRUE
  ThreadRunAsTransaction = TRUE
  Pretenure = TRUE
  AVOID_COLLECT_TRAINED = TRUE
  ExamineResiduals = TRUE
  DebugTypeGenGC = FALSE
  Env = {"gc"}
SYMMETRY Symmetry
INVARIANTS
  PoolAccounting
  CollectableAccounting
