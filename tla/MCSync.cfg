SPECIFICATION SyncSpec
\* every thread may have exited, or wait for another that waits
CHECK_DEADLOCK FALSE
CONSTANTS
  Threads = {t1, t2}
  Nobody = Nobody
  MaxNesting = 3
  Users = {t1, t2}
  Count = 2
  SEM_VALUE_MAX = 3
  Callers = {t1, t2, t3}
  Recursive = FALSE
  Askers = {t1, t2, t3}
  Handlers = {h1, Null}
  NoHandler = Null
  Unanswered = Unanswered
  Unlocked = Unlocked
INVARIANTS
  NoLeak
  OnlyInitialisedDestroyed
  DestroyIsIdempotent
  GuardsHold
  UnitsAccounted
PROPERTIES
  WriterGetsIn
  IsAtomicCell
