SPECIFICATION Spec
CONSTANTS
  NoThread = NoThread
  Threads = {t1, t2}
  Mortal = {t1}
  Data <- MCData
  Conditions <- MCConditions
  Calls = {"lock", "lock_until", "try_lock", "lock_when", "lock_when_until",
           "await", "await_until", "unlock"}
INVARIANTS
  WaitRequiresMutex
