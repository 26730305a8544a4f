SPECIFICATION FairSpec
CONSTANTS
  NoThread = NoThread
  Threads = {t1, t2, t3}
  Mortal = {}
  Data <- MCData
  Conditions <- MCOneCondition
  Calls = {"lock_until", "try_lock", "lock_when", "lock_when_until",
           "await_until", "unlock"}
VIEW MCView
PROPERTIES
  ConditionMet
  TimedCallsReturn
  RegionSpec
