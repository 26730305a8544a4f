SPECIFICATION MCSpec
\* the clock stops at its bound
CHECK_DEADLOCK FALSE
CONSTANTS
  I64_MAX = 31
  U32_MAX = 10
  TIME_MAX = 7
  TICKS_PER_NANOSECOND = 2
  NANOSECONDS_PER_SECOND = 4
  MICROSECONDS_PER_SECOND = 2
  MILLISECONDS_PER_SECOND = 1
  SECONDS_PER_MINUTE = 3
  SECONDS_PER_HOUR = 6
  Timeouts <- SomeTimeouts
  MaxClock = 12
  DWORD_MAX = 3
INVARIANTS
  TypeOK
  Exact
  OrderAgrees
  TimespecValid
  UnitsAgree
PROPERTY
  WaitsOutItsTime
