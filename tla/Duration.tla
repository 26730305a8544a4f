------------------------------ MODULE Duration ------------------------------
(***************************************************************************)
(* rbc_duration (rbc/time/duration.c): seconds and ticks, with 0 <= ticks  *)
(* < RBC_TICKS_PER_SECOND also when the seconds are negative, and two      *)
(* infinities that carry RBC_INF_TICKS.  The widths of the integers and    *)
(* the numbers of units are constants, so that small instances can be      *)
(* checked for all values.                                                 *)
(*                                                                         *)
(* The code adds and subtracts in i64 before it looks whether the result   *)
(* fits.  That is undefined where it does not; what compilers make of it   *)
(* is arithmetic modulo the width, and that is what i64 below stands for.  *)
(***************************************************************************)
EXTENDS Integers

CONSTANTS
  I64_MAX,                   \* 2^63 - 1
  U32_MAX,                   \* 2^32 - 1
  TIME_MAX,                  \* the greatest time_t, 2^63 - 1 or 2^31 - 1
  TICKS_PER_NANOSECOND,      \* 4
  NANOSECONDS_PER_SECOND,    \* 10^9
  MICROSECONDS_PER_SECOND,   \* 10^6
  MILLISECONDS_PER_SECOND,   \* 10^3
  SECONDS_PER_MINUTE,        \* 60
  SECONDS_PER_HOUR           \* 3600

TICKS_PER_SECOND == TICKS_PER_NANOSECOND * NANOSECONDS_PER_SECOND

ASSUME WidthAssumption ==
  /\ {I64_MAX, U32_MAX, TIME_MAX} \subseteq Nat /\ I64_MAX > 0
  /\ TIME_MAX <= I64_MAX
  \* ticks that are too many by less than a nanosecond still fit, and are
  \* not RBC_INF_TICKS
  /\ TICKS_PER_SECOND + TICKS_PER_NANOSECOND <= U32_MAX
  \* the product in from_i64 fits
  /\ (NANOSECONDS_PER_SECOND - 1) * TICKS_PER_SECOND <= I64_MAX

ASSUME UnitAssumption ==
  /\ {TICKS_PER_NANOSECOND, NANOSECONDS_PER_SECOND, MICROSECONDS_PER_SECOND,
      MILLISECONDS_PER_SECOND, SECONDS_PER_MINUTE, SECONDS_PER_HOUR}
       \subseteq Nat \ {0}
  /\ \A units \in {MICROSECONDS_PER_SECOND, MILLISECONDS_PER_SECOND} :
       NANOSECONDS_PER_SECOND % units = 0

I64_MIN == -I64_MAX - 1
I64 == I64_MIN .. I64_MAX

TIME_MIN == -TIME_MAX - 1
Time == TIME_MIN .. TIME_MAX

i64(n) == ((n - I64_MIN) % (2 * (I64_MAX + 1))) + I64_MIN
u32(n) == n % (U32_MAX + 1)
time_t(n) == ((n - TIME_MIN) % (2 * (TIME_MAX + 1))) + TIME_MIN

\* Division and remainder of C, for a positive divisor.
Quotient(a, b) == IF a < 0 THEN -((-a) \div b) ELSE a \div b
Remainder(a, b) == a - b * Quotient(a, b)

(***************************************************************************)
(* Durations                                                               *)
(***************************************************************************)
INF_TICKS == U32_MAX

make_duration(secs, ticks) == [secs |-> secs, ticks |-> u32(ticks)]

DURATION_INF == [secs |-> I64_MAX, ticks |-> INF_TICKS]
DURATION_NEG_INF == [secs |-> I64_MIN, ticks |-> INF_TICKS]

FiniteDurations == [secs : I64, ticks : 0 .. TICKS_PER_SECOND - 1]
Durations == FiniteDurations \union {DURATION_INF, DURATION_NEG_INF}

make_normalized_duration(secs, ticks) ==
  IF ticks < 0 THEN make_duration(secs - 1, ticks + TICKS_PER_SECOND)
  ELSE make_duration(secs, ticks)

from_i64(value, ratio) ==
  make_normalized_duration(
    Quotient(value, ratio),
    Quotient(Remainder(value, ratio) * TICKS_PER_SECOND, ratio))

duration_ns(ns) == from_i64(ns, NANOSECONDS_PER_SECOND)
duration_us(us) == from_i64(us, MICROSECONDS_PER_SECOND)
duration_ms(ms) == from_i64(ms, MILLISECONDS_PER_SECOND)
duration_s(s) == from_i64(s, 1)

\* rbc_duration_min and rbc_duration_h.
duration_of(value, seconds) ==
  IF /\ value <= Quotient(I64_MAX, seconds)
     /\ value >= Quotient(I64_MIN, seconds)
  THEN make_duration(value * seconds, 0)
  ELSE IF value > 0 THEN DURATION_INF ELSE DURATION_NEG_INF

duration_min(min) == duration_of(min, SECONDS_PER_MINUTE)
duration_h(h) == duration_of(h, SECONDS_PER_HOUR)

duration_is_inf(d) == d.ticks = INF_TICKS
duration_is_neg(d) == d.secs < 0

(***************************************************************************)
(* Order.  The increments wrap RBC_INF_TICKS to 0, below every tick.       *)
(***************************************************************************)

\* Seeded defect: minus infinity is not below the least finite durations.
duration_lt_plain(lhs, rhs) ==
  IF lhs.secs # rhs.secs THEN lhs.secs < rhs.secs ELSE lhs.ticks < rhs.ticks

duration_lt(lhs, rhs) ==
  IF lhs.secs # rhs.secs THEN lhs.secs < rhs.secs
  ELSE IF lhs.secs = I64_MIN THEN u32(lhs.ticks + 1) < u32(rhs.ticks + 1)
  ELSE lhs.ticks < rhs.ticks

duration_gt(lhs, rhs) == duration_lt(rhs, lhs)
duration_le(lhs, rhs) == ~duration_lt(rhs, lhs)
duration_ge(lhs, rhs) == ~duration_lt(lhs, rhs)
duration_eq(lhs, rhs) == lhs.secs = rhs.secs /\ lhs.ticks = rhs.ticks
duration_ne(lhs, rhs) == ~duration_eq(lhs, rhs)

(***************************************************************************)
(* Arithmetic.  An infinity on the left wins over anything on the right.   *)
(***************************************************************************)
\* Seeded defect: whole seconds are complemented like all others.
duration_neg_uniform(d) ==
  IF duration_is_inf(d)
  THEN IF d.secs < 0 THEN DURATION_INF ELSE DURATION_NEG_INF
  ELSE [secs |-> -d.secs - 1, ticks |-> u32(TICKS_PER_SECOND - d.ticks)]

duration_neg(d) ==
  IF d.ticks = 0
  THEN IF d.secs = I64_MIN THEN DURATION_INF ELSE [secs |-> -d.secs, ticks |-> 0]
  ELSE IF duration_is_inf(d)
  THEN IF d.secs < 0 THEN DURATION_INF ELSE DURATION_NEG_INF
  ELSE [secs |-> -d.secs - 1, ticks |-> u32(TICKS_PER_SECOND - d.ticks)]

AddSecs(lhs, rhs) ==
  IF lhs.ticks >= TICKS_PER_SECOND - rhs.ticks
  THEN i64(i64(lhs.secs + rhs.secs) + 1) ELSE i64(lhs.secs + rhs.secs)

AddTicks(lhs, rhs) ==
  IF lhs.ticks >= TICKS_PER_SECOND - rhs.ticks
  THEN u32(u32(lhs.ticks - TICKS_PER_SECOND) + rhs.ticks)
  ELSE u32(lhs.ticks + rhs.ticks)

AddOverflows(lhs, rhs) ==
  IF rhs.secs < 0 THEN AddSecs(lhs, rhs) > lhs.secs ELSE AddSecs(lhs, rhs) < lhs.secs

duration_add(lhs, rhs) ==
  IF duration_is_inf(lhs) THEN lhs
  ELSE IF duration_is_inf(rhs) THEN rhs
  ELSE IF AddOverflows(lhs, rhs)
  THEN IF rhs.secs < 0 THEN DURATION_NEG_INF ELSE DURATION_INF
  ELSE [secs |-> AddSecs(lhs, rhs), ticks |-> AddTicks(lhs, rhs)]

SubSecs(lhs, rhs) ==
  IF lhs.ticks < rhs.ticks
  THEN i64(i64(lhs.secs - rhs.secs) - 1) ELSE i64(lhs.secs - rhs.secs)

SubTicks(lhs, rhs) ==
  IF lhs.ticks < rhs.ticks
  THEN u32(u32(lhs.ticks + TICKS_PER_SECOND) - rhs.ticks)
  ELSE u32(lhs.ticks - rhs.ticks)

\* Seeded defect: the borrow is overlooked, as if secs <= lhs.secs were the
\* sign of an overflow.
SubOverflowsOnBorrow(lhs, rhs) ==
  IF rhs.secs < 0 THEN SubSecs(lhs, rhs) <= lhs.secs ELSE SubSecs(lhs, rhs) > lhs.secs

SubOverflows(lhs, rhs) ==
  IF rhs.secs < 0 THEN SubSecs(lhs, rhs) < lhs.secs ELSE SubSecs(lhs, rhs) > lhs.secs

duration_sub(lhs, rhs) ==
  IF duration_is_inf(lhs) THEN lhs
  ELSE IF duration_is_inf(rhs)
  THEN IF rhs.secs > 0 THEN DURATION_NEG_INF ELSE DURATION_INF
  ELSE IF SubOverflows(lhs, rhs)
  THEN IF rhs.secs >= 0 THEN DURATION_NEG_INF ELSE DURATION_INF
  ELSE [secs |-> SubSecs(lhs, rhs), ticks |-> SubTicks(lhs, rhs)]

(***************************************************************************)
(* Conversions                                                             *)
(***************************************************************************)
Timespec(sec, nsec) == [tv_sec |-> sec, tv_nsec |-> nsec]

\* rbc_duration_to_timespec. The ticks of a negative duration are raised, so
\* that dropping the rest of a nanosecond truncates towards zero.
ToTimespecTicks(d) ==
  d.ticks + (IF d.secs < 0 THEN TICKS_PER_NANOSECOND - 1 ELSE 0)

\* Seeded defect: raised ticks that fill a second are not carried.
duration_to_timespec_no_carry(d) ==
  IF duration_is_inf(d) \/ time_t(d.secs) # d.secs
  THEN IF duration_is_neg(d) THEN Timespec(TIME_MIN, 0)
       ELSE Timespec(TIME_MAX, NANOSECONDS_PER_SECOND - 1)
  ELSE Timespec(d.secs, ToTimespecTicks(d) \div TICKS_PER_NANOSECOND)

duration_to_timespec(d) ==
  LET carry == d.secs < 0 /\ ToTimespecTicks(d) >= TICKS_PER_SECOND
      secs  == IF carry THEN d.secs + 1 ELSE d.secs
      ticks == IF carry THEN ToTimespecTicks(d) - TICKS_PER_SECOND ELSE ToTimespecTicks(d)
  IN  IF duration_is_inf(d) \/ time_t(secs) # secs
      THEN IF duration_is_neg(d) THEN Timespec(TIME_MIN, 0)
           ELSE Timespec(TIME_MAX, NANOSECONDS_PER_SECOND - 1)
      ELSE Timespec(secs, ticks \div TICKS_PER_NANOSECOND)

duration_from_timespec(ts) ==
  IF ts.tv_nsec < NANOSECONDS_PER_SECOND
  THEN make_duration(ts.tv_sec, ts.tv_nsec * TICKS_PER_NANOSECOND)
  ELSE duration_add(duration_s(ts.tv_sec), duration_ns(ts.tv_nsec))

\* rbc_duration_to_ns, _us and _ms.
ToUnits(d, units) ==
  IF duration_is_inf(d) THEN d.secs
  ELSE i64(d.secs * units
           + d.ticks \div (TICKS_PER_NANOSECOND * (NANOSECONDS_PER_SECOND \div units)))

duration_to_ns(d) == ToUnits(d, NANOSECONDS_PER_SECOND)
duration_to_us(d) == ToUnits(d, MICROSECONDS_PER_SECOND)
duration_to_ms(d) == ToUnits(d, MILLISECONDS_PER_SECOND)

\* Seeded defect: the seconds as they are stored, which rounds down.
duration_to_s_floor(d) == d.secs

duration_to_s(d) ==
  IF duration_is_inf(d) THEN d.secs
  ELSE d.secs + (IF d.secs < 0 /\ d.ticks # 0 THEN 1 ELSE 0)

\* rbc_duration_to_min and _h.
ToMultiple(d, seconds) ==
  IF duration_is_inf(d) THEN d.secs ELSE Quotient(duration_to_s(d), seconds)

duration_to_min(d) == ToMultiple(d, SECONDS_PER_MINUTE)
duration_to_h(d) == ToMultiple(d, SECONDS_PER_HOUR)

=============================================================================
