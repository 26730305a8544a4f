------------------------- MODULE DurationArithmetic -------------------------
(***************************************************************************)
(* A client that computes with durations: it makes one from a number of    *)
(* some unit, adds and subtracts others, negates it and sends it through a *)
(* timespec, in any order.  Next to the duration of the code runs the      *)
(* number of ticks it stands for, computed with integers that do not       *)
(* overflow and stop at the two infinities.                                *)
(***************************************************************************)
EXTENDS Duration

VARIABLES
  acc,      \* the duration
  exact     \* the ticks it should stand for

vars == <<acc, exact>>

(***************************************************************************)
(* What a duration stands for.                                             *)
(***************************************************************************)
Lowest == I64_MIN * TICKS_PER_SECOND
Highest == (I64_MAX + 1) * TICKS_PER_SECOND - 1

\* The infinities are the numbers next to the finite ones.
Infinity == Highest + 1
NegInfinity == Lowest - 1
Infinite(n) == n \in {Infinity, NegInfinity}

Ticks(d) == d.secs * TICKS_PER_SECOND + d.ticks

Value(d) ==
  IF d.ticks # INF_TICKS THEN Ticks(d)
  ELSE IF d.secs < 0 THEN NegInfinity ELSE Infinity

Clamp(n) ==
  IF n > Highest THEN Infinity ELSE IF n < Lowest THEN NegInfinity ELSE n

Sum(m, n) ==
  IF Infinite(m) THEN m ELSE IF Infinite(n) THEN n ELSE Clamp(m + n)

Opposite(n) ==
  IF n = Infinity THEN NegInfinity
  ELSE IF n = NegInfinity THEN Infinity ELSE Clamp(-n)

\* The whole nanoseconds of n that a timespec can hold, towards zero.
LowestTimespec == TIME_MIN * TICKS_PER_SECOND
HighestTimespec ==
  TIME_MAX * TICKS_PER_SECOND + (NANOSECONDS_PER_SECOND - 1) * TICKS_PER_NANOSECOND

Truncated(n) == Quotient(n, TICKS_PER_NANOSECOND) * TICKS_PER_NANOSECOND

InTimespec(n) ==
  IF Truncated(n) > HighestTimespec THEN HighestTimespec
  ELSE IF Truncated(n) < LowestTimespec THEN LowestTimespec
  ELSE Truncated(n)

-----------------------------------------------------------------------------
TypeOK == acc \in Durations /\ exact \in NegInfinity .. Infinity

Init == acc = duration_s(0) /\ exact = 0

MakeNanoseconds(n) ==
  /\ acc' = duration_ns(n)
  /\ exact' = n * TICKS_PER_NANOSECOND

MakeMicroseconds(n) ==
  /\ acc' = duration_us(n)
  /\ exact' = n * (TICKS_PER_SECOND \div MICROSECONDS_PER_SECOND)

MakeMilliseconds(n) ==
  /\ acc' = duration_ms(n)
  /\ exact' = n * (TICKS_PER_SECOND \div MILLISECONDS_PER_SECOND)

MakeSeconds(n) ==
  /\ acc' = duration_s(n)
  /\ exact' = n * TICKS_PER_SECOND

MakeMinutes(n) ==
  /\ acc' = duration_min(n)
  /\ exact' = Clamp(n * SECONDS_PER_MINUTE * TICKS_PER_SECOND)

MakeHours(n) ==
  /\ acc' = duration_h(n)
  /\ exact' = Clamp(n * SECONDS_PER_HOUR * TICKS_PER_SECOND)

Add(d) ==
  /\ acc' = duration_add(acc, d)
  /\ exact' = Sum(exact, Value(d))

\* From an infinity an infinity can be subtracted; the left one stays.
Sub(d) ==
  /\ acc' = duration_sub(acc, d)
  /\ exact' = (IF Infinite(Value(d)) THEN Sum(exact, Opposite(Value(d)))
               ELSE IF Infinite(exact) THEN exact ELSE Clamp(exact - Value(d)))

Negate ==
  /\ acc' = duration_neg(acc)
  /\ exact' = Opposite(exact)

\* A duration is handed to a system call and read back from it.
ThroughTimespec ==
  /\ acc' = duration_from_timespec(duration_to_timespec(acc))
  /\ exact' = InTimespec(exact)

Make ==
  \E n \in I64 :
    \/ MakeNanoseconds(n) \/ MakeMicroseconds(n) \/ MakeMilliseconds(n)
    \/ MakeSeconds(n) \/ MakeMinutes(n) \/ MakeHours(n)

Next ==
  \/ Make
  \/ \E d \in Durations : Add(d) \/ Sub(d)
  \/ Negate
  \/ ThroughTimespec

Spec == Init /\ [][Next]_vars

-----------------------------------------------------------------------------
(***************************************************************************)
(* However a duration was computed, it is the one that exact arithmetic    *)
(* leads to: no carry is lost, a sum that does not fit is an infinity of   *)
(* the right sign and never a wrapped number, and a sum that fits is never *)
(* taken for one that does not.                                            *)
(***************************************************************************)
Exact == Value(acc) = exact

\* The order of the durations is the order of what they stand for: total, and
\* minus infinity below the durations that share its seconds.
OrderAgrees ==
  \A d \in Durations :
    /\ duration_lt(acc, d) <=> Value(acc) < Value(d)
    /\ duration_gt(acc, d) <=> Value(acc) > Value(d)
    /\ duration_le(acc, d) <=> Value(acc) <= Value(d)
    /\ duration_ge(acc, d) <=> Value(acc) >= Value(d)
    /\ duration_eq(acc, d) <=> Value(acc) = Value(d)
    /\ duration_ne(acc, d) <=> Value(acc) # Value(d)

\* A finite duration that a timespec can hold becomes the one the system
\* accepts: its nanoseconds are not negative and below a second.
TimespecValid ==
  LET ts == duration_to_timespec(acc) IN
    ts.tv_sec \in Time /\ ts.tv_nsec \in 0 .. NANOSECONDS_PER_SECOND - 1

\* The conversions to a number of units round: down for the small units, and
\* towards zero from the second on.
UnitsAgree ==
  /\ \A units \in {NANOSECONDS_PER_SECOND, MICROSECONDS_PER_SECOND, MILLISECONDS_PER_SECOND} :
       LET n == exact \div (TICKS_PER_SECOND \div units)
       IN  ~Infinite(exact) /\ n \in I64 => ToUnits(acc, units) = n
  /\ ~Infinite(exact) =>
       /\ duration_to_s(acc) = Quotient(exact, TICKS_PER_SECOND)
       /\ duration_to_min(acc) = Quotient(exact, SECONDS_PER_MINUTE * TICKS_PER_SECOND)
       /\ duration_to_h(acc) = Quotient(exact, SECONDS_PER_HOUR * TICKS_PER_SECOND)
  /\ Infinite(exact) =>
       \A convert \in {duration_to_s(acc), duration_to_ms(acc), duration_to_h(acc)} :
         convert = IF exact = Infinity THEN I64_MAX ELSE I64_MIN

=============================================================================
