-------------------------- MODULE DurationProofs ----------------------------
(***************************************************************************)
(* Durations and the calls that wait for one, for integers of every width  *)
(* and every number of units.                                              *)
(***************************************************************************)
EXTENDS DurationArithmetic, Timeouts, TLAPS

(***************************************************************************)
(* Integers                                                                *)
(***************************************************************************)

\* Multiplication by a natural number is monotonic.
LEMMA TimesMonotonic ==
  ASSUME NEW m \in Int, NEW n \in Int, NEW k \in Nat, m <= n
  PROVE  m * k <= n * k
  OBVIOUS

\* A remainder modulo b is found by adding or taking away b once.
LEMMA OneTurn ==
  ASSUME NEW b \in Nat \ {0}, NEW n \in 0 .. b - 1
  PROVE  /\ n % b = n
         /\ (n + b) % b = n
         /\ (n - b) % b = n
  OBVIOUS

\* The widths of the integers.
LEMMA Widths ==
  /\ I64_MAX \in Nat /\ I64_MAX > 0
  /\ U32_MAX \in Nat
  /\ TIME_MAX \in Nat
  /\ TIME_MAX <= I64_MAX
  /\ TICKS_PER_NANOSECOND \in Nat \ {0}
  /\ NANOSECONDS_PER_SECOND \in Nat \ {0}
  /\ TICKS_PER_SECOND \in Nat \ {0}
  /\ TICKS_PER_SECOND + TICKS_PER_NANOSECOND <= U32_MAX
  /\ I64_MIN = -I64_MAX - 1
  /\ INF_TICKS = U32_MAX
<1>1. \A m, n \in Nat \ {0} : m * n \in Nat \ {0}
  OBVIOUS
<1>2. TICKS_PER_SECOND \in Nat \ {0}
  BY <1>1, UnitAssumption DEF TICKS_PER_SECOND
<1> QED BY <1>2, WidthAssumption, UnitAssumption DEF I64_MIN, INF_TICKS

\* i64 keeps what fits, and wraps what is out of range by one turn.
LEMMA Wrapping ==
  ASSUME NEW n \in Int
  PROVE  /\ n \in I64 => i64(n) = n
         /\ n \in I64_MAX + 1 .. I64_MAX + 2 * (I64_MAX + 1)
              => i64(n) = n - 2 * (I64_MAX + 1)
         /\ n \in I64_MIN - 2 * (I64_MAX + 1) .. I64_MIN - 1
              => i64(n) = n + 2 * (I64_MAX + 1)
<1> DEFINE b == 2 * (I64_MAX + 1)
<1>0. b \in Nat \ {0} /\ I64_MIN \in Int /\ I64_MAX \in Nat
  BY Widths
<1>1. ASSUME n \in I64 PROVE i64(n) = n
  <2>1. n - I64_MIN \in 0 .. b - 1
    BY <1>1, Widths DEF I64
  <2> HIDE DEF b
  <2>2. (n - I64_MIN) % b = n - I64_MIN
    BY <1>0, <2>1, OneTurn
  <2> QED BY <2>2, <1>0 DEF i64, b
<1>2. ASSUME n \in I64_MAX + 1 .. I64_MAX + b PROVE i64(n) = n - b
  <2>1. n - I64_MIN - b \in 0 .. b - 1
    BY <1>2, Widths
  <2> HIDE DEF b
  <2>2. ((n - I64_MIN - b) + b) % b = n - I64_MIN - b
    BY <1>0, <2>1, OneTurn
  <2>3. (n - I64_MIN - b) + b = n - I64_MIN
    BY <1>0
  <2> QED BY <2>2, <2>3, <1>0 DEF i64, b
<1>3. ASSUME n \in I64_MIN - b .. I64_MIN - 1 PROVE i64(n) = n + b
  <2>1. n - I64_MIN + b \in 0 .. b - 1
    BY <1>3, Widths
  <2> HIDE DEF b
  <2>2. ((n - I64_MIN + b) - b) % b = n - I64_MIN + b
    BY <1>0, <2>1, OneTurn
  <2>3. (n - I64_MIN + b) - b = n - I64_MIN
    BY <1>0
  <2> QED BY <2>2, <2>3, <1>0 DEF i64, b
<1> QED BY <1>1, <1>2, <1>3

\* u32 keeps what fits; a tick more than the greatest number is 0.
LEMMA Wrapping32 ==
  ASSUME NEW n \in Int
  PROVE  /\ n \in 0 .. U32_MAX => u32(n) = n
         /\ n \in -(U32_MAX + 1) .. -1 => u32(n) = n + U32_MAX + 1
         /\ n \in U32_MAX + 1 .. 2 * U32_MAX + 1 => u32(n) = n - U32_MAX - 1
<1> DEFINE b == U32_MAX + 1
<1>0. b \in Nat \ {0} /\ U32_MAX \in Nat
  BY Widths
<1>1. ASSUME n \in 0 .. b - 1 PROVE u32(n) = n
  <2> HIDE DEF b
  <2> QED BY <1>0, <1>1, OneTurn DEF u32, b
<1>2. ASSUME n + b \in 0 .. b - 1 PROVE u32(n) = n + b
  <2> HIDE DEF b
  <2>1. ((n + b) - b) % b = n + b
    BY <1>0, <1>2, OneTurn
  <2>2. (n + b) - b = n
    BY <1>0
  <2> QED BY <2>1, <2>2 DEF u32, b
<1>3. ASSUME n - b \in 0 .. b - 1 PROVE u32(n) = n - b
  <2> HIDE DEF b
  <2>1. ((n - b) + b) % b = n - b
    BY <1>0, <1>3, OneTurn
  <2>2. (n - b) + b = n
    BY <1>0
  <2> QED BY <2>1, <2>2 DEF u32, b
<1> QED BY <1>0, <1>1, <1>2, <1>3

\* With ticks below a second the seconds decide on which side of a whole
\* number of seconds a duration is.
LEMMA SecondsDecide ==
  ASSUME NEW s \in Int, NEW t \in 0 .. TICKS_PER_SECOND - 1, NEW b \in Int
  PROVE  /\ s >= b <=> s * TICKS_PER_SECOND + t >= b * TICKS_PER_SECOND
         /\ s < b <=> s * TICKS_PER_SECOND + t < b * TICKS_PER_SECOND
<1>0. TICKS_PER_SECOND \in Nat \ {0}
  BY Widths
<1>1. ASSUME s >= b PROVE s * TICKS_PER_SECOND + t >= b * TICKS_PER_SECOND
  <2>1. b * TICKS_PER_SECOND <= s * TICKS_PER_SECOND
    BY <1>0, <1>1, TimesMonotonic
  <2> QED BY <1>0, <2>1
<1>2. ASSUME s < b PROVE s * TICKS_PER_SECOND + t < b * TICKS_PER_SECOND
  <2>1. (s + 1) * TICKS_PER_SECOND <= b * TICKS_PER_SECOND
    BY <1>0, <1>2, TimesMonotonic
  <2>2. (s + 1) * TICKS_PER_SECOND = s * TICKS_PER_SECOND + TICKS_PER_SECOND
    BY <1>0
  <2> QED BY <1>0, <2>1, <2>2
<1> QED BY <1>0, <1>1, <1>2

(***************************************************************************)
(* What durations stand for                                                *)
(***************************************************************************)
LEMMA Bounds ==
  /\ Lowest \in Int /\ Highest \in Int
  /\ Lowest <= 0 /\ 0 <= Highest
  /\ Infinity \in Int /\ NegInfinity \in Int
<1>1. /\ I64_MIN * TICKS_PER_SECOND <= 0 * TICKS_PER_SECOND
      /\ 1 * TICKS_PER_SECOND <= (I64_MAX + 1) * TICKS_PER_SECOND
  BY Widths, TimesMonotonic
<1> QED BY <1>1, Widths DEF Lowest, Highest, Infinity, NegInfinity

\* s seconds and t ticks, where s may be too many for an i64: clamping looks
\* at the seconds only.
LEMMA Clamping ==
  ASSUME NEW s \in Int, NEW t \in 0 .. TICKS_PER_SECOND - 1,
         NEW n, n = s * TICKS_PER_SECOND + t
  PROVE  /\ n \in Int
         /\ s \in I64 => (n \in Lowest .. Highest /\ Clamp(n) = n)
         /\ s > I64_MAX => Clamp(n) = Infinity
         /\ s < I64_MIN => Clamp(n) = NegInfinity
<1>0. /\ TICKS_PER_SECOND \in Nat \ {0}
      /\ I64_MIN \in Int /\ I64_MAX \in Nat /\ I64_MIN <= I64_MAX
      /\ I64_MAX + 1 \in Int /\ Lowest \in Int /\ Highest \in Int
  BY Widths, Bounds
<1>1. n \in Int
  BY <1>0
<1>2. s >= I64_MAX + 1 <=> n >= Highest + 1
  BY <1>0, SecondsDecide DEF Highest
<1>3. s < I64_MIN <=> n < Lowest
  BY <1>0, SecondsDecide DEF Lowest
<1>4. Lowest <= Highest
  BY Bounds
<1> QED BY <1>0, <1>1, <1>2, <1>3, <1>4 DEF Clamp, I64

\* A finite duration stands for its ticks, an infinite one for its infinity.
LEMMA FiniteValue ==
  ASSUME NEW d \in FiniteDurations
  PROVE  /\ d.secs \in I64 /\ d.secs \in Int
         /\ d.ticks \in 0 .. TICKS_PER_SECOND - 1
         /\ ~duration_is_inf(d)
         /\ Value(d) = Ticks(d)
         /\ Ticks(d) \in Lowest .. Highest
         /\ ~Infinite(Value(d))
<1>1. /\ d.secs \in I64 /\ d.secs \in Int
      /\ d.ticks \in 0 .. TICKS_PER_SECOND - 1
      /\ d.ticks # INF_TICKS
  BY Widths DEF FiniteDurations, I64
<1>2. Ticks(d) \in Lowest .. Highest
  BY <1>1, Clamping DEF Ticks
<1> QED BY <1>1, <1>2, Bounds
        DEF Value, duration_is_inf, Infinite, Infinity, NegInfinity

LEMMA InfiniteValue ==
  /\ Value(DURATION_INF) = Infinity
  /\ Value(DURATION_NEG_INF) = NegInfinity
  /\ duration_is_inf(DURATION_INF) /\ duration_is_inf(DURATION_NEG_INF)
  /\ DURATION_INF.secs > 0 /\ DURATION_NEG_INF.secs < 0
<1> QED BY Widths
        DEF Value, duration_is_inf, DURATION_INF, DURATION_NEG_INF

\* The kinds of durations.
LEMMA Kinds ==
  ASSUME NEW d \in Durations
  PROVE  \/ d \in FiniteDurations
         \/ d = DURATION_INF
         \/ d = DURATION_NEG_INF
  BY DEF Durations

(***************************************************************************)
(* Arithmetic                                                              *)
(***************************************************************************)

\* The sum of two finite durations: its seconds, the carry included, and its
\* ticks.
LEMMA AddFinite ==
  ASSUME NEW l \in FiniteDurations, NEW r \in FiniteDurations
  PROVE  /\ duration_add(l, r) \in Durations
         /\ Value(duration_add(l, r)) = Clamp(Ticks(l) + Ticks(r))
<1> DEFINE carry == l.ticks >= TICKS_PER_SECOND - r.ticks
<1> DEFINE s == l.secs + r.secs + (IF carry THEN 1 ELSE 0)
<1> DEFINE t == l.ticks + r.ticks - (IF carry THEN TICKS_PER_SECOND ELSE 0)
<1>1. /\ l.secs \in I64 /\ r.secs \in I64
      /\ l.secs \in Int /\ r.secs \in Int
      /\ l.ticks \in 0 .. TICKS_PER_SECOND - 1
      /\ r.ticks \in 0 .. TICKS_PER_SECOND - 1
      /\ ~duration_is_inf(l) /\ ~duration_is_inf(r)
  BY FiniteValue
<1>2. s \in Int /\ t \in 0 .. TICKS_PER_SECOND - 1
  BY <1>1, Widths DEF I64
<1>3. Ticks(l) + Ticks(r) = s * TICKS_PER_SECOND + t
  <2>1. CASE carry
    <3>1. s = l.secs + r.secs + 1
      BY <2>1
    <3> QED BY <1>1, <2>1, <3>1, Widths DEF Ticks, I64
  <2>2. CASE ~carry
    BY <1>1, <2>2, Widths DEF Ticks, I64
  <2> QED BY <2>1, <2>2
<1>4. AddTicks(l, r) = t
  <2>1. CASE carry
    <3>1. u32(l.ticks - TICKS_PER_SECOND) = l.ticks - TICKS_PER_SECOND + U32_MAX + 1
      BY <1>1, Widths, Wrapping32
    <3>2. u32(l.ticks - TICKS_PER_SECOND + U32_MAX + 1 + r.ticks) = t
      BY <1>1, <2>1, Widths, Wrapping32
    <3> QED BY <2>1, <3>1, <3>2 DEF AddTicks
  <2>2. CASE ~carry
    BY <1>1, <2>2, Widths, Wrapping32 DEF AddTicks
  <2> QED BY <2>1, <2>2
<1>5. /\ s \in I64 => AddSecs(l, r) = s
      /\ s > I64_MAX => AddSecs(l, r) = s - 2 * (I64_MAX + 1)
      /\ s < I64_MIN => AddSecs(l, r) = s + 2 * (I64_MAX + 1)
  <2> DEFINE x == l.secs + r.secs
  <2>0. x \in Int /\ x \in 2 * I64_MIN .. 2 * I64_MAX
    BY <1>1, Widths DEF I64
  <2>1. /\ x \in I64 => i64(x) = x
        /\ x > I64_MAX => i64(x) = x - 2 * (I64_MAX + 1)
        /\ x < I64_MIN => i64(x) = x + 2 * (I64_MAX + 1)
    BY <2>0, Widths, Wrapping
  <2>2. x \in I64 \/ x > I64_MAX \/ x < I64_MIN
    BY <2>0, Widths DEF I64
  <2>3. CASE carry
    <3>1. AddSecs(l, r) = i64(i64(x) + 1) /\ s = x + 1
      BY <2>3, <2>0 DEF AddSecs
    <3> HIDE DEF x, s
    <3>2. /\ i64(x) \in Int
          /\ i64(x) + 1 \in I64 => i64(i64(x) + 1) = i64(x) + 1
          /\ i64(x) + 1 = I64_MAX + 1 => i64(i64(x) + 1) = i64(x) + 1 - 2 * (I64_MAX + 1)
      BY <2>0, <2>1, <2>2, Widths, Wrapping DEF I64
    <3> QED BY <2>0, <2>1, <2>2, <3>1, <3>2, Widths DEF I64
  <2>4. CASE ~carry
    <3>1. AddSecs(l, r) = i64(x) /\ s = x
      BY <2>4, <2>0 DEF AddSecs
    <3> QED BY <2>1, <3>1
  <2> QED BY <2>3, <2>4
<1>6. /\ s \in I64 => ~AddOverflows(l, r)
      /\ s > I64_MAX => AddOverflows(l, r) /\ r.secs >= 0
      /\ s < I64_MIN => AddOverflows(l, r) /\ r.secs < 0
  <2>1. s \in l.secs + r.secs .. l.secs + r.secs + 1
    BY <1>1, Widths DEF I64
  <2> HIDE DEF s
  <2> QED BY <1>1, <1>2, <1>5, <2>1, Widths DEF AddOverflows, I64
<1>7. s \in I64 \/ s > I64_MAX \/ s < I64_MIN
  BY <1>2, Widths DEF I64
<1>8. /\ s \in I64 => duration_add(l, r) = [secs |-> s, ticks |-> t]
      /\ s > I64_MAX => duration_add(l, r) = DURATION_INF
      /\ s < I64_MIN => duration_add(l, r) = DURATION_NEG_INF
  <2> HIDE DEF s, t, carry
  <2> QED BY <1>1, <1>2, <1>4, <1>5, <1>6, Widths DEF duration_add
<1> HIDE DEF s, t, carry
<1>9. ASSUME s \in I64 PROVE /\ [secs |-> s, ticks |-> t] \in FiniteDurations
                             /\ Value([secs |-> s, ticks |-> t]) = s * TICKS_PER_SECOND + t
  <2>1. [secs |-> s, ticks |-> t] \in FiniteDurations
    BY <1>2, <1>9 DEF FiniteDurations
  <2> QED BY <2>1, FiniteValue DEF Ticks
<1> QED BY <1>2, <1>3, <1>7, <1>8, <1>9, Clamping, InfiniteValue DEF Durations

LEMMA AddCorrect ==
  ASSUME NEW l \in Durations, NEW r \in Durations
  PROVE  /\ duration_add(l, r) \in Durations
         /\ Value(duration_add(l, r)) = Sum(Value(l), Value(r))
<1>1. CASE l \notin FiniteDurations
  <2>1. duration_is_inf(l) /\ Infinite(Value(l))
    BY <1>1, Kinds, InfiniteValue DEF Infinite
  <2> QED BY <2>1 DEF duration_add, Sum
<1>2. CASE l \in FiniteDurations /\ r \notin FiniteDurations
  <2>1. /\ duration_is_inf(r) /\ Infinite(Value(r))
        /\ ~duration_is_inf(l) /\ ~Infinite(Value(l))
    BY <1>2, Kinds, InfiniteValue, FiniteValue DEF Infinite
  <2> QED BY <2>1 DEF duration_add, Sum
<1>3. CASE l \in FiniteDurations /\ r \in FiniteDurations
  <2>1. Sum(Value(l), Value(r)) = Clamp(Ticks(l) + Ticks(r))
    BY <1>3, FiniteValue DEF Sum
  <2> QED BY <1>3, <2>1, AddFinite
<1> QED BY <1>1, <1>2, <1>3

\* The difference of two finite durations, with the borrow.
LEMMA SubFinite ==
  ASSUME NEW l \in FiniteDurations, NEW r \in FiniteDurations
  PROVE  /\ duration_sub(l, r) \in Durations
         /\ Value(duration_sub(l, r)) = Clamp(Ticks(l) - Ticks(r))
<1> DEFINE borrow == l.ticks < r.ticks
<1> DEFINE s == l.secs - r.secs - (IF borrow THEN 1 ELSE 0)
<1> DEFINE t == l.ticks - r.ticks + (IF borrow THEN TICKS_PER_SECOND ELSE 0)
<1>1. /\ l.secs \in I64 /\ r.secs \in I64
      /\ l.secs \in Int /\ r.secs \in Int
      /\ l.ticks \in 0 .. TICKS_PER_SECOND - 1
      /\ r.ticks \in 0 .. TICKS_PER_SECOND - 1
      /\ ~duration_is_inf(l) /\ ~duration_is_inf(r)
  BY FiniteValue
<1>2. s \in Int /\ t \in 0 .. TICKS_PER_SECOND - 1
  BY <1>1, Widths
<1>3. Ticks(l) - Ticks(r) = s * TICKS_PER_SECOND + t
  <2>1. CASE borrow
    <3>1. s = l.secs - r.secs - 1
      BY <2>1
    <3> QED BY <1>1, <2>1, <3>1, Widths DEF Ticks
  <2>2. CASE ~borrow
    BY <1>1, <2>2, Widths DEF Ticks
  <2> QED BY <2>1, <2>2
<1>4. SubTicks(l, r) = t
  <2>1. CASE borrow
    <3>1. \/ /\ l.ticks + TICKS_PER_SECOND <= U32_MAX
             /\ u32(l.ticks + TICKS_PER_SECOND) = l.ticks + TICKS_PER_SECOND
          \/ /\ l.ticks + TICKS_PER_SECOND > U32_MAX
             /\ u32(l.ticks + TICKS_PER_SECOND) = l.ticks + TICKS_PER_SECOND - U32_MAX - 1
      BY <1>1, Widths, Wrapping32
    <3>2. u32(u32(l.ticks + TICKS_PER_SECOND) - r.ticks) = t
      BY <1>1, <1>2, <2>1, <3>1, Widths, Wrapping32
    <3> QED BY <2>1, <3>2 DEF SubTicks
  <2>2. CASE ~borrow
    BY <1>1, <2>2, Widths, Wrapping32 DEF SubTicks
  <2> QED BY <2>1, <2>2
<1>5. /\ s \in I64 => SubSecs(l, r) = s
      /\ s > I64_MAX => SubSecs(l, r) = s - 2 * (I64_MAX + 1)
      /\ s < I64_MIN => SubSecs(l, r) = s + 2 * (I64_MAX + 1)
  <2> DEFINE x == l.secs - r.secs
  <2>0. x \in Int /\ x \in I64_MIN - I64_MAX .. I64_MAX - I64_MIN
    BY <1>1, Widths DEF I64
  <2>1. /\ x \in I64 => i64(x) = x
        /\ x > I64_MAX => i64(x) = x - 2 * (I64_MAX + 1)
        /\ x < I64_MIN => i64(x) = x + 2 * (I64_MAX + 1)
    BY <2>0, Widths, Wrapping
  <2>2. x \in I64 \/ x > I64_MAX \/ x < I64_MIN
    BY <2>0, Widths DEF I64
  <2>3. CASE borrow
    <3>1. SubSecs(l, r) = i64(i64(x) - 1) /\ s = x - 1
      BY <2>3, <2>0 DEF SubSecs
    <3> HIDE DEF x, s
    <3>2. /\ i64(x) \in Int
          /\ i64(x) - 1 \in I64 => i64(i64(x) - 1) = i64(x) - 1
          /\ i64(x) - 1 = I64_MIN - 1 => i64(i64(x) - 1) = i64(x) - 1 + 2 * (I64_MAX + 1)
      BY <2>0, <2>1, <2>2, Widths, Wrapping DEF I64
    <3> QED BY <2>0, <2>1, <2>2, <3>1, <3>2, Widths DEF I64
  <2>4. CASE ~borrow
    <3>1. SubSecs(l, r) = i64(x) /\ s = x
      BY <2>4, <2>0 DEF SubSecs
    <3> QED BY <2>1, <3>1
  <2> QED BY <2>3, <2>4
<1>6. /\ s \in I64 => ~SubOverflows(l, r)
      /\ s > I64_MAX => SubOverflows(l, r) /\ r.secs < 0
      /\ s < I64_MIN => SubOverflows(l, r) /\ r.secs >= 0
  <2>1. s \in l.secs - r.secs - 1 .. l.secs - r.secs
    BY <1>1, Widths
  <2> HIDE DEF s
  <2> QED BY <1>1, <1>2, <1>5, <2>1, Widths DEF SubOverflows, I64
<1>7. s \in I64 \/ s > I64_MAX \/ s < I64_MIN
  BY <1>2, Widths DEF I64
<1>8. /\ s \in I64 => duration_sub(l, r) = [secs |-> s, ticks |-> t]
      /\ s > I64_MAX => duration_sub(l, r) = DURATION_INF
      /\ s < I64_MIN => duration_sub(l, r) = DURATION_NEG_INF
  <2> HIDE DEF s, t, borrow
  <2> QED BY <1>1, <1>2, <1>4, <1>5, <1>6, Widths DEF duration_sub
<1> HIDE DEF s, t, borrow
<1>9. ASSUME s \in I64 PROVE /\ [secs |-> s, ticks |-> t] \in FiniteDurations
                             /\ Value([secs |-> s, ticks |-> t]) = s * TICKS_PER_SECOND + t
  <2>1. [secs |-> s, ticks |-> t] \in FiniteDurations
    BY <1>2, <1>9 DEF FiniteDurations
  <2> QED BY <2>1, FiniteValue DEF Ticks
<1> QED BY <1>2, <1>3, <1>7, <1>8, <1>9, Clamping, InfiniteValue DEF Durations

LEMMA SubCorrect ==
  ASSUME NEW l \in Durations, NEW r \in Durations
  PROVE  /\ duration_sub(l, r) \in Durations
         /\ Value(duration_sub(l, r)) =
              IF Infinite(Value(r)) THEN Sum(Value(l), Opposite(Value(r)))
              ELSE IF Infinite(Value(l)) THEN Value(l) ELSE Clamp(Value(l) - Value(r))
<1>0. Infinity # NegInfinity
  BY Bounds DEF Infinity, NegInfinity
<1>1. CASE l \notin FiniteDurations
  <2>1. duration_is_inf(l) /\ Infinite(Value(l))
    BY <1>1, Kinds, InfiniteValue DEF Infinite
  <2> QED BY <2>1 DEF duration_sub, Sum
<1>2. CASE l \in FiniteDurations /\ r \notin FiniteDurations
  <2>1. ~duration_is_inf(l) /\ ~Infinite(Value(l))
    BY <1>2, FiniteValue
  <2>2. CASE r = DURATION_INF
    <3>1. duration_sub(l, r) = DURATION_NEG_INF
      BY <2>1, <2>2, InfiniteValue DEF duration_sub
    <3>2. Infinite(Value(r)) /\ Sum(Value(l), Opposite(Value(r))) = NegInfinity
      BY <2>1, <2>2, InfiniteValue DEF Infinite, Opposite, Sum
    <3> QED BY <3>1, <3>2, InfiniteValue DEF Durations
  <2>3. CASE r = DURATION_NEG_INF
    <3>1. ~(r.secs > 0)
      BY <2>3, Widths DEF DURATION_NEG_INF
    <3>2. duration_sub(l, r) = DURATION_INF
      BY <2>1, <2>3, <3>1, InfiniteValue DEF duration_sub
    <3>3. Infinite(Value(r)) /\ Sum(Value(l), Opposite(Value(r))) = Infinity
      BY <1>0, <2>1, <2>3, InfiniteValue DEF Infinite, Opposite, Sum
    <3> QED BY <3>2, <3>3, InfiniteValue DEF Durations
  <2> QED BY <1>2, <2>2, <2>3, Kinds
<1>3. CASE l \in FiniteDurations /\ r \in FiniteDurations
  BY <1>3, FiniteValue, SubFinite
<1> QED BY <1>1, <1>2, <1>3

\* The opposite of the least finite duration does not fit; with ticks, the
\* complement of the seconds always does.
LEMMA NegCorrect ==
  ASSUME NEW d \in Durations
  PROVE  /\ duration_neg(d) \in Durations
         /\ Value(duration_neg(d)) = Opposite(Value(d))
<1>0. Infinity # NegInfinity /\ INF_TICKS # 0
  BY Bounds, Widths DEF Infinity, NegInfinity
<1>1. CASE d = DURATION_INF
  <2>1. duration_neg(d) = DURATION_NEG_INF
    BY <1>0, <1>1, Widths DEF duration_neg, DURATION_INF, duration_is_inf
  <2> QED BY <1>1, <2>1, InfiniteValue DEF Opposite, Durations
<1>2. CASE d = DURATION_NEG_INF
  <2>1. duration_neg(d) = DURATION_INF
    BY <1>0, <1>2, Widths DEF duration_neg, DURATION_NEG_INF, duration_is_inf
  <2> QED BY <1>0, <1>2, <2>1, InfiniteValue DEF Opposite, Durations
<1>3. CASE d \in FiniteDurations
  <2>0. /\ d.secs \in I64 /\ d.secs \in Int /\ d.ticks \in 0 .. TICKS_PER_SECOND - 1
        /\ ~duration_is_inf(d) /\ Ticks(d) \in Int
        /\ Opposite(Value(d)) = Clamp(-Ticks(d))
    BY <1>3, FiniteValue, Bounds DEF Opposite, Infinite
  <2>1. CASE d.ticks = 0 /\ d.secs = I64_MIN
    <3>1. duration_neg(d) = DURATION_INF
      BY <2>1 DEF duration_neg
    <3>2. -Ticks(d) = (I64_MAX + 1) * TICKS_PER_SECOND + 0
      BY <2>1, Widths DEF Ticks
    <3>3. /\ I64_MAX + 1 \in Int /\ I64_MAX + 1 > I64_MAX
          /\ 0 \in 0 .. TICKS_PER_SECOND - 1
      BY Widths
    <3>4. Clamp(-Ticks(d)) = Infinity
      BY <3>2, <3>3, Clamping
    <3> QED BY <2>0, <3>1, <3>4, InfiniteValue DEF Durations
  <2>2. CASE d.ticks = 0 /\ d.secs # I64_MIN
    <3>1. /\ duration_neg(d) = [secs |-> -d.secs, ticks |-> 0]
          /\ duration_neg(d) \in FiniteDurations
      BY <2>0, <2>2, Widths DEF duration_neg, FiniteDurations, I64
    <3>2. Ticks(duration_neg(d)) = -Ticks(d)
      BY <2>0, <2>2, <3>1, Widths DEF Ticks
    <3>3. Clamp(-Ticks(d)) = -Ticks(d)
      BY <3>1, <3>2, FiniteValue, Bounds DEF Clamp
    <3> QED BY <2>0, <3>1, <3>2, <3>3, FiniteValue DEF Durations
  <2>3. CASE d.ticks # 0
    <3>1. u32(TICKS_PER_SECOND - d.ticks) = TICKS_PER_SECOND - d.ticks
      BY <2>0, <2>3, Widths, Wrapping32
    <3>2. duration_neg(d) = [secs |-> -d.secs - 1, ticks |-> TICKS_PER_SECOND - d.ticks]
      BY <2>0, <2>3, <3>1 DEF duration_neg
    <3>3. duration_neg(d) \in FiniteDurations
      BY <2>0, <2>3, <3>2, Widths DEF FiniteDurations, I64
    <3>4. Ticks(duration_neg(d)) = -Ticks(d)
      BY <2>0, <3>2, Widths DEF Ticks
    <3>5. Clamp(-Ticks(d)) = -Ticks(d)
      BY <3>3, <3>4, FiniteValue, Bounds DEF Clamp
    <3> QED BY <2>0, <3>3, <3>4, <3>5, FiniteValue DEF Durations
  <2> QED BY <2>1, <2>2, <2>3
<1> QED BY <1>1, <1>2, <1>3, Kinds

(***************************************************************************)
(* Making durations                                                        *)
(***************************************************************************)

\* Division of natural numbers.
LEMMA Division ==
  ASSUME NEW n \in Nat, NEW b \in Nat \ {0}
  PROVE  /\ n \div b \in Nat
         /\ n % b \in 0 .. b - 1
         /\ n = b * (n \div b) + (n % b)
         /\ n \div b <= n
<1>1. /\ n \div b \in Nat
      /\ n % b \in 0 .. b - 1
      /\ n = b * (n \div b) + (n % b)
  OBVIOUS
<1>2. 1 * (n \div b) <= b * (n \div b)
  BY <1>1, TimesMonotonic
<1> QED BY <1>1, <1>2

\* The quotient and the remainder of a product.
LEMMA DivisionUnique ==
  ASSUME NEW b \in Nat \ {0}, NEW q \in Int, NEW r \in 0 .. b - 1
  PROVE  (b * q + r) \div b = q
  OBVIOUS

\* Division of C truncates: the remainder has the sign of the dividend.
LEMMA CDivision ==
  ASSUME NEW a \in Int, NEW b \in Nat \ {0}
  PROVE  /\ Quotient(a, b) \in Int
         /\ Remainder(a, b) \in Int
         /\ a = b * Quotient(a, b) + Remainder(a, b)
         /\ a >= 0 => /\ Quotient(a, b) \in 0 .. a
                      /\ Remainder(a, b) \in 0 .. b - 1
         /\ a < 0 => /\ Quotient(a, b) \in a .. 0
                     /\ Remainder(a, b) \in -(b - 1) .. 0
<1>1. CASE a >= 0
  <2>0. a \in Nat
    BY <1>1
  <2>1. Quotient(a, b) = a \div b
    BY <1>1 DEF Quotient
  <2>2. /\ a \div b \in Nat /\ a % b \in 0 .. b - 1
        /\ a = b * (a \div b) + (a % b) /\ a \div b <= a
    BY <2>0, Division
  <2>3. Remainder(a, b) = a % b
    BY <2>1, <2>2 DEF Remainder
  <2> QED BY <1>1, <2>1, <2>2, <2>3
<1>2. CASE a < 0
  <2>0. -a \in Nat
    BY <1>2
  <2>1. Quotient(a, b) = -((-a) \div b)
    BY <1>2 DEF Quotient
  <2>2. /\ (-a) \div b \in Nat /\ (-a) % b \in 0 .. b - 1
        /\ -a = b * ((-a) \div b) + ((-a) % b) /\ (-a) \div b <= -a
    BY <2>0, Division
  <2>3. b * (-((-a) \div b)) = -(b * ((-a) \div b))
    BY <2>2
  <2> QED BY <1>2, <2>1, <2>2, <2>3 DEF Remainder
<1> QED BY <1>1, <1>2

\* C divides a multiple exactly.
LEMMA CDivisionExact ==
  ASSUME NEW m \in Int, NEW b \in Nat \ {0}
  PROVE  Quotient(m * b, b) = m
<1>1. CASE m >= 0
  <2>1. m * b >= 0 /\ m * b = b * m + 0
    BY <1>1, TimesMonotonic
  <2>2. (b * m + 0) \div b = m
    BY <1>1, DivisionUnique
  <2> QED BY <2>1, <2>2 DEF Quotient
<1>2. CASE m < 0
  <2>1. m * b <= -1 * b
    BY <1>2, TimesMonotonic
  <2>2. m * b < 0 /\ -(m * b) = b * (-m) + 0
    BY <2>1, <1>2
  <2>3. (b * (-m) + 0) \div b = -m
    BY <1>2, DivisionUnique
  <2> QED BY <2>2, <2>3, <1>2 DEF Quotient
<1> QED BY <1>1, <1>2

\* What divides the nanoseconds of a second divides its ticks.
LEMMA UnitDivides ==
  ASSUME NEW ratio \in Nat \ {0}, NANOSECONDS_PER_SECOND % ratio = 0
  PROVE  /\ TICKS_PER_SECOND \div ratio \in Nat \ {0}
         /\ TICKS_PER_SECOND = (TICKS_PER_SECOND \div ratio) * ratio
<1> DEFINE j == NANOSECONDS_PER_SECOND \div ratio
<1>1. /\ j \in Nat
      /\ NANOSECONDS_PER_SECOND = ratio * j + 0
  BY Widths, Division
<1> HIDE DEF j
<1>2. TICKS_PER_NANOSECOND * j \in Nat
  BY <1>1, Widths
<1>3. TICKS_PER_SECOND = ratio * (TICKS_PER_NANOSECOND * j) + 0
  BY <1>1, Widths DEF TICKS_PER_SECOND
<1>4. TICKS_PER_SECOND \div ratio = TICKS_PER_NANOSECOND * j
  BY <1>2, <1>3, DivisionUnique
<1>5. TICKS_PER_NANOSECOND * j # 0
  BY <1>1, <1>3, Widths
<1> QED BY <1>2, <1>3, <1>4, <1>5

\* from_i64 loses nothing: a number of units is a whole number of ticks.
LEMMA FromUnits ==
  ASSUME NEW v \in I64, NEW ratio \in Nat \ {0}, NANOSECONDS_PER_SECOND % ratio = 0
  PROVE  /\ from_i64(v, ratio) \in FiniteDurations
         /\ Ticks(from_i64(v, ratio)) = v * (TICKS_PER_SECOND \div ratio)
<1> DEFINE k == TICKS_PER_SECOND \div ratio
           q == Quotient(v, ratio)
           r == Remainder(v, ratio)
<1>0. v \in Int /\ v >= I64_MIN /\ v <= I64_MAX /\ I64_MIN \in Int /\ I64_MAX \in Int
  BY Widths DEF I64
<1>1. k \in Nat \ {0} /\ TICKS_PER_SECOND = k * ratio
  BY UnitDivides
<1>2. /\ q \in Int /\ r \in Int /\ v = ratio * q + r
      /\ v >= 0 => q \in 0 .. v /\ r \in 0 .. ratio - 1
      /\ v < 0 => q \in v .. 0 /\ r \in -(ratio - 1) .. 0
  BY <1>0, CDivision
<1> HIDE DEF k, q, r
<1>3. Quotient(r * TICKS_PER_SECOND, ratio) = r * k
  <2>1. r * TICKS_PER_SECOND = (r * k) * ratio
    BY <1>1, <1>2
  <2> QED BY <1>1, <1>2, <2>1, CDivisionExact
<1>4. /\ r >= 0 => r * k \in 0 .. TICKS_PER_SECOND - 1
      /\ r < 0 => r * k \in -(TICKS_PER_SECOND - 1) .. -1
  <2>1. CASE r >= 0
    <3>1. 0 * k <= r * k /\ (r + 1) * k <= ratio * k
      BY <1>0, <1>1, <1>2, <2>1, TimesMonotonic
    <3>2. (r + 1) * k = r * k + k /\ ratio * k = TICKS_PER_SECOND
      BY <1>1, <1>2
    <3> QED BY <1>1, <1>2, <2>1, <3>1, <3>2
  <2>2. CASE r < 0
    <3>1. r * k <= -1 * k /\ (-ratio) * k <= (r - 1) * k
      BY <1>0, <1>1, <1>2, <2>2, TimesMonotonic
    <3>2. (r - 1) * k = r * k - k /\ (-ratio) * k = -TICKS_PER_SECOND
      BY <1>1, <1>2
    <3> QED BY <1>1, <1>2, <2>2, <3>1, <3>2
  <2> QED BY <2>1, <2>2, <1>2
<1>5. v * k = q * TICKS_PER_SECOND + r * k
  BY <1>1, <1>2
<1>6. r * k \in Int
  BY <1>1, <1>2
<1>7. CASE r >= 0
  <2>1. from_i64(v, ratio) = [secs |-> q, ticks |-> r * k]
    BY <1>3, <1>4, <1>7, Widths, Wrapping32
       DEF from_i64, make_normalized_duration, make_duration, q, r
  <2>2. q \in I64
    BY <1>0, <1>2, Widths DEF I64
  <2> QED BY <2>1, <2>2, <1>4, <1>5, <1>7 DEF FiniteDurations, Ticks, k
<1>8. CASE r < 0
  <2>1. from_i64(v, ratio) = [secs |-> q - 1, ticks |-> r * k + TICKS_PER_SECOND]
    <3>1. u32(r * k + TICKS_PER_SECOND) = r * k + TICKS_PER_SECOND
      BY <1>4, <1>6, <1>8, Widths, Wrapping32
    <3>2. r * k < 0
      BY <1>4, <1>6, <1>8, Widths
    <3> QED BY <1>3, <3>1, <3>2
            DEF from_i64, make_normalized_duration, make_duration, q, r
  <2>2. q - 1 \in I64
    <3>1. v < 0 /\ q <= 0
      BY <1>0, <1>2, <1>8
    <3>2. q * ratio <= q * 1
      <4>1. 1 * (-q) <= ratio * (-q)
        BY <1>2, <3>1, TimesMonotonic
      <4> QED BY <1>2, <4>1
    <3>3. v <= q - 1
      BY <1>2, <1>8, <3>2
    <3> QED BY <1>0, <1>2, <3>1, <3>3, Widths DEF I64
  <2>3. r * k + TICKS_PER_SECOND \in 0 .. TICKS_PER_SECOND - 1
    BY <1>4, <1>6, <1>8, Widths
  <2>4. (q - 1) * TICKS_PER_SECOND + (r * k + TICKS_PER_SECOND) = v * k
    BY <1>2, <1>5, <1>6, Widths
  <2> QED BY <2>1, <2>2, <2>3, <2>4 DEF FiniteDurations, Ticks, k
<1> QED BY <1>2, <1>7, <1>8

\* Minutes and hours: the comparison with the quotients of the limits is the
\* comparison of the product with the limits.
LEMMA FromMultiple ==
  ASSUME NEW v \in I64, NEW seconds \in Nat \ {0}
  PROVE  /\ duration_of(v, seconds) \in Durations
         /\ Value(duration_of(v, seconds)) = Clamp(v * seconds * TICKS_PER_SECOND)
<1> DEFINE most == Quotient(I64_MAX, seconds)
           least == Quotient(I64_MIN, seconds)
           s == v * seconds
<1>0. /\ v \in Int /\ s \in Int
      /\ I64_MIN \in Int /\ I64_MAX \in Int /\ I64_MAX > 0 /\ I64_MIN < 0
  BY Widths DEF I64
<1>1. /\ most \in Int /\ most >= 0
      /\ most * seconds <= I64_MAX /\ I64_MAX < (most + 1) * seconds
  <2>1. /\ most \in Int /\ most >= 0
        /\ I64_MAX = seconds * most + Remainder(I64_MAX, seconds)
        /\ Remainder(I64_MAX, seconds) \in 0 .. seconds - 1
    BY <1>0, CDivision
  <2> HIDE DEF most
  <2> QED BY <1>0, <2>1
<1>2. /\ least \in Int /\ least <= 0
      /\ I64_MIN <= least * seconds /\ (least - 1) * seconds < I64_MIN
  <2>1. /\ least \in Int /\ least <= 0
        /\ I64_MIN = seconds * least + Remainder(I64_MIN, seconds)
        /\ Remainder(I64_MIN, seconds) \in -(seconds - 1) .. 0
    BY <1>0, CDivision
  <2> HIDE DEF least
  <2> QED BY <1>0, <2>1
<1>3. duration_of(v, seconds) =
        IF v <= most /\ v >= least THEN make_duration(s, 0)
        ELSE IF v > 0 THEN DURATION_INF ELSE DURATION_NEG_INF
  BY DEF duration_of
<1>4. 0 \in 0 .. TICKS_PER_SECOND - 1 /\ s * TICKS_PER_SECOND = s * TICKS_PER_SECOND + 0
  BY <1>0, Widths
<1> HIDE DEF most, least
<1>5. CASE v <= most /\ v >= least
  <2>1. v * seconds <= most * seconds /\ least * seconds <= v * seconds
    BY <1>0, <1>1, <1>2, <1>5, TimesMonotonic
  <2>2. s \in I64
    BY <1>0, <1>1, <1>2, <2>1 DEF I64
  <2> HIDE DEF s
  <2>3. duration_of(v, seconds) = [secs |-> s, ticks |-> 0]
    BY <1>3, <1>5, Widths, Wrapping32 DEF make_duration
  <2>4. duration_of(v, seconds) \in FiniteDurations
    BY <1>4, <2>2, <2>3 DEF FiniteDurations
  <2>5. Value(duration_of(v, seconds)) = s * TICKS_PER_SECOND
    BY <1>4, <2>3, <2>4, FiniteValue DEF Ticks
  <2>6. Clamp(s * TICKS_PER_SECOND) = s * TICKS_PER_SECOND
    BY <1>0, <1>4, <2>2, Clamping
  <2> QED BY <2>4, <2>5, <2>6 DEF s, Durations
<1>6. CASE v > most
  <2>1. (most + 1) * seconds <= v * seconds
    BY <1>0, <1>1, <1>6, TimesMonotonic
  <2>2. s > I64_MAX
    BY <1>0, <1>1, <2>1
  <2> HIDE DEF s
  <2>3. Clamp(s * TICKS_PER_SECOND) = Infinity
    BY <1>0, <1>4, <2>2, Clamping
  <2>4. duration_of(v, seconds) = DURATION_INF
    BY <1>0, <1>1, <1>3, <1>6
  <2> QED BY <2>3, <2>4, InfiniteValue DEF s, Durations
<1>7. CASE v < least
  <2>1. v * seconds <= (least - 1) * seconds
    BY <1>0, <1>2, <1>7, TimesMonotonic
  <2>2. s < I64_MIN
    BY <1>0, <1>2, <2>1
  <2> HIDE DEF s
  <2>3. Clamp(s * TICKS_PER_SECOND) = NegInfinity
    BY <1>0, <1>4, <2>2, Clamping
  <2>4. duration_of(v, seconds) = DURATION_NEG_INF
    BY <1>0, <1>2, <1>3, <1>7
  <2> QED BY <2>3, <2>4, InfiniteValue DEF s, Durations
<1> QED BY <1>0, <1>1, <1>2, <1>5, <1>6, <1>7

(***************************************************************************)
(* Through a timespec                                                      *)
(***************************************************************************)

\* A time_t holds exactly the numbers of its range.
LEMMA NarrowTime ==
  ASSUME NEW s \in Int
  PROVE  /\ s \in Time => time_t(s) = s
         /\ s \notin Time => time_t(s) # s
<1> DEFINE b == 2 * (TIME_MAX + 1)
           m == (s - TIME_MIN) % b
<1>0. /\ b \in Nat \ {0} /\ TIME_MIN \in Int /\ TIME_MAX \in Nat
      /\ TIME_MAX = TIME_MIN + b - 1
  BY Widths DEF TIME_MIN
<1>1. time_t(s) = m + TIME_MIN
  BY DEF time_t
<1> HIDE DEF b
<1>2. m \in 0 .. b - 1
  BY <1>0
<1>3. s - TIME_MIN \in 0 .. b - 1 => m = s - TIME_MIN
  BY <1>0, OneTurn
<1> QED BY <1>0, <1>1, <1>2, <1>3 DEF Time

\* x whole nanoseconds below a second are ticks below a second.
LEMMA NanosecondTicks ==
  ASSUME NEW x \in 0 .. NANOSECONDS_PER_SECOND - 1
  PROVE  /\ x * TICKS_PER_NANOSECOND \in 0 .. TICKS_PER_SECOND - 1
         /\ x * TICKS_PER_NANOSECOND
              <= (NANOSECONDS_PER_SECOND - 1) * TICKS_PER_NANOSECOND
         /\ (NANOSECONDS_PER_SECOND - 1) * TICKS_PER_NANOSECOND
              = TICKS_PER_SECOND - TICKS_PER_NANOSECOND
<1>0. x \in Int /\ NANOSECONDS_PER_SECOND - 1 \in Int
  BY Widths
<1>1. /\ 0 * TICKS_PER_NANOSECOND <= x * TICKS_PER_NANOSECOND
      /\ x * TICKS_PER_NANOSECOND <= (NANOSECONDS_PER_SECOND - 1) * TICKS_PER_NANOSECOND
  BY <1>0, Widths, TimesMonotonic
<1>2. (NANOSECONDS_PER_SECOND - 1) * TICKS_PER_NANOSECOND
        = TICKS_PER_SECOND - TICKS_PER_NANOSECOND
  BY Widths DEF TICKS_PER_SECOND
<1> QED BY <1>0, <1>1, <1>2, Widths

\* Below a second there are whole nanoseconds below a second.
LEMMA WholeNanoseconds ==
  ASSUME NEW t \in 0 .. TICKS_PER_SECOND - 1
  PROVE  /\ t \div TICKS_PER_NANOSECOND \in 0 .. NANOSECONDS_PER_SECOND - 1
         /\ t % TICKS_PER_NANOSECOND \in 0 .. TICKS_PER_NANOSECOND - 1
         /\ t = TICKS_PER_NANOSECOND * (t \div TICKS_PER_NANOSECOND)
                + (t % TICKS_PER_NANOSECOND)
<1> DEFINE x == t \div TICKS_PER_NANOSECOND
           r == t % TICKS_PER_NANOSECOND
<1>0. t \in Nat
  BY Widths
<1>1. /\ x \in Nat /\ r \in 0 .. TICKS_PER_NANOSECOND - 1
      /\ t = TICKS_PER_NANOSECOND * x + r
  BY <1>0, Widths, Division
<1> HIDE DEF x, r
<1>2. ASSUME x >= NANOSECONDS_PER_SECOND PROVE FALSE
  <2>1. NANOSECONDS_PER_SECOND * TICKS_PER_NANOSECOND <= x * TICKS_PER_NANOSECOND
    BY <1>1, <1>2, Widths, TimesMonotonic
  <2> QED BY <1>1, <2>1, Widths DEF TICKS_PER_SECOND
<1> QED BY <1>1, <1>2, Widths DEF x, r

\* The seconds and ticks that are divided in rbc_duration_to_timespec, after
\* the ticks of a negative duration have been raised.
TimespecSecs(d) ==
  IF d.secs < 0 /\ ToTimespecTicks(d) >= TICKS_PER_SECOND THEN d.secs + 1 ELSE d.secs

TimespecTicks(d) ==
  IF d.secs < 0 /\ ToTimespecTicks(d) >= TICKS_PER_SECOND
  THEN ToTimespecTicks(d) - TICKS_PER_SECOND ELSE ToTimespecTicks(d)

\* The raised ticks divide into the value truncated towards zero.
LEMMA Raised ==
  ASSUME NEW d \in FiniteDurations
  PROVE  /\ TimespecSecs(d) \in d.secs .. d.secs + 1
         /\ d.secs >= 0 => TimespecSecs(d) = d.secs
         /\ d.secs < 0 => TimespecSecs(d) <= 0
         /\ TimespecTicks(d) \in 0 .. TICKS_PER_SECOND - 1
         /\ Truncated(Ticks(d)) =
              TimespecSecs(d) * TICKS_PER_SECOND
              + (TimespecTicks(d) \div TICKS_PER_NANOSECOND) * TICKS_PER_NANOSECOND
<1> DEFINE s == TimespecSecs(d)
           t == TimespecTicks(d)
           x == t \div TICKS_PER_NANOSECOND
           r == t % TICKS_PER_NANOSECOND
           n == Ticks(d)
           k == TICKS_PER_NANOSECOND
           N == s * NANOSECONDS_PER_SECOND + x
<1>0. /\ d.secs \in I64 /\ d.secs \in Int /\ d.ticks \in 0 .. TICKS_PER_SECOND - 1
      /\ n \in Int /\ k \in Nat \ {0}
  BY FiniteValue, Bounds, Widths
<1>a. k <= TICKS_PER_SECOND
  <2>1. 1 * k <= NANOSECONDS_PER_SECOND * k
    BY <1>0, Widths, TimesMonotonic
  <2> QED BY <1>0, <2>1, Widths DEF TICKS_PER_SECOND
<1>1. /\ s \in d.secs .. d.secs + 1
      /\ d.secs >= 0 => s = d.secs
      /\ d.secs < 0 => s <= 0
      /\ t \in 0 .. TICKS_PER_SECOND - 1
  BY <1>0, <1>a, Widths DEF TimespecSecs, TimespecTicks, ToTimespecTicks
<1>2. s * TICKS_PER_SECOND + t = n + (IF d.secs < 0 THEN k - 1 ELSE 0)
  <2>1. CASE s = d.secs + 1
    BY <1>0, <2>1, Widths DEF TimespecSecs, TimespecTicks, ToTimespecTicks, Ticks
  <2>2. CASE s = d.secs
    BY <1>0, <2>2, Widths DEF TimespecSecs, TimespecTicks, ToTimespecTicks, Ticks
  <2> QED BY <1>0, <1>1, <2>1, <2>2
<1>3. /\ x \in 0 .. NANOSECONDS_PER_SECOND - 1 /\ r \in 0 .. k - 1
      /\ t = k * x + r
  BY <1>1, WholeNanoseconds
<1>4. s \in Int /\ t \in Int /\ x \in Int /\ r \in Int
  BY <1>0, <1>1, <1>3, Widths
<1> HIDE DEF s, t, x, r, n
<1>5. /\ N \in Int
      /\ s * TICKS_PER_SECOND + t = k * N + r
      /\ N * k = s * TICKS_PER_SECOND + x * k
  BY <1>0, <1>3, <1>4, Widths DEF TICKS_PER_SECOND
<1> HIDE DEF N, k
<1>6. Quotient(n, k) = N
  <2>1. CASE d.secs >= 0
    <3>1. n = k * N + r
      BY <1>0, <1>2, <1>5, <2>1
    <3>2. n >= 0
      <4>1. 0 * TICKS_PER_SECOND <= s * TICKS_PER_SECOND
        BY <1>0, <1>1, <1>4, <2>1, Widths, TimesMonotonic
      <4> QED BY <1>0, <1>1, <1>2, <1>4, <2>1, <4>1, Widths
    <3>3. n \div k = N
      BY <1>0, <1>3, <1>5, <3>1, DivisionUnique
    <3> QED BY <1>0, <3>2, <3>3 DEF Quotient
  <2>2. CASE d.secs < 0
    <3>1. n + k - 1 = k * N + r
      BY <1>0, <1>2, <1>5, <2>2
    <3>2. n < 0
      <4>1. d.secs * TICKS_PER_SECOND + d.ticks < 0 * TICKS_PER_SECOND
        BY <1>0, <2>2, SecondsDecide
      <4> QED BY <4>1, Widths DEF Ticks, n
    <3>3. -n = k * (-N) + (k - 1 - r) /\ k - 1 - r \in 0 .. k - 1
      <4>1. k * (-N) = -(k * N) /\ k * N \in Int
        BY <1>0, <1>5
      <4> QED BY <1>0, <1>3, <1>4, <3>1, <4>1
    <3>4. (k * (-N) + (k - 1 - r)) \div k = -N
      <4>1. -N \in Int /\ k \in Nat \ {0}
        BY <1>0, <1>5
      <4> QED BY <3>3, <4>1, DivisionUnique
    <3>5. (-n) \div k = -N
      BY <3>3, <3>4
    <3> QED BY <1>0, <1>5, <3>2, <3>5 DEF Quotient
  <2> QED BY <1>0, <2>1, <2>2
<1>7. Truncated(n) = s * TICKS_PER_SECOND + x * k
  BY <1>5, <1>6 DEF Truncated, k
<1> QED BY <1>1, <1>7 DEF s, t, x, n, k

\* The timespec of a duration is read back as the duration's whole nanoseconds,
\* or as the nearest limit of a timespec.
LEMMA TimespecCorrect ==
  ASSUME NEW d \in Durations
  PROVE  LET ts == duration_to_timespec(d)
             back == duration_from_timespec(ts)
         IN  /\ ts.tv_sec \in Time
             /\ ts.tv_nsec \in 0 .. NANOSECONDS_PER_SECOND - 1
             /\ back \in FiniteDurations
             /\ Value(back) = InTimespec(Value(d))
<1> DEFINE s == TimespecSecs(d)
           x == TimespecTicks(d) \div TICKS_PER_NANOSECOND
           k == TICKS_PER_NANOSECOND
           last == NANOSECONDS_PER_SECOND - 1
<1>1. /\ TIME_MIN \in Time /\ TIME_MAX \in Time /\ TIME_MIN <= 0 /\ 0 <= TIME_MAX
      /\ TIME_MIN \in Int /\ TIME_MAX \in Int
      /\ I64_MIN <= TIME_MIN /\ TIME_MAX <= I64_MAX /\ last \in 0 .. last /\ 0 \in 0 .. last
  BY Widths DEF Time, TIME_MIN
\* A timespec with a time_t and whole nanoseconds is read as it is.
<1>2. ASSUME NEW sec \in Time, NEW nsec \in 0 .. last
      PROVE  LET back == duration_from_timespec(Timespec(sec, nsec))
             IN  /\ back \in FiniteDurations
                 /\ Value(back) = sec * TICKS_PER_SECOND + nsec * k
  <2>1. nsec * k \in 0 .. TICKS_PER_SECOND - 1
    BY NanosecondTicks
  <2>2. duration_from_timespec(Timespec(sec, nsec)) = [secs |-> sec, ticks |-> nsec * k]
    BY <2>1, Widths, Wrapping32
       DEF duration_from_timespec, Timespec, make_duration
  <2>3. [secs |-> sec, ticks |-> nsec * k] \in FiniteDurations
    BY <1>1, <2>1, Widths DEF FiniteDurations, I64, Time
  <2> QED BY <2>2, <2>3, FiniteValue DEF Ticks
<1>3. LowestTimespec \in Int /\ HighestTimespec \in Int /\ LowestTimespec <= HighestTimespec
  <2>1. /\ TIME_MIN * TICKS_PER_SECOND <= TIME_MAX * TICKS_PER_SECOND
        /\ 0 * k <= last * k
    BY <1>1, Widths, TimesMonotonic
  <2> QED BY <1>1, <2>1, Widths DEF LowestTimespec, HighestTimespec
<1>4. CASE d \in FiniteDurations
  <2>1. /\ d.secs \in Int /\ ~duration_is_inf(d) /\ Value(d) = Ticks(d)
        /\ s \in Int
        /\ d.secs >= 0 => s = d.secs
        /\ d.secs < 0 => s <= 0
        /\ x \in 0 .. last
        /\ Truncated(Ticks(d)) = s * TICKS_PER_SECOND + x * k
    BY <1>4, FiniteValue, Raised, WholeNanoseconds
  <2>2. duration_to_timespec(d) =
          IF time_t(s) # s
          THEN IF d.secs < 0 THEN Timespec(TIME_MIN, 0) ELSE Timespec(TIME_MAX, last)
          ELSE Timespec(s, x)
    BY <2>1 DEF duration_to_timespec, TimespecSecs, TimespecTicks, duration_is_neg
  <2>3. x * k \in 0 .. TICKS_PER_SECOND - 1 /\ x * k <= last * k
    BY <2>1, NanosecondTicks
  <2> HIDE DEF s, x
  <2>4. CASE s \in Time
    <3>1. duration_to_timespec(d) = Timespec(s, x)
      BY <2>2, <2>1, <2>4, NarrowTime
    <3>2. /\ LowestTimespec <= Truncated(Ticks(d))
          /\ Truncated(Ticks(d)) <= HighestTimespec
      <4>1. /\ TIME_MIN * TICKS_PER_SECOND <= s * TICKS_PER_SECOND
            /\ s * TICKS_PER_SECOND <= TIME_MAX * TICKS_PER_SECOND
        BY <1>1, <2>1, <2>4, Widths, TimesMonotonic DEF Time
      <4> QED BY <1>1, <2>1, <2>3, <4>1, Widths DEF LowestTimespec, HighestTimespec
    <3>3. InTimespec(Ticks(d)) = s * TICKS_PER_SECOND + x * k
      BY <1>3, <2>1, <2>3, <3>2, Widths DEF InTimespec
    <3>4. Timespec(s, x).tv_sec = s /\ Timespec(s, x).tv_nsec = x
      BY DEF Timespec
    <3> QED BY <1>2, <2>1, <2>4, <3>1, <3>3, <3>4
  <2>5. CASE s > TIME_MAX
    <3>1. duration_to_timespec(d) = Timespec(TIME_MAX, last)
      BY <1>1, <2>1, <2>2, <2>5, NarrowTime DEF Time
    <3>2. (TIME_MAX + 1) * TICKS_PER_SECOND <= s * TICKS_PER_SECOND
      BY <1>1, <2>1, <2>5, Widths, TimesMonotonic
    <3>3. Truncated(Ticks(d)) > HighestTimespec
      <4>1. (TIME_MAX + 1) * TICKS_PER_SECOND = TIME_MAX * TICKS_PER_SECOND + TICKS_PER_SECOND
        BY <1>1, Widths
      <4>2. last * k = TICKS_PER_SECOND - k
        BY <1>1, NanosecondTicks
      <4> QED BY <1>1, <2>1, <2>3, <3>2, <4>1, <4>2, Widths DEF HighestTimespec
    <3>4. InTimespec(Ticks(d)) = TIME_MAX * TICKS_PER_SECOND + last * k
      BY <3>3 DEF InTimespec, HighestTimespec
    <3>5. Timespec(TIME_MAX, last).tv_sec = TIME_MAX /\ Timespec(TIME_MAX, last).tv_nsec = last
      BY DEF Timespec
    <3> QED BY <1>1, <1>2, <2>1, <3>1, <3>4, <3>5
  <2>6. CASE s < TIME_MIN
    <3>1. duration_to_timespec(d) = Timespec(TIME_MIN, 0)
      BY <1>1, <2>1, <2>2, <2>6, NarrowTime DEF Time
    <3>2. Truncated(Ticks(d)) < LowestTimespec
      BY <1>1, <2>1, <2>3, <2>6, SecondsDecide DEF LowestTimespec
    <3>3. InTimespec(Ticks(d)) = TIME_MIN * TICKS_PER_SECOND + 0 * k
      <4>1. ~(Truncated(Ticks(d)) > HighestTimespec)
        BY <1>3, <2>1, <2>3, <3>2, Widths
      <4> QED BY <1>1, <3>2, <4>1, Widths DEF InTimespec, LowestTimespec
    <3>4. Timespec(TIME_MIN, 0).tv_sec = TIME_MIN /\ Timespec(TIME_MIN, 0).tv_nsec = 0
      BY DEF Timespec
    <3> QED BY <1>1, <1>2, <2>1, <3>1, <3>3, <3>4
  <2> QED BY <1>1, <2>1, <2>4, <2>5, <2>6 DEF Time
<1>5. CASE d = DURATION_INF
  <2>1. duration_to_timespec(d) = Timespec(TIME_MAX, last)
    <3>1. duration_is_inf(d) /\ ~duration_is_neg(d)
      BY <1>5, InfiniteValue, Widths DEF duration_is_neg, DURATION_INF
    <3> QED BY <3>1 DEF duration_to_timespec
  <2>2. Infinity = (I64_MAX + 1) * TICKS_PER_SECOND
    BY Widths DEF Infinity, Highest
  <2>3. Truncated(Infinity) = Infinity
    <3>1. Infinity = ((I64_MAX + 1) * NANOSECONDS_PER_SECOND) * k
      BY <2>2, Widths DEF TICKS_PER_SECOND
    <3>2. (I64_MAX + 1) * NANOSECONDS_PER_SECOND \in Int
      BY Widths
    <3> QED BY <3>1, <3>2, Widths, CDivisionExact DEF Truncated
  <2>4. Truncated(Infinity) > HighestTimespec
    <3>1. (TIME_MAX + 1) * TICKS_PER_SECOND <= (I64_MAX + 1) * TICKS_PER_SECOND
      BY <1>1, Widths, TimesMonotonic
    <3>2. (TIME_MAX + 1) * TICKS_PER_SECOND = TIME_MAX * TICKS_PER_SECOND + TICKS_PER_SECOND
      BY <1>1, Widths
    <3>3. last * k = TICKS_PER_SECOND - k
      BY <1>1, NanosecondTicks
    <3> QED BY <1>1, <2>2, <2>3, <3>1, <3>2, <3>3, Widths DEF HighestTimespec
  <2>5. InTimespec(Infinity) = TIME_MAX * TICKS_PER_SECOND + last * k
    BY <2>4 DEF InTimespec, HighestTimespec
  <2>6. Timespec(TIME_MAX, last).tv_sec = TIME_MAX /\ Timespec(TIME_MAX, last).tv_nsec = last
    BY DEF Timespec
  <2> QED BY <1>1, <1>2, <1>5, <2>1, <2>5, <2>6, InfiniteValue
<1>6. CASE d = DURATION_NEG_INF
  <2>1. duration_to_timespec(d) = Timespec(TIME_MIN, 0)
    <3>1. duration_is_inf(d) /\ duration_is_neg(d)
      BY <1>6, InfiniteValue DEF duration_is_neg
    <3> QED BY <3>1 DEF duration_to_timespec
  <2>2. NegInfinity = I64_MIN * TICKS_PER_SECOND - 1
    BY DEF NegInfinity, Lowest
  <2>3. I64_MIN * TICKS_PER_SECOND \in Int /\ I64_MIN * TICKS_PER_SECOND <= LowestTimespec
    BY <1>1, Widths, TimesMonotonic DEF LowestTimespec
  \* Truncated, it is at most its successor, a whole number of nanoseconds.
  <2>4. Truncated(NegInfinity) \in Int /\ Truncated(NegInfinity) <= I64_MIN * TICKS_PER_SECOND
    <3> DEFINE q == Quotient(NegInfinity, k)
               r == Remainder(NegInfinity, k)
               m == I64_MIN * NANOSECONDS_PER_SECOND
    <3>0. k \in Nat \ {0} /\ NegInfinity \in Int /\ NegInfinity < 0 /\ m \in Int
      BY Bounds, Widths DEF NegInfinity
    <3>1. q \in Int /\ r \in -(k - 1) .. 0 /\ NegInfinity = k * q + r
      BY <3>0, CDivision
    <3>2. NegInfinity = m * k - 1
      BY <2>2, <3>0, Widths DEF TICKS_PER_SECOND
    <3> HIDE DEF q, r, m, k
    <3>3. ASSUME q >= m + 1 PROVE FALSE
      <4>1. (m + 1) * k <= q * k
        BY <3>0, <3>1, <3>3, TimesMonotonic
      <4> QED BY <3>0, <3>1, <3>2, <4>1
    <3>4. q * k <= m * k
      BY <3>0, <3>1, <3>3, TimesMonotonic
    <3>5. m * k = I64_MIN * TICKS_PER_SECOND
      BY Widths DEF m, k, TICKS_PER_SECOND
    <3>6. q * k \in Int
      BY <3>0, <3>1
    <3> QED BY <3>4, <3>5, <3>6 DEF Truncated, q, k
  <2>5. InTimespec(NegInfinity) = TIME_MIN * TICKS_PER_SECOND + 0 * k
    <3>1. InTimespec(NegInfinity) = LowestTimespec
      BY <1>3, <2>3, <2>4 DEF InTimespec
    <3> QED BY <3>1, <1>1, Widths DEF LowestTimespec
  <2>6. Timespec(TIME_MIN, 0).tv_sec = TIME_MIN /\ Timespec(TIME_MIN, 0).tv_nsec = 0
    BY DEF Timespec
  <2> QED BY <1>1, <1>2, <1>6, <2>1, <2>5, <2>6, InfiniteValue
<1> QED BY <1>4, <1>5, <1>6, Kinds

(***************************************************************************)
(* Order                                                                   *)
(***************************************************************************)

\* The values are between the infinities, and only the infinite durations
\* stand for those.
LEMMA ValueRange ==
  ASSUME NEW d \in Durations
  PROVE  /\ Value(d) \in NegInfinity .. Infinity
         /\ d \in FiniteDurations => NegInfinity < Value(d) /\ Value(d) < Infinity
<1>1. NegInfinity < Lowest /\ Highest < Infinity /\ NegInfinity < Infinity
  BY Bounds DEF Infinity, NegInfinity
<1>2. d \in FiniteDurations => Value(d) \in Lowest .. Highest
  BY FiniteValue
<1> QED BY <1>1, <1>2, Bounds, Kinds, InfiniteValue

\* Two finite durations are compared by their seconds first, and wrapping the
\* incremented ticks changes nothing for them.
LEMMA FiniteOrder ==
  ASSUME NEW l \in FiniteDurations, NEW r \in FiniteDurations
  PROVE  /\ duration_lt(l, r) <=> Value(l) < Value(r)
         /\ duration_eq(l, r) <=> Value(l) = Value(r)
<1>1. /\ l.secs \in Int /\ r.secs \in Int
      /\ l.ticks \in 0 .. TICKS_PER_SECOND - 1
      /\ r.ticks \in 0 .. TICKS_PER_SECOND - 1
      /\ Value(l) = l.secs * TICKS_PER_SECOND + l.ticks
      /\ Value(r) = r.secs * TICKS_PER_SECOND + r.ticks
      /\ Value(l) \in Int /\ Value(r) \in Int
  BY FiniteValue, Bounds DEF Ticks
<1>2. u32(l.ticks + 1) = l.ticks + 1 /\ u32(r.ticks + 1) = r.ticks + 1
  BY <1>1, Widths, Wrapping32
<1>3. CASE l.secs < r.secs
  <2>1. Value(l) < r.secs * TICKS_PER_SECOND /\ Value(r) >= r.secs * TICKS_PER_SECOND
    BY <1>1, <1>3, SecondsDecide
  <2>2. Value(l) < Value(r)
    BY <1>1, <2>1, Widths
  <2> QED BY <1>1, <1>3, <2>2 DEF duration_lt, duration_eq
<1>4. CASE r.secs < l.secs
  <2>1. Value(r) < l.secs * TICKS_PER_SECOND /\ Value(l) >= l.secs * TICKS_PER_SECOND
    BY <1>1, <1>4, SecondsDecide
  <2>2. Value(r) < Value(l)
    BY <1>1, <2>1, Widths
  <2> QED BY <1>1, <1>4, <2>2 DEF duration_lt, duration_eq
<1>5. CASE l.secs = r.secs
  <2>1. Value(l) - Value(r) = l.ticks - r.ticks
    BY <1>1, <1>5, Widths
  <2>2. /\ Value(l) < Value(r) <=> l.ticks < r.ticks
        /\ Value(l) = Value(r) <=> l.ticks = r.ticks
    <3>1. l.ticks \in Int /\ r.ticks \in Int
      BY <1>1, Widths
    <3> QED BY <1>1, <2>1, <3>1
  <2>3. /\ duration_lt(l, r) <=> l.ticks < r.ticks
        /\ duration_eq(l, r) <=> l.ticks = r.ticks
    <3>1. l.ticks + 1 < r.ticks + 1 <=> l.ticks < r.ticks
      BY <1>1, Widths
    <3> QED BY <1>2, <1>5, <3>1 DEF duration_lt, duration_eq
  <2> QED BY <2>2, <2>3
<1>6. l.secs < r.secs \/ r.secs < l.secs \/ l.secs = r.secs
  BY <1>1
<1> QED BY <1>3, <1>4, <1>5, <1>6

\* Minus infinity has the least seconds, and ticks that wrap to 0.
LEMMA NegInfinityOrder ==
  ASSUME NEW d \in Durations
  PROVE  /\ duration_lt(DURATION_NEG_INF, d) <=> d # DURATION_NEG_INF
         /\ ~duration_lt(d, DURATION_NEG_INF)
         /\ duration_eq(d, DURATION_NEG_INF) <=> d = DURATION_NEG_INF
         /\ duration_eq(DURATION_NEG_INF, d) <=> d = DURATION_NEG_INF
<1>0. /\ DURATION_NEG_INF.secs = I64_MIN /\ DURATION_NEG_INF.ticks = U32_MAX
      /\ u32(U32_MAX + 1) = 0
      /\ I64_MIN \in Int /\ I64_MIN < I64_MAX
  BY Widths, Wrapping32 DEF DURATION_NEG_INF
<1>1. CASE d \in FiniteDurations
  <2>1. /\ d.secs \in Int /\ d.secs >= I64_MIN
        /\ d.ticks \in 0 .. TICKS_PER_SECOND - 1 /\ d.ticks < U32_MAX
    BY <1>1, FiniteValue, Widths DEF I64
  <2>2. u32(d.ticks + 1) = d.ticks + 1
    BY <2>1, Widths, Wrapping32
  <2> QED BY <1>0, <2>1, <2>2, Widths DEF duration_lt, duration_eq
<1>2. CASE d = DURATION_INF
  <2>1. d.secs = I64_MAX
    BY <1>2 DEF DURATION_INF
  <2> QED BY <1>0, <2>1, Widths DEF duration_lt, duration_eq
<1>3. CASE d = DURATION_NEG_INF
  BY <1>0, <1>3 DEF duration_lt, duration_eq
<1> QED BY <1>1, <1>2, <1>3, Kinds

\* Infinity has the greatest seconds, and ticks above all others.
LEMMA InfinityOrder ==
  ASSUME NEW d \in Durations, d # DURATION_NEG_INF
  PROVE  /\ duration_lt(d, DURATION_INF) <=> d # DURATION_INF
         /\ ~duration_lt(DURATION_INF, d)
         /\ duration_eq(d, DURATION_INF) <=> d = DURATION_INF
         /\ duration_eq(DURATION_INF, d) <=> d = DURATION_INF
<1>0. /\ DURATION_INF.secs = I64_MAX /\ DURATION_INF.ticks = U32_MAX
      /\ I64_MIN \in Int /\ I64_MIN < I64_MAX
  BY Widths DEF DURATION_INF
<1>1. CASE d \in FiniteDurations
  <2>1. /\ d.secs \in Int /\ d.secs <= I64_MAX
        /\ d.ticks \in 0 .. TICKS_PER_SECOND - 1 /\ d.ticks < U32_MAX
    BY <1>1, FiniteValue, Widths DEF I64
  <2> QED BY <1>0, <2>1, Widths DEF duration_lt, duration_eq
<1>2. CASE d = DURATION_INF
  BY <1>0, <1>2, Widths DEF duration_lt, duration_eq
<1> QED BY <1>1, <1>2, Kinds

LEMMA OrderCorrect ==
  ASSUME NEW l \in Durations, NEW r \in Durations
  PROVE  /\ duration_lt(l, r) <=> Value(l) < Value(r)
         /\ duration_eq(l, r) <=> Value(l) = Value(r)
<1>1. NegInfinity < Infinity /\ NegInfinity \in Int /\ Infinity \in Int
  BY Bounds DEF Infinity, NegInfinity
<1>2. CASE l = DURATION_NEG_INF \/ r = DURATION_NEG_INF
  BY <1>1, <1>2, NegInfinityOrder, ValueRange, InfiniteValue, Kinds
<1>3. CASE /\ l # DURATION_NEG_INF /\ r # DURATION_NEG_INF
           /\ (l = DURATION_INF \/ r = DURATION_INF)
  BY <1>1, <1>3, InfinityOrder, ValueRange, InfiniteValue, Kinds
<1>4. CASE l \in FiniteDurations /\ r \in FiniteDurations
  BY <1>4, FiniteOrder
<1>5. /\ l \in FiniteDurations \/ l = DURATION_INF \/ l = DURATION_NEG_INF
      /\ r \in FiniteDurations \/ r = DURATION_INF \/ r = DURATION_NEG_INF
  BY Kinds
<1> QED BY <1>2, <1>3, <1>4, <1>5

(***************************************************************************)
(* The client                                                              *)
(***************************************************************************)

\* The seconds of a unit, as a ratio for FromUnits and for the ticks.
LEMMA UnitRatios ==
  /\ NANOSECONDS_PER_SECOND % 1 = 0
  /\ NANOSECONDS_PER_SECOND % NANOSECONDS_PER_SECOND = 0
  /\ TICKS_PER_SECOND \div 1 = TICKS_PER_SECOND
  /\ TICKS_PER_SECOND \div NANOSECONDS_PER_SECOND = TICKS_PER_NANOSECOND
<1>1. /\ NANOSECONDS_PER_SECOND % 1 = 0
      /\ TICKS_PER_SECOND \div 1 = TICKS_PER_SECOND
  BY Widths
<1>2. ASSUME NEW b \in Nat \ {0} PROVE b % b = 0
  <2>1. (0 + b) % b = 0
    BY OneTurn
  <2> QED BY <2>1
<1>3. TICKS_PER_SECOND = NANOSECONDS_PER_SECOND * TICKS_PER_NANOSECOND + 0
  BY Widths DEF TICKS_PER_SECOND
<1>4. /\ TICKS_PER_NANOSECOND \in Int
      /\ 0 \in 0 .. NANOSECONDS_PER_SECOND - 1
  BY Widths
<1>5. TICKS_PER_SECOND \div NANOSECONDS_PER_SECOND = TICKS_PER_NANOSECOND
  BY <1>3, <1>4, Widths, DivisionUnique
<1> QED BY <1>1, <1>2, <1>5, Widths

\* The duration is one, and stands for the exact number.
IInv == acc \in Durations /\ Value(acc) = exact

LEMMA InitCorrect == Init => IInv
<1> SUFFICES ASSUME Init PROVE IInv
  OBVIOUS
<1>1. 0 \in I64
  BY Widths DEF I64
<1>2. acc \in FiniteDurations /\ Ticks(acc) = 0 * TICKS_PER_SECOND
  BY <1>1, UnitRatios, FromUnits DEF Init, duration_s
<1> QED BY <1>2, FiniteValue, Widths DEF Init, IInv, Durations

LEMMA MakeCorrect == Make => IInv'
<1> SUFFICES ASSUME Make PROVE IInv'
  OBVIOUS
\* from_i64 makes a finite duration of a number of units.
<1>1. ASSUME NEW n \in I64, NEW ratio \in Nat \ {0}, NANOSECONDS_PER_SECOND % ratio = 0
      PROVE  /\ from_i64(n, ratio) \in Durations
             /\ Value(from_i64(n, ratio)) = n * (TICKS_PER_SECOND \div ratio)
  BY <1>1, FromUnits, FiniteValue DEF Durations
<1>2. PICK n \in I64 : \/ MakeNanoseconds(n) \/ MakeMicroseconds(n) \/ MakeMilliseconds(n)
                       \/ MakeSeconds(n) \/ MakeMinutes(n) \/ MakeHours(n)
  BY DEF Make
<1>3. CASE MakeNanoseconds(n)
  BY <1>1, <1>3, UnitRatios, UnitAssumption DEF MakeNanoseconds, duration_ns, IInv
<1>4. CASE MakeMicroseconds(n)
  BY <1>1, <1>4, UnitAssumption DEF MakeMicroseconds, duration_us, IInv
<1>5. CASE MakeMilliseconds(n)
  BY <1>1, <1>5, UnitAssumption DEF MakeMilliseconds, duration_ms, IInv
<1>6. CASE MakeSeconds(n)
  BY <1>1, <1>6, UnitRatios DEF MakeSeconds, duration_s, IInv
<1>7. CASE MakeMinutes(n)
  BY <1>7, UnitAssumption, FromMultiple DEF MakeMinutes, duration_min, IInv
<1>8. CASE MakeHours(n)
  BY <1>8, UnitAssumption, FromMultiple DEF MakeHours, duration_h, IInv
<1> QED BY <1>2, <1>3, <1>4, <1>5, <1>6, <1>7, <1>8

LEMMA NextCorrect == IInv /\ [Next]_vars => IInv'
<1> SUFFICES ASSUME IInv, [Next]_vars PROVE IInv'
  OBVIOUS
<1>1. CASE Make
  BY <1>1, MakeCorrect
<1>2. ASSUME NEW d \in Durations, Add(d) PROVE IInv'
  BY <1>2, AddCorrect DEF Add, IInv
<1>3. ASSUME NEW d \in Durations, Sub(d) PROVE IInv'
  BY <1>3, SubCorrect DEF Sub, IInv
<1>4. CASE Negate
  BY <1>4, NegCorrect DEF Negate, IInv
<1>5. CASE ThroughTimespec
  BY <1>5, TimespecCorrect DEF ThroughTimespec, IInv, Durations
<1>6. CASE UNCHANGED vars
  BY <1>6 DEF vars, IInv
<1> QED BY <1>1, <1>2, <1>3, <1>4, <1>5, <1>6 DEF Next

LEMMA InvariantHolds == Spec => []IInv
  BY InitCorrect, NextCorrect, PTL DEF Spec

\* The duration of the code stays one of the durations the type allows, ticks
\* below a second or an infinity, and the exact number within the infinities.
THEOREM TypeCorrect == Spec => []TypeOK
<1>1. IInv => TypeOK
  BY ValueRange DEF IInv, TypeOK
<1> QED BY <1>1, InvariantHolds, PTL

\* Whatever a client computes with rbc_duration_ns ... _h, _add, _sub, _neg and
\* through a timespec is exact: overflow is an infinity of the right sign, and
\* nothing else is.
THEOREM ExactArithmetic == Spec => []Exact
<1>1. IInv => Exact
  BY DEF IInv, Exact
<1> QED BY <1>1, InvariantHolds, PTL

\* The six comparisons order every computed duration and every other duration
\* as the numbers they stand for, the infinities included.
THEOREM OrderIsExact == Spec => []OrderAgrees
<1>1. IInv => OrderAgrees
  <2> SUFFICES ASSUME IInv, NEW d \in Durations
               PROVE  /\ duration_lt(acc, d) <=> Value(acc) < Value(d)
                      /\ duration_gt(acc, d) <=> Value(acc) > Value(d)
                      /\ duration_le(acc, d) <=> Value(acc) <= Value(d)
                      /\ duration_ge(acc, d) <=> Value(acc) >= Value(d)
                      /\ duration_eq(acc, d) <=> Value(acc) = Value(d)
                      /\ duration_ne(acc, d) <=> Value(acc) # Value(d)
    BY DEF OrderAgrees
  <2>1. /\ duration_lt(acc, d) <=> Value(acc) < Value(d)
        /\ duration_lt(d, acc) <=> Value(d) < Value(acc)
        /\ duration_eq(acc, d) <=> Value(acc) = Value(d)
    BY OrderCorrect DEF IInv
  <2>2. Value(acc) \in Int /\ Value(d) \in Int
    BY ValueRange, Bounds DEF IInv
  <2> QED BY <2>1, <2>2 DEF duration_gt, duration_le, duration_ge, duration_ne
<1> QED BY <1>1, InvariantHolds, PTL

\* The timespec of a computed duration always has nanoseconds below a second
\* and seconds that fit.
THEOREM TimespecsValid == Spec => []TimespecValid
<1>1. IInv => TimespecValid
  BY TimespecCorrect DEF IInv, TimespecValid
<1> QED BY <1>1, InvariantHolds, PTL

(***************************************************************************)
(* Conversions to numbers of units                                         *)
(***************************************************************************)

\* A unit that divides a second, in ticks.
LEMMA UnitTicks ==
  ASSUME NEW units \in Nat \ {0}, NANOSECONDS_PER_SECOND % units = 0
  PROVE  TICKS_PER_NANOSECOND * (NANOSECONDS_PER_SECOND \div units)
           = TICKS_PER_SECOND \div units
<1> DEFINE j == NANOSECONDS_PER_SECOND \div units
<1>1. j \in Nat /\ NANOSECONDS_PER_SECOND = units * j + 0
  BY Widths, Division
<1> HIDE DEF j
<1>2. TICKS_PER_SECOND = units * (TICKS_PER_NANOSECOND * j) + 0
  BY <1>1, Widths DEF TICKS_PER_SECOND
<1>3. TICKS_PER_NANOSECOND * j \in Int /\ 0 \in 0 .. units - 1
  BY <1>1, Widths
<1>4. (units * (TICKS_PER_NANOSECOND * j) + 0) \div units = TICKS_PER_NANOSECOND * j
  BY <1>3, DivisionUnique
<1> QED BY <1>2, <1>4 DEF j

LEMMA ToUnitsCorrect ==
  ASSUME NEW d \in FiniteDurations,
         NEW units \in Nat \ {0}, NANOSECONDS_PER_SECOND % units = 0,
         Ticks(d) \div (TICKS_PER_SECOND \div units) \in I64
  PROVE  ToUnits(d, units) = Ticks(d) \div (TICKS_PER_SECOND \div units)
<1> DEFINE k == TICKS_PER_SECOND \div units
           s == d.secs
           t == d.ticks
           q == t \div k
           r == t % k
<1>1. k \in Nat \ {0} /\ TICKS_PER_SECOND = k * units
  BY UnitDivides
<1>2. s \in Int /\ t \in Nat /\ ~duration_is_inf(d)
  BY FiniteValue, Widths
<1>3. k = TICKS_PER_NANOSECOND * (NANOSECONDS_PER_SECOND \div units)
  BY UnitTicks
<1>4. Ticks(d) = s * TICKS_PER_SECOND + t
  BY DEF Ticks
<1>5. ToUnits(d, units) = i64(s * units + q)
  BY <1>2, <1>3 DEF ToUnits
<1>9. Ticks(d) \div k \in I64
  OBVIOUS
<1> HIDE DEF k
<1>6. q \in Nat /\ r \in 0 .. k - 1 /\ t = k * q + r
  BY <1>1, <1>2, Division
<1> HIDE DEF s, t, q, r
<1>7. Ticks(d) = k * (s * units + q) + r /\ s * units + q \in Int
  BY <1>1, <1>2, <1>4, <1>6
<1>8. Ticks(d) \div k = s * units + q
  BY <1>1, <1>6, <1>7, DivisionUnique
<1> QED BY <1>5, <1>7, <1>8, <1>9, Wrapping DEF k

LEMMA ToSecondsCorrect ==
  ASSUME NEW d \in FiniteDurations
  PROVE  duration_to_s(d) = Quotient(Ticks(d), TICKS_PER_SECOND)
<1> DEFINE T == TICKS_PER_SECOND
           s == d.secs
           t == d.ticks
<1>1. T \in Nat \ {0} /\ s \in Int /\ t \in 0 .. T - 1 /\ ~duration_is_inf(d)
  BY FiniteValue, Widths
<1>2. Ticks(d) = s * T + t
  BY DEF Ticks
<1>3. s < 0 <=> s * T + t < 0
  BY <1>1, SecondsDecide
<1>4. duration_to_s(d) = s + (IF s < 0 /\ t # 0 THEN 1 ELSE 0)
  BY <1>1 DEF duration_to_s
<1> HIDE DEF T, s, t
<1>5. CASE s >= 0
  <2>1. (T * s + t) \div T = s
    BY <1>1, DivisionUnique
  <2> QED BY <1>1, <1>2, <1>3, <1>4, <1>5, <2>1 DEF Quotient, T
<1>6. CASE s < 0 /\ t = 0
  <2>1. (T * (-s) + 0) \div T = -s
    BY <1>1, DivisionUnique
  <2>2. -(s * T + t) = T * (-s) + 0
    BY <1>1, <1>6
  <2> QED BY <1>1, <1>2, <1>3, <1>4, <1>6, <2>1, <2>2 DEF Quotient, T
<1>7. CASE s < 0 /\ t # 0
  <2>1. (T * (-s - 1) + (T - t)) \div T = -s - 1
    BY <1>1, <1>7, DivisionUnique
  <2>2. -(s * T + t) = T * (-s - 1) + (T - t)
    BY <1>1
  <2>3. Quotient(Ticks(d), T) = -(-s - 1)
    BY <1>2, <1>3, <1>7, <2>1, <2>2 DEF Quotient
  <2> QED BY <1>1, <1>4, <1>7, <2>3 DEF T
<1> QED BY <1>1, <1>5, <1>6, <1>7

\* Dividing twice divides by the product.
LEMMA DivisionTwice ==
  ASSUME NEW a \in Nat, NEW b \in Nat \ {0}, NEW c \in Nat \ {0}
  PROVE  (a \div b) \div c = a \div (c * b)
<1> DEFINE q == a \div b
           r == a % b
           p == q \div c
           w == q % c
<1>1. q \in Nat /\ r \in 0 .. b - 1 /\ a = b * q + r
  BY Division
<1> HIDE DEF q, r
<1>2. p \in Nat /\ w \in 0 .. c - 1 /\ q = c * p + w
  BY <1>1, Division
<1> HIDE DEF p, w
<1>3. a = (c * b) * p + (w * b + r)
  BY <1>1, <1>2
<1>4. w * b + r \in 0 .. c * b - 1 /\ c * b \in Nat \ {0}
  <2>1. w * b <= (c - 1) * b /\ 0 * b <= w * b
    BY <1>2, TimesMonotonic
  <2>2. (c - 1) * b = c * b - b /\ w * b \in Int /\ c * b \in Nat \ {0}
    BY <1>2
  <2> QED BY <1>1, <1>2, <2>1, <2>2
<1>5. a \div (c * b) = p
  <2> DEFINE u == c * b
             v == w * b + r
  <2>1. u \in Nat \ {0} /\ v \in 0 .. u - 1 /\ p \in Int /\ a = u * p + v
    BY <1>2, <1>3, <1>4
  <2> HIDE DEF u, v
  <2> QED BY <2>1, DivisionUnique DEF u
<1> QED BY <1>5 DEF p, q

LEMMA QuotientTwice ==
  ASSUME NEW a \in Int, NEW b \in Nat \ {0}, NEW c \in Nat \ {0}
  PROVE  Quotient(Quotient(a, b), c) = Quotient(a, c * b)
<1>1. CASE a >= 0
  <2>1. a \div b \in Nat
    BY <1>1, Division
  <2> QED BY <1>1, <2>1, DivisionTwice DEF Quotient
<1>2. CASE a < 0
  <2> DEFINE m == -a
             q == m \div b
  <2>0. m \in Nat
    BY <1>2
  <2> HIDE DEF m
  <2>1. q \in Nat /\ q \div c = m \div (c * b)
    BY <2>0, Division, DivisionTwice
  <2>2. Quotient(a, b) = -q /\ Quotient(a, c * b) = -(q \div c)
    BY <1>2, <2>1 DEF Quotient, m
  <2> HIDE DEF q
  <2>3. Quotient(-q, c) = -(q \div c)
    <3>1. CASE q = 0
      <4>1. 0 \div c = 0
        BY DivisionUnique
      <4> QED BY <3>1, <4>1 DEF Quotient
    <3>2. CASE q > 0
      BY <2>1, <3>2 DEF Quotient
    <3> QED BY <2>1, <3>1, <3>2
  <2> QED BY <2>2, <2>3
<1> QED BY <1>1, <1>2

\* The conversions of a computed duration to numbers of units round down for
\* the units below the second, wherever the number of them fits, and towards
\* zero from the second on; those of an infinity are the end of the type.
THEOREM UnitsAreExact == Spec => []UnitsAgree
<1>1. ASSUME IInv PROVE UnitsAgree
  <2>1. acc \in Durations /\ exact = Value(acc)
    BY <1>1 DEF IInv
  <2>2. CASE acc \in FiniteDurations
    <3>1. exact = Ticks(acc) /\ ~Infinite(exact) /\ Ticks(acc) \in Int
          /\ ~duration_is_inf(acc)
      BY <2>1, <2>2, FiniteValue, Bounds
    <3>2. ASSUME NEW units \in {NANOSECONDS_PER_SECOND, MICROSECONDS_PER_SECOND,
                                MILLISECONDS_PER_SECOND},
                 exact \div (TICKS_PER_SECOND \div units) \in I64
          PROVE  ToUnits(acc, units) = exact \div (TICKS_PER_SECOND \div units)
      <4>1. units \in Nat \ {0} /\ NANOSECONDS_PER_SECOND % units = 0
        BY UnitAssumption, UnitRatios
      <4> QED BY <2>2, <3>1, <3>2, <4>1, ToUnitsCorrect
    <3>3. /\ duration_to_s(acc) = Quotient(exact, TICKS_PER_SECOND)
          /\ duration_to_min(acc) = Quotient(exact, SECONDS_PER_MINUTE * TICKS_PER_SECOND)
          /\ duration_to_h(acc) = Quotient(exact, SECONDS_PER_HOUR * TICKS_PER_SECOND)
      BY <2>2, <3>1, ToSecondsCorrect, QuotientTwice, Widths, UnitAssumption
      DEF duration_to_min, duration_to_h, ToMultiple
    <3> QED BY <3>1, <3>2, <3>3 DEF UnitsAgree
  <2>3. CASE acc \in {DURATION_INF, DURATION_NEG_INF}
    <3>1. /\ Infinity # NegInfinity /\ Infinite(exact) /\ duration_is_inf(acc)
          /\ acc.secs = IF exact = Infinity THEN I64_MAX ELSE I64_MIN
      BY <2>1, <2>3, InfiniteValue, Bounds
      DEF Infinity, NegInfinity, Infinite, DURATION_INF, DURATION_NEG_INF
    <3>2. /\ duration_to_s(acc) = acc.secs
          /\ duration_to_ms(acc) = acc.secs
          /\ duration_to_h(acc) = acc.secs
      BY <3>1 DEF duration_to_s, duration_to_ms, duration_to_h, ToUnits, ToMultiple
    <3> QED BY <3>1, <3>2 DEF UnitsAgree
  <2> QED BY <2>1, <2>2, <2>3, Kinds
<1> QED BY <1>1, InvariantHolds, PTL

-----------------------------------------------------------------------------
(***************************************************************************)
(* The calls that wait for a time wait it out, for any timeouts: the       *)
(* exactness of the durations carried through the conversions on the way to *)
(* the system.                                                             *)
(***************************************************************************)

\* A nanosecond and a millisecond in ticks, and a millisecond in nanoseconds.
K == TICKS_PER_NANOSECOND
MS == TICKS_PER_SECOND \div MILLISECONDS_PER_SECOND
NM == NANOSECONDS_PER_SECOND \div MILLISECONDS_PER_SECOND

\* A factor that is not zero cancels.
LEMMA Cancel ==
  ASSUME NEW a \in Nat, NEW b \in Nat, NEW c \in Nat \ {0}, a * c = b * c
  PROVE  a = b
<1>1. ASSUME NEW m \in Nat, NEW n \in Nat, m < n PROVE m * c < n * c
  <2>1. (m + 1) * c <= n * c
    BY <1>1, TimesMonotonic
  <2> QED BY <1>1, <2>1
<1>2. ~(a < b) /\ ~(b < a)
  <2> SUFFICES ASSUME a < b \/ b < a PROVE FALSE
    OBVIOUS
  <2> QED BY <1>1
<1> QED BY <1>2

LEMMA Units ==
  /\ K \in Nat \ {0} /\ NANOSECONDS_PER_SECOND \in Nat \ {0}
  /\ TICKS_PER_SECOND = NANOSECONDS_PER_SECOND * K
  /\ MILLISECONDS_PER_SECOND \in Nat \ {0}
  /\ NM \in Nat \ {0} /\ NANOSECONDS_PER_SECOND = NM * MILLISECONDS_PER_SECOND
  /\ MS \in Nat \ {0} /\ TICKS_PER_SECOND = MS * MILLISECONDS_PER_SECOND
  /\ MS = NM * K
<1> DEFINE m == MILLISECONDS_PER_SECOND
           n == NANOSECONDS_PER_SECOND
<1>1. /\ K \in Nat \ {0} /\ n \in Nat \ {0}
      /\ TICKS_PER_SECOND \in Nat \ {0}
      /\ TICKS_PER_SECOND = n * K
  BY Widths DEF K, TICKS_PER_SECOND
<1>2. m \in Nat \ {0} /\ n % m = 0
  BY UnitAssumption
<1>3. MS \in Nat \ {0} /\ TICKS_PER_SECOND = MS * m
  BY <1>2, UnitDivides DEF MS
<1>4. NM \in Nat /\ n = NM * m
  BY <1>1, <1>2, Division DEF NM
<1>5. NM # 0
  BY <1>1, <1>2, <1>4
<1>6. n * K = (NM * K) * m
  BY <1>1, <1>2, <1>4
<1>7. MS * m = (NM * K) * m
  BY <1>1, <1>3, <1>6
<1>8. MS = NM * K
  <2>1. NM * K \in Nat
    BY <1>1, <1>4
  <2> QED BY <2>1, <1>2, <1>3, <1>7, Cancel
<1> QED BY <1>1, <1>2, <1>3, <1>4, <1>5, <1>8

-----------------------------------------------------------------------------
(***************************************************************************)
(* Times                                                                   *)
(***************************************************************************)
\* The time read from the clock is the clock's.
LEMMA NowCorrect ==
  ASSUME clock \in 0 .. MaxClock
  PROVE  /\ time_now \in FiniteDurations
         /\ Value(time_now) = clock * K
         /\ clock * K \in Nat
<1> DEFINE n == NANOSECONDS_PER_SECOND
           x == clock \div n
           y == clock % n
<1>1. /\ K \in Nat \ {0} /\ n \in Nat \ {0} /\ TICKS_PER_SECOND = n * K
      /\ MaxClock \in Nat /\ TIME_MAX \in Nat /\ I64_MAX \in Nat
      /\ TIME_MAX <= I64_MAX /\ I64_MIN = -I64_MAX - 1
      /\ MaxClock < TIME_MAX * n
  BY Units, Widths, TimeoutAssumption
<1>2. x \in Nat /\ y \in 0 .. n - 1 /\ clock = n * x + y /\ clock \in Nat
  <2>1. clock \in Nat
    BY <1>1
  <2> QED BY <1>1, <2>1, Division
<1>3. x < TIME_MAX
  <2> HIDE DEF x, y
  <2>1. x * n <= clock /\ clock < TIME_MAX * n
    BY <1>1, <1>2
  <2> SUFFICES ASSUME x >= TIME_MAX PROVE FALSE
    BY <1>1, <1>2
  <2>2. TIME_MAX * n <= x * n
    BY <1>1, <1>2, TimesMonotonic
  <2> QED BY <1>1, <1>2, <2>1, <2>2
<1>4. x \in I64
  BY <1>1, <1>2, <1>3 DEF I64
<1>5. y * K \in 0 .. TICKS_PER_SECOND - 1
  BY <1>2, NanosecondTicks DEF K
<1>6. u32(y * K) = y * K
  BY <1>1, <1>5, Wrapping32, Widths
<1>7. time_now = [secs |-> x, ticks |-> y * K]
  BY <1>2, <1>6, <1>1 DEF time_now, timespec_get, Timespec, duration_from_timespec,
                      make_duration, K
<1>8. time_now \in FiniteDurations
  BY <1>4, <1>5, <1>7 DEF FiniteDurations
<1>9. Value(time_now) = x * TICKS_PER_SECOND + y * K
  BY <1>7, <1>8, FiniteValue DEF Ticks
<1>10. x * (n * K) + y * K = clock * K
  <2> HIDE DEF x, y
  <2> QED BY <1>1, <1>2
<1>11. clock * K \in Nat
  BY <1>1, <1>2
<1> QED BY <1>1, <1>8, <1>9, <1>10, <1>11

\* What the ticks a caller asks for are, and their sign.
LEMMA TicksAsked ==
  ASSUME NEW d \in Durations
  PROVE  /\ TicksOf(d) \in Int
         /\ Value(d) \in Int
         /\ d.secs \in Int
         /\ d.secs < 0 <=> Value(d) < 0
         /\ \/ d \in FiniteDurations /\ TicksOf(d) = Value(d) /\ ~Infinite(Value(d))
                 /\ Value(d) \in Lowest .. Highest
            \/ d = DURATION_INF /\ Value(d) = Infinity
            \/ d = DURATION_NEG_INF /\ Value(d) = NegInfinity /\ TicksOf(d) < 0
<1> USE Widths, Bounds
<1>0. Forever * TICKS_PER_NANOSECOND \in Int
  BY TimeoutAssumption DEF Forever
<1>1. CASE d \in FiniteDurations
  <2>1. /\ d.secs \in Int /\ d.ticks \in 0 .. TICKS_PER_SECOND - 1
        /\ ~duration_is_inf(d) /\ Value(d) = Ticks(d) /\ ~Infinite(Value(d))
        /\ Value(d) \in Lowest .. Highest
    BY <1>1, FiniteValue
  <2>2. TicksOf(d) = Value(d)
    BY <2>1 DEF TicksOf, Ticks
  <2>3. d.secs < 0 <=> d.secs * TICKS_PER_SECOND + d.ticks < 0
    BY <2>1, SecondsDecide
  <2> QED BY <1>1, <2>1, <2>2, <2>3 DEF Ticks
<1>2. CASE d = DURATION_INF
  <2>1. Value(d) = Infinity /\ d.secs > 0 /\ d.secs \in Int /\ duration_is_inf(d)
    BY <1>2, InfiniteValue DEF DURATION_INF
  <2>2. TicksOf(d) \in Int
    BY <2>1, <1>0 DEF TicksOf
  <2> QED BY <1>2, <2>1, <2>2 DEF Infinity
<1>3. CASE d = DURATION_NEG_INF
  <2>1. Value(d) = NegInfinity /\ d.secs < 0 /\ d.secs = I64_MIN /\ d.ticks = U32_MAX
    BY <1>3, InfiniteValue DEF DURATION_NEG_INF
  <2>2. TicksOf(d) = I64_MIN * TICKS_PER_SECOND + U32_MAX
    BY <2>1 DEF TicksOf
  <2>3. I64_MIN * TICKS_PER_SECOND <= I64_MIN
    BY DEF I64_MIN
  <2>4. TicksOf(d) \in Int /\ TicksOf(d) < 0
    BY <2>2, <2>3, TimeoutAssumption
  <2> QED BY <1>3, <2>1, <2>4 DEF NegInfinity
<1> QED BY <1>1, <1>2, <1>3, Kinds

\* The nanoseconds of a timespec are the ticks of the duration, cut off; less
\* than a nanosecond is lost, or there are more than the clock will count.
LEMMA TimespecKeeps ==
  ASSUME NEW d \in Durations
  PROVE  LET ns == NanosecondsOf(duration_to_timespec(d))
         IN  /\ ns \in Int
             /\ duration_to_timespec(d).tv_sec \in Int
             /\ duration_to_timespec(d).tv_sec < 0 => Value(d) < 0
             /\ ns * K + K > Value(d) \/ ns > MaxClock
             /\ Value(d) = Infinity => ns > MaxClock
<1> DEFINE ts == duration_to_timespec(d)
           n == NANOSECONDS_PER_SECOND
           ns == NanosecondsOf(ts)
           v == Value(d)
           q == Quotient(v, K)
           r == Remainder(v, K)
<1>1. /\ K \in Nat \ {0} /\ n \in Nat \ {0} /\ TICKS_PER_SECOND = n * K
      /\ MaxClock \in Nat /\ TIME_MAX \in Nat /\ I64_MAX \in Nat
      /\ TIME_MAX <= I64_MAX /\ MaxClock < TIME_MAX * n
  BY Units, Widths, TimeoutAssumption
<1>2. /\ ts.tv_sec \in Time /\ ts.tv_nsec \in 0 .. n - 1
      /\ duration_from_timespec(ts) \in FiniteDurations
      /\ Value(duration_from_timespec(ts)) = InTimespec(v)
  BY TimespecCorrect
<1> HIDE DEF ts
<1>3. ts.tv_sec \in Int /\ ns \in Int /\ ns = ts.tv_sec * n + ts.tv_nsec
  BY <1>1, <1>2 DEF Time, TIME_MIN, NanosecondsOf
<1>4. ns * K = InTimespec(v)
  <2>1. ts.tv_nsec * K \in 0 .. TICKS_PER_SECOND - 1
    BY <1>2, NanosecondTicks DEF K
  <2>2. u32(ts.tv_nsec * K) = ts.tv_nsec * K
    BY <2>1, Wrapping32, Widths
  <2>3. duration_from_timespec(ts) = [secs |-> ts.tv_sec, ticks |-> ts.tv_nsec * K]
    BY <1>2, <2>2, <1>1 DEF duration_from_timespec, make_duration, K
  <2>4. InTimespec(v) = ts.tv_sec * TICKS_PER_SECOND + ts.tv_nsec * K
    BY <1>2, <2>3, FiniteValue DEF Ticks
  <2>5. ts.tv_sec * (n * K) + ts.tv_nsec * K = (ts.tv_sec * n + ts.tv_nsec) * K
    BY <1>1, <1>2, <1>3
  <2> QED BY <1>1, <1>3, <2>4, <2>5
<1>5. v \in Int
  BY TicksAsked
<1>6. /\ q \in Int /\ r \in Int /\ v = K * q + r
      /\ v >= 0 => q >= 0
      /\ r <= K - 1
  BY <1>1, <1>5, CDivision
<1>7. Truncated(v) = q * K
  BY DEF Truncated, K
<1> HIDE DEF q, r, v, ns
<1>8. Truncated(v) \in Int /\ Truncated(v) + K > v /\ (v >= 0 => Truncated(v) >= 0)
  BY <1>1, <1>5, <1>6, <1>7
<1>9. /\ HighestTimespec \in Int /\ LowestTimespec \in Int
      /\ LowestTimespec <= 0
      /\ HighestTimespec >= TIME_MAX * TICKS_PER_SECOND
      /\ HighestTimespec + K = (TIME_MAX + 1) * TICKS_PER_SECOND
  <2>1. (n - 1) * K \in Nat /\ (n - 1) * K = TICKS_PER_SECOND - K
    BY <1>1
  <2>2. TIME_MIN * TICKS_PER_SECOND \in Int /\ TIME_MIN * TICKS_PER_SECOND <= 0
    BY <1>1 DEF TIME_MIN
  <2> QED BY <1>1, <2>1, <2>2 DEF HighestTimespec, LowestTimespec, K
<1>10. TIME_MAX * TICKS_PER_SECOND > MaxClock * K /\ TIME_MAX * TICKS_PER_SECOND >= 0
  <2>1. MaxClock + 1 <= TIME_MAX * n
    BY <1>1
  <2>2. (MaxClock + 1) * K <= (TIME_MAX * n) * K
    BY <1>1, <2>1, TimesMonotonic
  <2> QED BY <1>1, <2>2
<1>11. ns * K >= HighestTimespec => ns > MaxClock
  <2> SUFFICES ASSUME ns * K >= HighestTimespec, ns <= MaxClock PROVE FALSE
    BY <1>1, <1>3
  <2>1. ns * K <= MaxClock * K
    BY <1>1, <1>3, TimesMonotonic
  <2> QED BY <1>1, <1>3, <1>9, <1>10, <2>1
<1>12. ns * K + K > v \/ ns > MaxClock
  BY <1>1, <1>3, <1>4, <1>5, <1>8, <1>9, <1>11 DEF InTimespec
<1>13. v = Infinity => ns > MaxClock
  <2> SUFFICES ASSUME v = Infinity PROVE ns > MaxClock
    OBVIOUS
  <2>1. (TIME_MAX + 1) * TICKS_PER_SECOND <= (I64_MAX + 1) * TICKS_PER_SECOND
    BY <1>1, Widths, TimesMonotonic
  <2>2. HighestTimespec + K <= v
    BY <1>1, <1>9, <2>1, Bounds DEF Infinity, Highest
  <2>3. Truncated(v) > HighestTimespec
    BY <1>1, <1>5, <1>8, <1>9, <2>2
  <2> QED BY <2>3, <1>4, <1>9, <1>11 DEF InTimespec
<1>14. ts.tv_sec < 0 => v < 0
  <2> SUFFICES ASSUME ts.tv_sec < 0, v >= 0 PROVE FALSE
    BY <1>3, <1>5
  <2>1. ts.tv_sec * n <= (-1) * n
    BY <1>1, <1>3, TimesMonotonic
  <2>2. ns <= -1
    BY <1>1, <1>2, <1>3, <2>1
  <2>3. ns * K <= (-1) * K
    BY <1>1, <1>3, <2>2, TimesMonotonic
  <2>4. InTimespec(v) >= 0
    BY <1>8, <1>9, <1>10, <1>1 DEF InTimespec
  <2>5. (-1) * K < 0
    BY <1>1
  <2> QED BY <1>1, <1>3, <1>4, <2>3, <2>4, <2>5
<1> QED BY <1>3, <1>12, <1>13, <1>14 DEF ts, ns, v

-----------------------------------------------------------------------------
(***************************************************************************)
(* What callers ask for                                                    *)
(***************************************************************************)
\* A duration handed on for a caller that asked to wait until the tick due: if
\* it is negative the time is past, and if not it ends at due or never.
Asked(d, due) ==
  /\ d \in Durations /\ due \in Int
  /\ Value(d) < 0 => due < clock * K
  /\ Value(d) >= 0 => Value(d) = Infinity \/ due = clock * K + Value(d)

\* The same of a deadline.
AskedAt(d, due) ==
  /\ d \in Durations /\ due \in Int
  /\ due < clock * K \/ Value(d) = Infinity \/ due = Value(d)

\* What a timeout asks for is what is left, and the deadline made of it.
LEMMA TimeoutAsked ==
  ASSUME clock \in 0 .. MaxClock, NEW d \in Durations
  PROVE  LET due == clock * TICKS_PER_NANOSECOND + TicksOf(d)
         IN  Asked(d, due) /\ AskedAt(deadline_from_timeout(d), due)
<1> DEFINE now == clock * K
           due == clock * TICKS_PER_NANOSECOND + TicksOf(d)
           deadline == deadline_from_timeout(d)
<1>1. time_now \in Durations /\ Value(time_now) = now /\ now \in Nat
      /\ ~Infinite(now)
  BY NowCorrect, FiniteValue DEF Durations
<1>2. due = now + TicksOf(d)
  BY DEF K
<1>3. deadline \in Durations /\ Value(deadline) = Sum(now, Value(d))
  BY <1>1, AddCorrect DEF deadline_from_timeout
<1>4. /\ Lowest \in Int /\ Highest \in Int /\ Lowest <= 0 /\ 0 <= Highest
      /\ Infinity = Highest + 1 /\ NegInfinity = Lowest - 1
  BY Bounds DEF Infinity, NegInfinity
<1> HIDE DEF now, due, deadline
<1>5. due \in Int /\ TicksOf(d) \in Int /\ Value(d) \in Int
  BY <1>1, <1>2, TicksAsked
<1>6. CASE Value(d) \in Lowest .. Highest /\ TicksOf(d) = Value(d) /\ ~Infinite(Value(d))
  <2>1. Value(deadline) = Clamp(due)
    BY <1>1, <1>2, <1>3, <1>6 DEF Sum
  <2>2. due < now \/ Value(deadline) = Infinity \/ due = Value(deadline)
    BY <1>1, <1>2, <1>4, <1>5, <2>1 DEF Clamp
  <2> QED BY <1>1, <1>2, <1>3, <1>5, <1>6, <2>2 DEF Asked, AskedAt, now, due, deadline
<1>7. CASE Value(d) = Infinity
  <2>1. Value(deadline) = Infinity
    BY <1>1, <1>3, <1>7 DEF Sum, Infinite
  <2> QED BY <1>1, <1>3, <1>4, <1>5, <1>7, <2>1 DEF Asked, AskedAt, now, due, deadline
<1>8. CASE Value(d) = NegInfinity /\ TicksOf(d) < 0
  <2>1. due < now
    BY <1>1, <1>2, <1>5, <1>8
  <2> QED BY <1>1, <1>3, <1>4, <1>5, <1>8, <2>1 DEF Asked, AskedAt, now, due, deadline
<1> QED BY <1>6, <1>7, <1>8, TicksAsked DEF due, deadline

\* The same of a deadline, and the time remaining until it.
LEMMA DeadlineAsked ==
  ASSUME clock \in 0 .. MaxClock, NEW d \in Durations
  PROVE  Asked(Remaining(d), TicksOf(d)) /\ AskedAt(d, TicksOf(d))
<1> DEFINE now == clock * K
           due == TicksOf(d)
           rest == Remaining(d)
<1>1. time_now \in Durations /\ Value(time_now) = now /\ now \in Nat
      /\ ~Infinite(now)
  BY NowCorrect, FiniteValue DEF Durations
<1>2. rest \in Durations
      /\ Value(rest) = IF Infinite(Value(d)) THEN Value(d) ELSE Clamp(Value(d) - now)
  BY <1>1, SubCorrect DEF Remaining
<1>4. /\ Lowest \in Int /\ Highest \in Int /\ Lowest <= 0 /\ 0 <= Highest
      /\ Infinity = Highest + 1 /\ NegInfinity = Lowest - 1
  BY Bounds DEF Infinity, NegInfinity
<1>5. due \in Int /\ Value(d) \in Int
  BY TicksAsked
<1> HIDE DEF now, due, rest
<1>6. CASE Value(d) \in Lowest .. Highest /\ due = Value(d) /\ ~Infinite(Value(d))
  <2>1. Value(rest) = Clamp(due - now)
    BY <1>2, <1>6
  <2>2. /\ Value(rest) < 0 => due < now
        /\ Value(rest) >= 0 => Value(rest) = Infinity \/ due = now + Value(rest)
    BY <1>1, <1>4, <1>5, <2>1 DEF Clamp
  <2> QED BY <1>1, <1>2, <1>5, <1>6, <2>2 DEF Asked, AskedAt, now, due, rest
<1>7. CASE Value(d) = Infinity
  <2>1. Value(rest) = Infinity
    BY <1>2, <1>7 DEF Infinite
  <2> QED BY <1>2, <1>4, <1>5, <1>7, <2>1 DEF Asked, AskedAt, due, rest
<1>8. CASE Value(d) = NegInfinity /\ due < 0
  <2>1. due < now
    BY <1>1, <1>5, <1>8
  <2>2. Value(rest) < 0
    BY <1>2, <1>4, <1>8 DEF Infinite
  <2>3. ~(Value(rest) >= 0)
    BY <1>2, <1>4, <1>8 DEF Infinite
  <2> QED BY <1>2, <1>5, <2>1, <2>3 DEF Asked, AskedAt, now, due, rest
<1> QED BY <1>6, <1>7, <1>8, TicksAsked DEF due, rest

-----------------------------------------------------------------------------
(***************************************************************************)
(* What the system is asked for                                            *)
(***************************************************************************)
WaitTyped ==
  /\ windows \in BOOLEAN
  /\ clock \in 0 .. MaxClock
  /\ lastError \in DOMAIN FromLastError
  /\ waiting \in [op : {"none", "sleep", "wait"}, called : Int, until : Int, due : Int]

\* The system wakes a caller no sooner than it asked for, or is never asked to,
\* or the time is past already; or it asked for more than a DWORD holds.
Kept(w) ==
  \/ w.until = Forever
  \/ w.until * K + Grain > w.due
  \/ clock * K + Grain > w.due
  \/ windows /\ ~FitsDword(w)

\* A caller that asked to wait until due is refused, since that is past, or
\* waits.
Served(op, due) ==
  \/ /\ due < clock * K
     /\ outcome' = Outcome("INVALID_ARGUMENT", FALSE, Wait(op, clock, clock, due))
     /\ UNCHANGED waiting
  \/ /\ outcome' = NoOutcome
     /\ \E until \in Int :
          waiting' = Wait(op, clock, until, due) /\ Kept(Wait(op, clock, until, due))

LEMMA GrainSize == Grain \in Nat \ {0} /\ Grain >= K
<1>1. K \in Nat \ {0} /\ NM \in Nat \ {0} /\ MS \in Nat \ {0} /\ MS = NM * K
  BY Units
<1>2. 1 * K <= NM * K
  BY <1>1, TimesMonotonic
<1>3. MS >= K
  BY <1>1, <1>2
<1> QED BY <1>1, <1>3 DEF Grain, MS, K

LEMMA CappedAtForever ==
  ASSUME NEW ns \in Int
  PROVE  /\ Capped(ns) \in Int
         /\ Capped(ns) = Forever \/ Capped(ns) = ns
         /\ ns > MaxClock => Capped(ns) = Forever
BY TimeoutAssumption DEF Capped, Forever

\* A remainder is what is left of a multiple.
LEMMA RemainderUnique ==
  ASSUME NEW b \in Nat \ {0}, NEW q \in Int, NEW r \in 0 .. b - 1
  PROVE  (b * q + r) % b = r
OBVIOUS

\* The greatest i64 is for ever, also as a DWORD.
LEMMA LongestDword ==
  /\ DWORD_MAX <= I64_MAX
  /\ dword(I64_MAX) = DWORD_MAX
<1> DEFINE b == DWORD_MAX + 1
           q == (I64_MAX + 1) \div b
<1>1. DWORD_MAX \in Nat \ {0} /\ I64_MAX \in Nat /\ b \in Nat \ {0} /\ (I64_MAX + 1) % b = 0
  BY TimeoutAssumption, Widths
<1>2. q \in Nat /\ I64_MAX + 1 = b * q
  <2>1. I64_MAX + 1 \in Nat
    BY <1>1
  <2> HIDE DEF b
  <2> QED BY <1>1, <2>1, Division
<1>3. q >= 1
  <2> HIDE DEF q
  <2> SUFFICES ASSUME q = 0 PROVE FALSE
    BY <1>2
  <2> QED BY <1>1, <1>2
<1>4. 1 * b <= q * b
  <2> HIDE DEF q, b
  <2> QED BY <1>1, <1>2, <1>3, TimesMonotonic
<1>5. I64_MAX = b * (q - 1) + DWORD_MAX
  <2> HIDE DEF q
  <2> QED BY <1>1, <1>2
<1>6. q - 1 \in Int /\ DWORD_MAX \in 0 .. b - 1
  BY <1>1, <1>2
<1>7. (b * (q - 1) + DWORD_MAX) % b = DWORD_MAX
  <2> HIDE DEF q, b
  <2> QED BY <1>1, <1>6, RemainderUnique
<1>8. DWORD_MAX <= I64_MAX
  <2> HIDE DEF q
  <2> QED BY <1>1, <1>2, <1>4
<1> QED BY <1>5, <1>7, <1>8 DEF dword

LEMMA PosixSleep ==
  ASSUME WaitTyped, ~windows, NEW d, NEW due, Asked(d, due), sleep_for(d, due)
  PROVE  Served("sleep", due)
<1> DEFINE ts == duration_to_timespec(d)
           ns == NanosecondsOf(ts)
           now == clock * K
           until == Capped(clock + ns)
<1>1. /\ d \in Durations /\ due \in Int /\ Value(d) \in Int
      /\ K \in Nat \ {0} /\ clock \in Nat /\ MaxClock \in Nat
      /\ now \in Nat /\ Grain \in Nat /\ Grain >= K
  BY TicksAsked, Units, GrainSize, TimeoutAssumption DEF Asked, WaitTyped
<1>2. /\ Value(d) < 0 => due < now
      /\ Value(d) >= 0 => Value(d) = Infinity \/ due = now + Value(d)
  BY DEF Asked
<1>3. /\ ns \in Int /\ ts.tv_sec \in Int
      /\ ts.tv_sec < 0 => Value(d) < 0
      /\ ns * K + K > Value(d) \/ ns > MaxClock
      /\ Value(d) = Infinity => ns > MaxClock
  BY <1>1, TimespecKeeps
<1>4. CASE ts.tv_sec < 0
  <2>1. due < now
    BY <1>2, <1>3, <1>4
  <2> QED BY <1>4, <2>1 DEF sleep_for, Refuse, Served
<1>5. CASE ~(ts.tv_sec < 0)
  <2>1. outcome' = NoOutcome /\ waiting' = Wait("sleep", clock, until, due)
    BY <1>5 DEF sleep_for, Begin
  <2>2. /\ until \in Int
        /\ until = Forever \/ until = clock + ns
        /\ clock + ns > MaxClock => until = Forever
    BY <1>1, <1>3, CappedAtForever
  <2> HIDE DEF until, ns, ts, now
  <2>3. (clock + ns) * K = now + ns * K
    BY <1>1, <1>3 DEF now
  <2>4. until = Forever \/ until * K + Grain > due \/ now + Grain > due
    BY <1>1, <1>2, <1>3, <2>2, <2>3
  <2> QED BY <2>1, <2>2, <2>4 DEF Served, Kept, Wait, now
<1> QED BY <1>4, <1>5

LEMMA PosixWait ==
  ASSUME WaitTyped, ~windows, NEW d, NEW due, AskedAt(d, due), wait_deadline(d, due)
  PROVE  Served("wait", due)
<1> DEFINE ns == NanosecondsOf(duration_to_timespec(d))
           now == clock * K
           until == Capped(ns)
<1>1. /\ d \in Durations /\ due \in Int /\ Value(d) \in Int
      /\ K \in Nat \ {0} /\ now \in Nat /\ Grain \in Nat /\ Grain >= K
  BY TicksAsked, Units, GrainSize, TimeoutAssumption DEF AskedAt, WaitTyped
<1>2. due < now \/ Value(d) = Infinity \/ due = Value(d)
  BY DEF AskedAt
<1>3. /\ ns \in Int
      /\ ns * K + K > Value(d) \/ ns > MaxClock
      /\ Value(d) = Infinity => ns > MaxClock
  BY <1>1, TimespecKeeps
<1>4. /\ until \in Int
      /\ until = Forever \/ until = ns
      /\ ns > MaxClock => until = Forever
  BY <1>1, <1>3, CappedAtForever
<1>5. outcome' = NoOutcome /\ waiting' = Wait("wait", clock, until, due)
  BY DEF wait_deadline, Begin
<1> HIDE DEF until, ns, now
<1>6. until = Forever \/ until * K + Grain > due \/ now + Grain > due
  BY <1>1, <1>2, <1>3, <1>4
<1> QED BY <1>4, <1>5, <1>6 DEF Served, Kept, Wait, now

\* A finite duration in milliseconds, of a caller that asked for no more than a
\* DWORD holds: they fit, and less than one of them is lost.
LEMMA MillisecondsFit ==
  ASSUME NEW d \in FiniteDurations, Value(d) >= 0, Value(d) < DWORD_MAX * MS
  PROVE  LET ms == dword(duration_to_ms(d))
         IN  /\ ms \in Nat /\ ms # DWORD_MAX
             /\ ms * MS + MS > Value(d)
<1> DEFINE m == MILLISECONDS_PER_SECOND
           q == d.ticks \div MS
           r == d.ticks % MS
           ms == d.secs * m + q
           v == Value(d)
<1>1. /\ MS \in Nat \ {0} /\ m \in Nat \ {0} /\ TICKS_PER_SECOND = MS * m
      /\ TICKS_PER_NANOSECOND * (NANOSECONDS_PER_SECOND \div m) = MS
      /\ DWORD_MAX \in Nat \ {0} /\ I64_MAX \in Nat /\ DWORD_MAX <= I64_MAX
  <2>1. TICKS_PER_NANOSECOND * (NANOSECONDS_PER_SECOND \div m) = NM * K
    BY Units DEF NM, K
  <2> QED BY <2>1, Units, LongestDword, TimeoutAssumption, Widths
<1>2. /\ d.secs \in Int /\ d.ticks \in Nat /\ ~duration_is_inf(d)
      /\ v = d.secs * TICKS_PER_SECOND + d.ticks
  BY FiniteValue DEF Ticks
<1>3. q \in Nat /\ r \in 0 .. MS - 1 /\ d.ticks = MS * q + r
  BY <1>1, <1>2, Division
<1> HIDE DEF q, r
<1>4. ms \in Int /\ v = ms * MS + r
  BY <1>1, <1>2, <1>3
<1>5. duration_to_ms(d) = i64(ms)
  BY <1>1, <1>2 DEF duration_to_ms, ToUnits, q
<1> HIDE DEF ms, m
<1>6. v \in Int /\ v >= 0 /\ v < DWORD_MAX * MS
  BY <1>1, <1>3, <1>4
<1> HIDE DEF v
<1>7. ms < DWORD_MAX
  <2> SUFFICES ASSUME ms >= DWORD_MAX PROVE FALSE
    BY <1>1, <1>4
  <2>1. DWORD_MAX * MS <= ms * MS
    BY <1>1, <1>4, TimesMonotonic
  <2> QED BY <1>1, <1>3, <1>4, <1>6, <2>1
<1>8. ms >= 0
  <2> SUFFICES ASSUME ms <= -1 PROVE FALSE
    BY <1>4
  <2>1. ms * MS <= (-1) * MS
    BY <1>1, <1>4, TimesMonotonic
  <2> QED BY <1>1, <1>3, <1>4, <1>6, <2>1
<1>9. i64(ms) = ms
  <2>1. ms \in I64
    BY <1>1, <1>4, <1>7, <1>8, Widths DEF I64
  <2> QED BY <1>4, <2>1, Wrapping
<1>10. dword(ms) = ms
  <2>1. DWORD_MAX + 1 \in Nat \ {0} /\ ms \in 0 .. (DWORD_MAX + 1) - 1
    BY <1>1, <1>4, <1>7, <1>8
  <2> QED BY <2>1, OneTurn DEF dword
<1>11. ms \in Nat /\ ms # DWORD_MAX /\ ms * MS + MS > v
  BY <1>1, <1>3, <1>4, <1>7, <1>8
<1> QED BY <1>5, <1>9, <1>10, <1>11 DEF v

LEMMA MillisecondsKept ==
  ASSUME WaitTyped, windows, NEW d, NEW due, Asked(d, due), Value(d) >= 0,
         NEW op
  PROVE  LET until == UntilMilliseconds(dword(duration_to_ms(d)))
         IN  until \in Int /\ Kept(Wait(op, clock, until, due))
<1> DEFINE ms == dword(duration_to_ms(d))
           until == UntilMilliseconds(ms)
           now == clock * K
<1>1. /\ d \in Durations /\ due \in Int /\ Value(d) \in Int
      /\ K \in Nat \ {0} /\ clock \in Nat /\ MaxClock \in Nat
      /\ NM \in Nat \ {0} /\ MS \in Nat \ {0} /\ MS = NM * K /\ Grain = MS
      /\ now \in Nat /\ DWORD_MAX \in Nat /\ I64_MAX \in Nat
  BY TicksAsked, Units, TimeoutAssumption, Widths DEF Asked, WaitTyped, Grain, MS
<1>2. Value(d) = Infinity \/ due = now + Value(d)
  BY DEF Asked
<1>3. /\ until = Forever \/ until = Capped(clock + ms * NM)
      /\ ms = DWORD_MAX => until = Forever
  BY DEF UntilMilliseconds, NM
<1>4. ms \in Nat
  <2>1. duration_to_ms(d) \in Int
    <3>1. CASE d \in FiniteDurations
      <4>1. d.secs \in Int /\ d.ticks \in Nat /\ ~duration_is_inf(d)
        BY <3>1, FiniteValue
      <4>2. TICKS_PER_NANOSECOND * (NANOSECONDS_PER_SECOND \div MILLISECONDS_PER_SECOND) = MS
        BY Units DEF NM, K
      <4>3. d.ticks \div MS \in Int
        BY <1>1, <4>1
      <4>4. d.secs * MILLISECONDS_PER_SECOND + d.ticks \div MS \in Int
        BY <4>1, <4>3, Units
      <4>5. \A n \in Int : i64(n) \in Int
        BY Widths DEF i64
      <4> QED BY <4>1, <4>2, <4>4, <4>5 DEF duration_to_ms, ToUnits
    <3>2. CASE d \in {DURATION_INF, DURATION_NEG_INF}
      <4>1. duration_is_inf(d) /\ d.secs \in Int
        BY <3>2, InfiniteValue, Widths DEF DURATION_INF, DURATION_NEG_INF
      <4> QED BY <4>1 DEF duration_to_ms, ToUnits
    <3> QED BY <1>1, <3>1, <3>2, Kinds
  <2>2. \A n \in Int : n % (DWORD_MAX + 1) \in Nat
    BY <1>1
  <2> QED BY <2>1, <2>2 DEF dword
<1> HIDE DEF ms, until, now
<1>5. /\ until \in Int
      /\ until = Forever \/ until = clock + ms * NM
  <2>1. clock + ms * NM \in Int
    BY <1>1, <1>4
  <2> QED BY <1>1, <1>3, <2>1, CappedAtForever DEF Forever
<1>6. until = Forever \/ until * K + Grain > due \/ ~FitsDword(Wait(op, clock, until, due))
  <2>1. CASE Value(d) = Infinity
    <3>1. d = DURATION_INF
      BY <1>1, <2>1, TicksAsked, Bounds DEF Infinity, NegInfinity, Infinite
    <3>2. duration_to_ms(d) = I64_MAX
      BY <3>1, InfiniteValue DEF duration_to_ms, ToUnits, DURATION_INF
    <3> QED BY <1>3, <3>2, LongestDword DEF ms
  <2>2. CASE Value(d) # Infinity /\ FitsDword(Wait(op, clock, until, due))
    <3>1. due = now + Value(d) /\ due - now < DWORD_MAX * MS
      BY <1>2, <2>2 DEF FitsDword, MS, Wait, now, K
    <3>2. Value(d) < DWORD_MAX * MS
      BY <1>1, <3>1
    <3>3. d \in FiniteDurations
      BY <1>1, <2>2, TicksAsked, Bounds DEF NegInfinity
    <3>4. ms * MS + MS > Value(d)
      BY <3>2, <3>3, MillisecondsFit DEF ms
    <3>5. (clock + ms * NM) * K = now + ms * MS
      BY <1>1, <1>4 DEF now
    <3> QED BY <1>1, <1>4, <1>5, <3>1, <3>4, <3>5
  <2> QED BY <2>1, <2>2
<1> QED BY <1>5, <1>6 DEF Kept, Wait, until, ms

LEMMA WindowsCall ==
  ASSUME WaitTyped, windows, NEW d, NEW due, Asked(d, due)
  PROVE  /\ sleep_for(d, due) => Served("sleep", due)
         /\ wait_milliseconds(d, due) => Served("wait", due)
<1>1. duration_is_neg(d) <=> Value(d) < 0
  BY TicksAsked DEF Asked, duration_is_neg
<1>2. CASE duration_is_neg(d)
  <2>1. due < clock * K
    BY <1>1, <1>2 DEF Asked
  <2> QED BY <1>2, <2>1 DEF sleep_for, wait_milliseconds, Refuse, Served
<1>3. CASE ~duration_is_neg(d)
  <2> DEFINE until == UntilMilliseconds(dword(duration_to_ms(d)))
  <2>1. Value(d) >= 0
    BY <1>1, <1>3, TicksAsked DEF Asked
  <2>2. /\ until \in Int
        /\ Kept(Wait("sleep", clock, until, due)) /\ Kept(Wait("wait", clock, until, due))
    BY <2>1, MillisecondsKept
  <2>3. /\ sleep_for(d, due) =>
             outcome' = NoOutcome /\ waiting' = Wait("sleep", clock, until, due)
        /\ wait_milliseconds(d, due) =>
             outcome' = NoOutcome /\ waiting' = Wait("wait", clock, until, due)
    BY <1>3 DEF sleep_for, wait_milliseconds, Begin
  <2> HIDE DEF until
  <2> QED BY <2>2, <2>3 DEF Served
<1> QED BY <1>2, <1>3

\* A call asks for what its caller asked for.
LEMMA CallServed ==
  ASSUME WaitTyped, Call
  PROVE  \E op \in {"sleep", "wait"}, due \in Int : Served(op, due)
<1>1. PICK d \in Timeouts : SleepFor(d) \/ SleepUntil(d) \/ WaitFor(d) \/ WaitUntil(d)
  BY DEF Call
<1>2. d \in Durations /\ clock \in 0 .. MaxClock
  BY TimeoutAssumption DEF WaitTyped
<1> DEFINE due1 == clock * TICKS_PER_NANOSECOND + TicksOf(d)
           due2 == TicksOf(d)
<1>3. /\ Asked(d, due1) /\ AskedAt(deadline_from_timeout(d), due1)
      /\ Asked(Remaining(d), due2) /\ AskedAt(d, due2)
      /\ due1 \in Int /\ due2 \in Int
  BY <1>2, TimeoutAsked, DeadlineAsked DEF Asked
<1>4. SleepFor(d) => sleep_for(d, due1)
  BY DEF SleepFor
<1>5. SleepUntil(d) => sleep_for(Remaining(d), due2)
  BY DEF SleepUntil
<1>6. WaitFor(d) => IF windows THEN wait_milliseconds(d, due1)
                    ELSE wait_deadline(deadline_from_timeout(d), due1)
  BY DEF WaitFor
<1>7. WaitUntil(d) => IF windows THEN wait_milliseconds(Remaining(d), due2)
                      ELSE wait_deadline(d, due2)
  BY DEF WaitUntil
<1> HIDE DEF due1, due2
<1>8. CASE windows
  <2>1. Served("sleep", due1) \/ Served("sleep", due2)
        \/ Served("wait", due1) \/ Served("wait", due2)
    BY <1>1, <1>3, <1>4, <1>5, <1>6, <1>7, <1>8, WindowsCall
  <2> QED BY <1>3, <2>1
<1>9. CASE ~windows
  <2>1. Served("sleep", due1) \/ Served("sleep", due2)
        \/ Served("wait", due1) \/ Served("wait", due2)
    BY <1>1, <1>3, <1>4, <1>5, <1>6, <1>7, <1>9, PosixSleep, PosixWait
  <2> QED BY <1>3, <2>1
<1> QED BY <1>8, <1>9 DEF WaitTyped

-----------------------------------------------------------------------------
(***************************************************************************)
(* The invariant                                                           *)
(***************************************************************************)
\* Who waits is not woken too early.
TimeInv == WaitTyped /\ (waiting.op # "none" => Kept(waiting))

\* The property, of a step.
InTime ==
  outcome' # outcome =>
    LET now == clock * TICKS_PER_NANOSECOND
        call == outcome'.call
    IN  /\ TimeIsUp(outcome') /\ (windows => FitsDword(call))
             => now + Grain > call.due
        /\ outcome'.error = "INVALID_ARGUMENT" => call.due < now

LEMMA InitTimeInv == TimeInit => TimeInv
BY TimeoutAssumption DEF TimeInit, TimeInv, WaitTyped, NoWait, Wait

LEMMA CallKeeps ==
  ASSUME TimeInv, Call
  PROVE  TimeInv' /\ InTime
<1>1. WaitTyped
  BY DEF TimeInv
<1>2. PICK op \in {"sleep", "wait"}, due \in Int : Served(op, due)
  BY <1>1, CallServed
<1>3. UNCHANGED <<windows, clock, lastError>> /\ waiting.op = "none"
  BY DEF Call, NoWait, Wait
<1>4. CASE /\ due < clock * K
           /\ outcome' = Outcome("INVALID_ARGUMENT", FALSE, Wait(op, clock, clock, due))
           /\ UNCHANGED waiting
  <2>1. TimeInv'
    BY <1>1, <1>3, <1>4 DEF TimeInv, WaitTyped
  <2>2. outcome'.error = "INVALID_ARGUMENT" /\ outcome'.call.due = due
    BY <1>4 DEF Outcome, Wait
  <2> QED BY <1>4, <2>1, <2>2 DEF InTime, TimeIsUp, K
<1>5. CASE /\ outcome' = NoOutcome
           /\ \E until \in Int :
                waiting' = Wait(op, clock, until, due) /\ Kept(Wait(op, clock, until, due))
  <2>1. PICK until \in Int :
          waiting' = Wait(op, clock, until, due) /\ Kept(Wait(op, clock, until, due))
    BY <1>5
  <2>2. WaitTyped'
    BY <1>1, <1>3, <2>1 DEF WaitTyped, Wait
  <2>3. Kept(waiting)'
    BY <1>3, <2>1 DEF Kept, Wait, Grain, FitsDword, Forever, K
  <2>4. InTime
    BY <1>5 DEF InTime, TimeIsUp, NoOutcome, Outcome, NoWait, Wait
  <2> QED BY <2>2, <2>3, <2>4 DEF TimeInv
<1> QED BY <1>2, <1>4, <1>5 DEF Served

\* A call that returns leaves nobody waiting.
LEMMA ReturnKeeps ==
  ASSUME TimeInv, NEW error, NEW coded, Return(error, coded)
  PROVE  TimeInv' /\ outcome' = Outcome(error, coded, waiting)
BY DEF TimeInv, WaitTyped, Return, NoWait, Wait

LEMMA WakeKeeps ==
  ASSUME TimeInv, Wake
  PROVE  TimeInv' /\ InTime
<1>1. /\ clock \in 0 .. MaxClock /\ MaxClock \in Nat /\ K \in Nat \ {0}
      /\ waiting.until \in Int /\ waiting.due \in Int /\ Kept(waiting)
      /\ Grain \in Nat
  BY TimeoutAssumption, Units, GrainSize DEF TimeInv, WaitTyped, Wake
<1>2. CASE clock >= waiting.until /\ Return("OK", FALSE)
  <2>1. TimeInv' /\ outcome' = Outcome("OK", FALSE, waiting)
    BY <1>2, ReturnKeeps
  <2>2. waiting.until * K <= clock * K
    BY <1>1, <1>2, TimesMonotonic
  <2>3. (windows => FitsDword(waiting)) => clock * K + Grain > waiting.due
    BY <1>1, <1>2, <2>2 DEF Kept, Forever
  <2> QED BY <2>1, <2>3 DEF InTime, TimeIsUp, Outcome, K
<1>3. CASE ~windows /\ Return("INTERRUPTED", FALSE)
  <2>1. /\ TimeInv' /\ outcome' = Outcome("INTERRUPTED", FALSE, waiting)
        /\ waiting.op = "sleep"
    BY <1>3, ReturnKeeps DEF Wake
  <2> QED BY <2>1 DEF InTime, TimeIsUp, Outcome
<1> QED BY <1>2, <1>3 DEF Wake

LEMMA JoinedKeeps ==
  ASSUME TimeInv, Joined
  PROVE  TimeInv' /\ InTime
<1>1. waiting.op = "wait" /\ TimeInv' /\ outcome' = Outcome("OK", TRUE, waiting)
  BY ReturnKeeps DEF Joined
<1> QED BY <1>1 DEF InTime, TimeIsUp, Outcome

LEMMA TimedOutKeeps ==
  ASSUME TimeInv, TimedOut
  PROVE  TimeInv' /\ InTime
<1>1. /\ clock \in 0 .. MaxClock /\ MaxClock \in Nat /\ K \in Nat \ {0}
      /\ waiting.until \in Int /\ waiting.due \in Int /\ Kept(waiting)
      /\ Grain \in Nat
      /\ waiting.op = "wait" /\ clock >= waiting.until
  BY TimeoutAssumption, Units, GrainSize DEF TimeInv, WaitTyped, TimedOut
<1>2. PICK error : Return(error, FALSE)
  BY DEF TimedOut
<1>3. TimeInv' /\ outcome' = Outcome(error, FALSE, waiting)
  BY <1>2, ReturnKeeps
<1>4. error # "INVALID_ARGUMENT"
  <2>1. FromLastError[lastError] # "INVALID_ARGUMENT"
    BY DEF TimeInv, WaitTyped, FromLastError
  <2>2. Return(IF windows THEN FromLastError[lastError] ELSE "TIMED_OUT", FALSE)
    BY DEF TimedOut
  <2> QED BY <1>2, <2>1, <2>2 DEF Return, Outcome
<1>5. waiting.until * K <= clock * K
  BY <1>1, TimesMonotonic
<1>6. (windows => FitsDword(waiting)) => clock * K + Grain > waiting.due
  BY <1>1, <1>5 DEF Kept, Forever
<1> QED BY <1>1, <1>3, <1>4, <1>6 DEF InTime, TimeIsUp, Outcome, K

\* Time that is past stays past.
LEMMA TickKeeps ==
  ASSUME TimeInv, Tick
  PROVE  TimeInv' /\ InTime
<1>1. /\ clock \in 0 .. MaxClock /\ MaxClock \in Nat /\ K \in Nat \ {0}
      /\ waiting.until \in Int /\ waiting.due \in Int /\ Grain \in Nat
      /\ clock' = clock + 1 /\ clock < MaxClock
      /\ UNCHANGED <<windows, ended, lastError, waiting, outcome>>
  BY TimeoutAssumption, Units, GrainSize DEF TimeInv, WaitTyped, Tick
<1>2. WaitTyped'
  BY <1>1 DEF TimeInv, WaitTyped
<1>3. clock * K <= clock' * K
  BY <1>1, TimesMonotonic
<1>4. Kept(waiting) => Kept(waiting)'
  <2>1. Grain' = Grain /\ (FitsDword(waiting)' <=> FitsDword(waiting))
    BY <1>1 DEF Grain, FitsDword
  <2>2. K' = K /\ Forever' = Forever
    BY DEF K, Forever
  <2>3. clock * K \in Int /\ clock' * K \in Int
    BY <1>1
  <2>4. clock * K + Grain > waiting.due => clock' * K + Grain > waiting.due
    BY <1>1, <1>3, <2>3
  <2> QED BY <1>1, <2>1, <2>2, <2>4 DEF Kept
<1> QED BY <1>1, <1>2, <1>4 DEF TimeInv, InTime

LEMMA NextTimeInv ==
  ASSUME TimeInv, [TimeNext]_timeVars
  PROVE  TimeInv' /\ InTime
<1>1. CASE Call
  BY <1>1, CallKeeps
<1>2. CASE Wake
  BY <1>2, WakeKeeps
<1>3. CASE Joined
  BY <1>3, JoinedKeeps
<1>4. CASE TimedOut
  BY <1>4, TimedOutKeeps
<1>5. CASE Tick
  BY <1>5, TickKeeps
<1>6. CASE End
  BY <1>6 DEF End, TimeInv, WaitTyped, Kept, Grain, FitsDword, Forever, InTime
<1>7. CASE UNCHANGED timeVars
  BY <1>7 DEF timeVars, TimeInv, WaitTyped, Kept, Grain, FitsDword, Forever, InTime
<1> QED BY <1>1, <1>2, <1>3, <1>4, <1>5, <1>6, <1>7 DEF TimeNext

\* Whatever its timeout and whenever it is made, on both platforms: a sleep
\* that returns OK and a wait that is over without the thread waited out their
\* time (on Windows if its milliseconds fit a DWORD), and a call that is refused
\* was asked for a time already past.
THEOREM WaitsAreWaitedOut == TimeSpec => WaitsOutItsTime
<1>1. TimeInv /\ [TimeNext]_timeVars => TimeInv'
  BY NextTimeInv
<1>2. TimeInv /\ [TimeNext]_timeVars => [InTime]_timeVars
  BY NextTimeInv
<1> QED BY <1>1, <1>2, InitTimeInv, PTL DEF TimeSpec, WaitsOutItsTime, InTime

=============================================================================
