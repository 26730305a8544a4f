------------------------------ MODULE Timeouts ------------------------------
(***************************************************************************)
(* The calls that wait for a time (sync/thread.c): rbc_thread_sleep_for    *)
(* and _sleep_until, rbc_thread_wait_for_with_code and _wait_until_with-   *)
(* _code, with the conversions of time/time.c on their way to the system   *)
(* and the errors on their way back, on POSIX and on Windows.  One thread  *)
(* calls; a second one ends at some time; the clock moves on and is read   *)
(* in whole nanoseconds.                                                   *)
(***************************************************************************)
EXTENDS Duration

CONSTANTS
  Timeouts,     \* the durations and, counted from 0, the deadlines tried
  MaxClock,     \* bound: the nanoseconds the clock counts
  DWORD_MAX     \* 2^32 - 1, which is INFINITE

ASSUME TimeoutAssumption ==
  /\ Timeouts \subseteq Durations
  /\ MaxClock \in Nat /\ DWORD_MAX \in Nat \ {0}
  \* a time_t holds the time
  /\ MaxClock < TIME_MAX * NANOSECONDS_PER_SECOND
  \* the low half of the greatest i64 is the greatest DWORD, and u32 is smaller
  /\ (I64_MAX + 1) % (DWORD_MAX + 1) = 0
  /\ U32_MAX <= I64_MAX

VARIABLES
  windows,      \* which half of the sources is built; fixed
  clock,        \* nanoseconds since the epoch
  ended,        \* whether the thread waited for has ended
  lastError,    \* what GetLastError returns
  waiting,      \* the call that has not returned, or NoWait
  outcome       \* what the last call returned

timeVars == <<windows, clock, ended, lastError, waiting, outcome>>

\* op: "sleep" or "wait".  called: the nanosecond of the call.  until: that at
\* which the system is to wake the caller, or Forever.  due: the tick the
\* caller asked for.
Forever == MaxClock + 1
Wait(op, called, until, due) ==
  [op |-> op, called |-> called, until |-> until, due |-> due]
NoWait == Wait("none", 0, 0, 0)

\* error, whether *exit_code holds the code of the thread, and the call.
Outcome(error, coded, call) == [error |-> error, coded |-> coded, call |-> call]
NoOutcome == Outcome("none", FALSE, NoWait)

(***************************************************************************)
(* time.c                                                                  *)
(***************************************************************************)
timespec_get ==
  Timespec(clock \div NANOSECONDS_PER_SECOND, clock % NANOSECONDS_PER_SECOND)

time_now == duration_from_timespec(timespec_get)

deadline_from_timeout(timeout) == duration_add(time_now, timeout)

\* How long until a deadline.
Remaining(deadline) == duration_sub(deadline, time_now)

\* The ticks and the nanoseconds of a finite duration and of a timespec.
TicksOf(d) ==
  IF duration_is_inf(d) /\ d.secs > 0 THEN Forever * TICKS_PER_NANOSECOND
  ELSE d.secs * TICKS_PER_SECOND + d.ticks
NanosecondsOf(ts) == ts.tv_sec * NANOSECONDS_PER_SECOND + ts.tv_nsec
Capped(ns) == IF ns > MaxClock THEN Forever ELSE ns

\* Seeded defect: a type of half the width.
dword_short(ms) == ms % ((DWORD_MAX + 1) \div 2)

\* Milliseconds in a DWORD.
dword(ms) == ms % (DWORD_MAX + 1)
UntilMilliseconds(ms) ==
  IF ms = DWORD_MAX THEN Forever
  ELSE Capped(clock + ms * (NANOSECONDS_PER_SECOND \div MILLISECONDS_PER_SECOND))

(***************************************************************************)
(* errors: GetLastError's codes, and what rbc_error_from_last_error makes  *)
(* of them: ANOTHER stands for all the others, which become other errors.  *)
(* A call that succeeds or times out leaves the code alone.                *)
(***************************************************************************)
FromLastError ==
  [SUCCESS |-> "OK", WAIT_TIMEOUT |-> "TIMED_OUT", ANOTHER |-> "ANOTHER"]

TimeInit ==
  /\ windows \in BOOLEAN
  /\ clock = 0
  /\ ended = FALSE
  /\ lastError \in DOMAIN FromLastError
  /\ waiting = NoWait
  /\ outcome = NoOutcome

Refuse(op, due) ==
  /\ outcome' = Outcome("INVALID_ARGUMENT", FALSE, Wait(op, clock, clock, due))
  /\ UNCHANGED waiting

Begin(op, until, due) ==
  /\ waiting' = Wait(op, clock, until, due)
  /\ outcome' = NoOutcome

\* nanosleep takes no negative time; Windows is not asked for one.
sleep_for(timeout, due) ==
  LET ts == duration_to_timespec(timeout)
      ms == dword(duration_to_ms(timeout))
  IN  IF windows
        THEN IF duration_is_neg(timeout) THEN Refuse("sleep", due)
             ELSE Begin("sleep", UntilMilliseconds(ms), due)
        ELSE IF ts.tv_sec < 0 THEN Refuse("sleep", due)
             ELSE Begin("sleep", Capped(clock + NanosecondsOf(ts)), due)

wait_milliseconds(timeout, due) ==
  IF duration_is_neg(timeout) THEN Refuse("wait", due)
  ELSE Begin("wait", UntilMilliseconds(dword(duration_to_ms(timeout))), due)

wait_deadline(deadline, due) ==
  Begin("wait", Capped(NanosecondsOf(duration_to_timespec(deadline))), due)

SleepFor(timeout) ==
  sleep_for(timeout, clock * TICKS_PER_NANOSECOND + TicksOf(timeout))

SleepUntil(deadline) == sleep_for(Remaining(deadline), TicksOf(deadline))

WaitFor(timeout) ==
  LET due == clock * TICKS_PER_NANOSECOND + TicksOf(timeout)
  IN  IF windows THEN wait_milliseconds(timeout, due)
      ELSE wait_deadline(deadline_from_timeout(timeout), due)

WaitUntil(deadline) ==
  IF windows THEN wait_milliseconds(Remaining(deadline), TicksOf(deadline))
  ELSE wait_deadline(deadline, TicksOf(deadline))

Call ==
  /\ waiting = NoWait
  /\ \E t \in Timeouts : SleepFor(t) \/ SleepUntil(t) \/ WaitFor(t) \/ WaitUntil(t)
  /\ UNCHANGED <<windows, clock, ended, lastError>>

Return(error, coded) ==
  /\ outcome' = Outcome(error, coded, waiting)
  /\ waiting' = NoWait
  /\ UNCHANGED <<windows, clock, ended, lastError>>

\* Seeded defect: an interrupted sleep reports nothing.
WakeUnnoticed ==
  /\ waiting.op = "sleep"
  /\ clock >= waiting.until \/ ~windows
  /\ Return("OK", FALSE)

\* The time is up, or a signal has come: only nanosleep returns for one.
Wake ==
  /\ waiting.op = "sleep"
  /\ \/ clock >= waiting.until /\ Return("OK", FALSE)
     \/ ~windows /\ Return("INTERRUPTED", FALSE)

Joined ==
  /\ waiting.op = "wait" /\ ended
  /\ Return("OK", TRUE)

\* Windows takes whatever error an earlier call has left for the timeout's.
TimedOut ==
  /\ waiting.op = "wait" /\ ~ended /\ clock >= waiting.until
  /\ Return(IF windows THEN FromLastError[lastError] ELSE "TIMED_OUT", FALSE)

Tick ==
  /\ clock < MaxClock
  /\ clock' = clock + 1
  /\ UNCHANGED <<windows, ended, lastError, waiting, outcome>>

End ==
  /\ ~ended
  /\ ended' = TRUE
  /\ UNCHANGED <<windows, clock, lastError, waiting, outcome>>

TimeNext == Call \/ Wake \/ Joined \/ TimedOut \/ Tick \/ End

TimeSpec == TimeInit /\ [][TimeNext]_timeVars

(***************************************************************************)
(* Properties                                                              *)
(***************************************************************************)
\* What is lost on the way to the system: less than a nanosecond, on Windows
\* less than a millisecond.
Grain ==
  IF windows THEN TICKS_PER_SECOND \div MILLISECONDS_PER_SECOND
             ELSE TICKS_PER_NANOSECOND

\* More milliseconds than a DWORD holds, counted from the call, are cut to
\* what is left of them.
FitsDword(call) ==
  call.due - call.called * TICKS_PER_NANOSECOND
    < DWORD_MAX * (TICKS_PER_SECOND \div MILLISECONDS_PER_SECOND)

\* A call was over because its time was: a sleep that returns OK, and a wait
\* that was not refused and returns without the code of the thread, whichever
\* error it makes of that.
TimeIsUp(out) ==
  \/ out.call.op = "sleep" /\ out.error = "OK"
  \/ out.call.op = "wait" /\ out.error # "INVALID_ARGUMENT" /\ ~out.coded

\* A call that ends because its time is over ends no sooner than it was asked
\* to, give or take the grain, except for a Windows call asked to wait longer
\* than a DWORD of milliseconds holds (thread.c:177, 247); and a call that is
\* refused was asked for a time already past.
WaitsOutItsTime ==
  [][outcome' # outcome =>
       LET now == clock * TICKS_PER_NANOSECOND
           call == outcome'.call
       IN  /\ TimeIsUp(outcome') /\ (windows => FitsDword(call))
                => now + Grain > call.due
           /\ outcome'.error = "INVALID_ARGUMENT" => call.due < now]_timeVars

\* A wait that returns OK has waited for the thread, and has its code.
OkMeansEnded ==
  outcome.call.op = "wait" /\ outcome.error = "OK" => outcome.coded

=============================================================================
