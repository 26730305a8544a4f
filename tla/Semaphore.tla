----------------------------- MODULE Semaphore -----------------------------
(***************************************************************************)
(* rbc_semaphore (sync/semaphore.c) on POSIX and on Windows, where no more *)
(* units may be released than there were in the beginning.  Threads give   *)
(* back what they acquired, and one may be woken by a signal; anybody may  *)
(* also release a unit it never had, to signal something.                  *)
(***************************************************************************)
EXTENDS Naturals, FiniteSets

Fun == INSTANCE Functions

CONSTANTS
  Users,          \* the threads that acquire and release
  Count,          \* the count given to init
  SEM_VALUE_MAX   \* the greatest count of a POSIX semaphore

\* No more can be given to init, on either platform.
ASSUME SemaphoreAssumption ==
  /\ IsFiniteSet(Users)
  /\ Count \in Nat /\ SEM_VALUE_MAX \in Nat
  /\ Count <= SEM_VALUE_MAX

VARIABLES
  onWindows,      \* which half of the sources is built; fixed
  units,          \* the count of the semaphore
  held,           \* how many units each thread was told it acquired
  signals,        \* releases that succeeded by threads that had no unit
  dropped         \* releases that failed by threads that had one

semaphoreVars == <<onWindows, units, held, signals, dropped>>

\* CreateSemaphoreA's third argument.
Maximum == IF onWindows THEN Count ELSE SEM_VALUE_MAX

SemaphoreInit ==
  /\ onWindows \in BOOLEAN
  /\ units = Count
  /\ held = [t \in Users |-> 0]
  /\ signals = 0 /\ dropped = 0

acquire(t) ==
  /\ units > 0
  /\ units' = units - 1
  /\ held' = [held EXCEPT ![t] = @ + 1]
  /\ UNCHANGED <<onWindows, signals, dropped>>

try_acquire(t) ==
  \/ acquire(t)
  \/ units = 0 /\ UNCHANGED semaphoreVars

\* Seeded defect: the signal's error is not returned.
InterruptedUnnoticed(t) ==
  /\ ~onWindows /\ units = 0
  /\ held' = [held EXCEPT ![t] = @ + 1]
  /\ UNCHANGED <<onWindows, units, signals, dropped>>

\* A signal comes while acquire waits: the caller is told, and has no unit.
Interrupted(t) ==
  /\ ~onWindows /\ units = 0
  /\ UNCHANGED semaphoreVars

release(t) ==
  /\ units < Maximum
  /\ units' = units + 1
  /\ IF held[t] > 0 THEN held' = [held EXCEPT ![t] = @ - 1] /\ UNCHANGED signals
                    ELSE signals' = signals + 1 /\ UNCHANGED held
  /\ UNCHANGED <<onWindows, dropped>>

\* VALUE_TOO_LARGE: ERROR_TOO_MANY_POSTS, or EOVERFLOW.
ReleaseFails(t) ==
  /\ units = Maximum
  /\ IF held[t] > 0 THEN held' = [held EXCEPT ![t] = @ - 1] /\ dropped' = dropped + 1
                    ELSE UNCHANGED <<held, dropped>>
  /\ UNCHANGED <<onWindows, units, signals>>

\* Bound: signals.
SemaphoreNext ==
  \E t \in Users :
    \/ acquire(t) \/ try_acquire(t) \/ Interrupted(t)
    \/ (held[t] > 0 \/ signals < 2) /\ (release(t) \/ ReleaseFails(t))

SemaphoreSpec == SemaphoreInit /\ [][SemaphoreNext]_semaphoreVars

\* Who was told it has a unit has one: nobody has the unit of another, none
\* is made by a signal handler, and one that could not be given back is lost
\* only where somebody gave one that was not its own.
UnitsAccounted ==
  /\ units + Fun!SumFunction(held) + dropped = Count + signals
  /\ dropped <= signals

=============================================================================
