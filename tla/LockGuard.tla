----------------------------- MODULE LockGuard -----------------------------
(***************************************************************************)
(* Scoped locks (sync/lock_guard.h) and plain calls, nested, on a lockable *)
(* that is rbc_mutex or rbc_recursive_mutex: an error-checking or a recur- *)
(* sive mutex on POSIX, a critical section for both on Windows.  A guard   *)
(* is a pointer: it does not know whether its init took the lock, and its  *)
(* destroy unlocks.  A thread is careful if it destroys no guard whose     *)
(* init failed.  Threads that die holding the lock are left to module      *)
(* Mutex.                                                                  *)
(***************************************************************************)
EXTENDS Naturals, Sequences, FiniteSets

CONSTANTS
  Threads,
  Nobody,        \* the owner of a free lockable
  MaxNesting     \* bound: the locks a thread is in the scope of; a recursive
                 \* mutex counts no further either, and fails with EAGAIN

ASSUME GuardAssumption == Nobody \notin Threads /\ MaxNesting \in Nat

VARIABLES
  lockable,      \* "errorcheck", "recursive" or "critical_section"; fixed
  careful,       \* the careful threads; fixed
  lockOwner,     \* the thread that holds the lockable
  depth,         \* how often it does
  scopes,        \* for each thread, what the locks it is in the scope of
                 \* returned, the innermost one last
  undefined      \* LeaveCriticalSection was called by another thread

guardVars == <<lockable, careful, lockOwner, depth, scopes, undefined>>

GuardInit ==
  /\ lockable \in {"errorcheck", "recursive", "critical_section"}
  /\ careful \in SUBSET Threads
  /\ lockOwner = Nobody /\ depth = 0
  /\ scopes = [t \in Threads |-> << >>]
  /\ undefined = FALSE

Opened(t, error) ==
  /\ scopes' = [scopes EXCEPT ![t] = Append(@, error)]
  /\ UNCHANGED <<lockable, careful, undefined>>

Taken(t) ==
  /\ lockOwner' = t
  /\ depth' = depth + 1
  /\ Opened(t, "OK")

Refused(t, error) ==
  /\ Opened(t, error)
  /\ UNCHANGED <<lockOwner, depth>>

CanNest(t) == Len(scopes[t]) < MaxNesting

\* rbc_mutex_lock and rbc_recursive_mutex_lock, also by a guard's init and
\* init_with.  It waits while another thread is the owner; on Windows a wait
\* of too long raises an exception.
lock(t) ==
  /\ CanNest(t)
  /\ \/ lockOwner = Nobody /\ Taken(t)
     \/ /\ lockOwner = t
        /\ \/ lockable = "errorcheck" /\ Refused(t, "RESOURCE_DEADLOCK_WOULD_OCCUR")
           \/ lockable # "errorcheck" /\ Taken(t)
     \/ /\ lockOwner \notin {t, Nobody} /\ lockable = "critical_section"
        /\ Refused(t, "RESOURCE_DEADLOCK_WOULD_OCCUR")

try_lock(t) ==
  /\ CanNest(t)
  /\ \/ /\ lockOwner = Nobody \/ (lockOwner = t /\ lockable # "errorcheck")
        /\ Taken(t)
     \/ /\ lockOwner # Nobody /\ (lockOwner = t => lockable = "errorcheck")
        /\ Refused(t, "DEVICE_OR_RESOURCE_BUSY")

\* _lock_for and _lock_until; Windows has no timed lock.
lock_until(t) ==
  /\ CanNest(t)
  /\ \/ lockable # "critical_section" /\ lockOwner \in {t, Nobody} /\ lock(t)
     \/ lockable # "critical_section" /\ lockOwner \notin {t, Nobody} /\ Refused(t, "TIMED_OUT")
     \/ lockable = "critical_section" /\ Refused(t, "NOT_IMPLEMENTED")

\* Seeded defect: whoever unlocks, the lockable is unlocked.
unlockUnowned(t) ==
  /\ lockOwner' = IF depth <= 1 THEN Nobody ELSE lockOwner
  /\ depth' = IF depth = 0 THEN 0 ELSE depth - 1
  /\ UNCHANGED undefined

\* A mutex refuses a thread that is not its owner; a critical section does
\* not look.
unlock(t) ==
  IF lockOwner = t
    THEN /\ lockOwner' = IF depth = 1 THEN Nobody ELSE t
         /\ depth' = depth - 1
         /\ UNCHANGED undefined
    ELSE /\ undefined' = (lockable = "critical_section")
         /\ UNCHANGED <<lockOwner, depth>>

\* The end of the innermost scope: a guard's destroy, or the unlock of a call
\* that succeeded.
Leave(t) ==
  /\ scopes[t] # << >>
  /\ LET error == scopes[t][Len(scopes[t])]
     IN  IF error = "OK" \/ t \notin careful
           THEN unlock(t)
           ELSE UNCHANGED <<lockOwner, depth, undefined>>
  /\ scopes' = [scopes EXCEPT ![t] = SubSeq(@, 1, Len(@) - 1)]
  /\ UNCHANGED <<lockable, careful>>

GuardNext ==
  /\ ~undefined
  /\ \E t \in Threads : lock(t) \/ try_lock(t) \/ lock_until(t) \/ Leave(t)

GuardSpec == GuardInit /\ [][GuardNext]_guardVars

\* The locks that succeeded of those that returned these errors.
Successes(errors) == {i \in 1 .. Len(errors) : errors[i] = "OK"}

\* A careful thread holds the lockable exactly as often as it is in the scope
\* of a lock that succeeded, whatever guards the others destroy: those can
\* give up only their own.  On Windows they can also break the lockable.
GuardsHold ==
  /\ \A t \in careful :
       IF lockOwner = t THEN depth = Cardinality(Successes(scopes[t]))
                        ELSE Successes(scopes[t]) = {}
  /\ undefined => lockable = "critical_section" /\ careful # Threads

=============================================================================
