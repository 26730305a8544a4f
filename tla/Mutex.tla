------------------------------- MODULE Mutex -------------------------------
(***************************************************************************)
(* rbc_mutex on a POSIX system (rbc/sync/mutex.c, the RBC_USE(PTHREADS)    *)
(* branch).  rbc_mutex_init asks for two attributes, and everything below  *)
(* follows from them:                                                      *)
(*                                                                         *)
(*   PTHREAD_MUTEX_ERRORCHECK  locking a mutex one already owns returns    *)
(*     EDEADLK, unlocking a mutex one does not own returns EPERM;          *)
(*   PTHREAD_MUTEX_ROBUST  when the owner dies the next locker obtains     *)
(*     the mutex together with EOWNERDEAD.  The library never calls        *)
(*     pthread_mutex_consistent, so the next unlock makes the mutex        *)
(*     unusable: every later lock returns ENOTRECOVERABLE.                 *)
(*                                                                         *)
(* Each operation is a relation between the state of the mutex, its next   *)
(* state and the rbc_error it returns; the modules that EXTEND this one    *)
(* make actions of them.  An operation that has to wait for another owner  *)
(* is not enabled.                                                         *)
(***************************************************************************)

CONSTANTS
  Threads,    \* the threads that share the mutex
  NoThread    \* the owner of a free mutex

ASSUME NoThreadAssumption == NoThread \notin Threads

VARIABLES
  owner,      \* the thread that holds the mutex, or NoThread
  health      \* what is left of the robust mutex after an owner's death

mutexVars == <<owner, health>>

(***************************************************************************)
(* The members of rbc_error (rbc/core/error.h) these functions return.     *)
(***************************************************************************)
Errors == {"OK", "DEADLOCK", "NOT_PERMITTED", "BUSY", "TIMED_OUT",
           "OWNER_DEAD", "NOT_RECOVERABLE"}

Healths == {"consistent", "inconsistent", "notrecoverable"}

MutexTypeOK == owner \in Threads \cup {NoThread} /\ health \in Healths

(***************************************************************************)
(* rbc_mutex_init leaves a free, consistent mutex.                         *)
(***************************************************************************)
MutexInit == owner = NoThread /\ health = "consistent"

Free == owner = NoThread /\ health # "notrecoverable"

HeldByOther(t) == owner \notin {NoThread, t}

\* Seeded defect: the mutex is not robust, a dead owner goes unnoticed.
MutexLockNotRobust(t, err) ==
  \/ owner = t /\ err = "DEADLOCK" /\ UNCHANGED mutexVars
  \/ owner = NoThread /\ err = "OK" /\ owner' = t /\ UNCHANGED health

(***************************************************************************)
(* rbc_mutex_lock: pthread_mutex_lock with the attributes above.           *)
(***************************************************************************)
MutexLock(t, err) ==
  \/ /\ owner = t
     /\ err = "DEADLOCK"
     /\ UNCHANGED mutexVars
  \/ /\ owner = NoThread
     /\ health = "notrecoverable"
     /\ err = "NOT_RECOVERABLE"
     /\ UNCHANGED mutexVars
  \/ /\ Free
     /\ err = (IF health = "consistent" THEN "OK" ELSE "OWNER_DEAD")
     /\ owner' = t
     /\ UNCHANGED health

(***************************************************************************)
(* rbc_mutex_lock_until, and rbc_mutex_lock_for which calls it: the        *)
(* deadline matters only while another thread owns the mutex.              *)
(***************************************************************************)
MutexLockUntil(t, err) ==
  \/ MutexLock(t, err)
  \/ /\ HeldByOther(t)
     /\ err = "TIMED_OUT"
     /\ UNCHANGED mutexVars

(***************************************************************************)
(* rbc_mutex_try_lock: the answer is immediate.                            *)
(***************************************************************************)
MutexTryLock(t, err) ==
  \/ MutexLock(t, err)
  \/ /\ HeldByOther(t)
     /\ err = "BUSY"
     /\ UNCHANGED mutexVars

(***************************************************************************)
(* rbc_mutex_unlock.  Unlocking an inconsistent mutex is the point of no   *)
(* return.                                                                 *)
(***************************************************************************)
HealthAfterUnlock == IF health = "inconsistent" THEN "notrecoverable" ELSE health

\* Seeded defect: the error that later locks report is stored as the state.
MutexUnlockMixingCodes(t, err) ==
  \/ /\ owner = t
     /\ err = "OK"
     /\ owner' = NoThread
     /\ health' = (IF health = "consistent" THEN health ELSE "NOT_RECOVERABLE")
  \/ /\ owner # t
     /\ err = "NOT_PERMITTED"
     /\ UNCHANGED mutexVars

MutexUnlock(t, err) ==
  \/ /\ owner = t
     /\ err = "OK"
     /\ owner' = NoThread
     /\ health' = HealthAfterUnlock
  \/ /\ owner # t
     /\ err = "NOT_PERMITTED"
     /\ UNCHANGED mutexVars

(***************************************************************************)
(* A thread terminates (rbc_thread_exit, or a return from its function):   *)
(* the kernel releases the robust mutex it holds and marks it.             *)
(***************************************************************************)
OwnerDies(t) ==
  /\ owner' = (IF owner = t THEN NoThread ELSE owner)
  /\ health' = (IF owner = t THEN "inconsistent" ELSE health)

=============================================================================
