------------------------------ MODULE CondVar ------------------------------
(***************************************************************************)
(* rbc_cond_var on a POSIX system (rbc/sync/cond_var.c), used with the     *)
(* rbc_mutex of module Mutex.                                              *)
(*                                                                         *)
(* pthread_cond_wait is two atomic steps with a sleep between them:        *)
(* releasing the mutex while joining the sleepers, and, once woken,        *)
(* taking the mutex again.  The error of taking it again (EOWNERDEAD,      *)
(* ENOTRECOVERABLE) takes precedence over ETIMEDOUT.  Waiting without the  *)
(* mutex fails with EPERM and does not sleep.                              *)
(***************************************************************************)
EXTENDS Mutex

VARIABLE sleeping     \* the threads blocked in rbc_cond_var_wait*

CondVarTypeOK == sleeping \subseteq Threads

CondVarInit == sleeping = {}

(***************************************************************************)
(* rbc_cond_var_notify_all; it cannot fail and needs no mutex.             *)
(***************************************************************************)
NotifyAll == sleeping' = {}

(***************************************************************************)
(* rbc_cond_var_wait*, up to the point where the thread sleeps ...         *)
(***************************************************************************)
FallAsleep(t) ==
  /\ MutexUnlock(t, "OK")
  /\ sleeping' = sleeping \cup {t}

(***************************************************************************)
(* ... its early return when the caller does not own the mutex ...         *)
(***************************************************************************)
WaitRefused(t) ==
  /\ MutexUnlock(t, "NOT_PERMITTED")
  /\ UNCHANGED sleeping

(***************************************************************************)
(* ... waking with no notification: a spurious wakeup, or the deadline of  *)
(* rbc_cond_var_wait_until ...                                             *)
(***************************************************************************)
Stir(t) ==
  /\ t \in sleeping
  /\ sleeping' = sleeping \ {t}
  /\ UNCHANGED mutexVars

\* Seeded defect: a wait that timed out returns without the mutex.
WakeUpEmptyHanded(t, outcome, err) ==
  /\ t \notin sleeping
  /\ \/ outcome = "TIMED_OUT" /\ err = outcome /\ UNCHANGED mutexVars
     \/ outcome = "OK" /\ MutexLock(t, err)
  /\ UNCHANGED sleeping

(***************************************************************************)
(* ... and its return: outcome is what ended the sleep, "OK" or            *)
(* "TIMED_OUT", and err the rbc_error returned.                            *)
(***************************************************************************)
WakeUp(t, outcome, err) ==
  /\ t \notin sleeping
  /\ \E lockErr \in Errors :
       /\ MutexLock(t, lockErr)
       /\ err = (IF lockErr = "OK" THEN outcome ELSE lockErr)
  /\ UNCHANGED sleeping

=============================================================================
