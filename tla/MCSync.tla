------------------------------- MODULE MCSync -------------------------------
(***************************************************************************)
(* The synchronisation objects around the mutex and the condition variable *)
(* on small instances.  A behaviour is about one of them: subject, chosen  *)
(* in the beginning, says which, and what the other modules describe rests *)
(* in one initial state.                                                   *)
(***************************************************************************)
EXTENDS SyncObject, LockGuard, Semaphore, SharedMutex, AssertHandler

VARIABLE subject

allVars == <<vars, guardVars, semaphoreVars, sharedVars, assertVars, subject>>

SyncInit ==
  /\ subject \in {"object", "guard", "semaphore", "shared", "assert"}
  /\ Init /\ GuardInit /\ SemaphoreInit /\ SharedInit /\ AssertInit
  /\ subject # "object" => ~windows /\ parts = <<"mutex">> /\ ~always
  /\ subject # "guard" => lockable = "errorcheck" /\ careful = {}
  /\ subject # "semaphore" => ~onWindows
  /\ subject # "shared" => sharedKind = "srw"

SyncNext ==
  /\ \/ /\ subject = "object" /\ Next
        /\ UNCHANGED <<guardVars, semaphoreVars, sharedVars, assertVars>>
     \/ /\ subject = "guard" /\ GuardNext
        /\ UNCHANGED <<vars, semaphoreVars, sharedVars, assertVars>>
     \/ /\ subject = "semaphore" /\ SemaphoreNext
        /\ UNCHANGED <<vars, guardVars, sharedVars, assertVars>>
     \/ /\ subject = "shared" /\ SharedNext
        /\ UNCHANGED <<vars, guardVars, semaphoreVars, assertVars>>
     \/ /\ subject = "assert" /\ AssertNext
        /\ UNCHANGED <<vars, guardVars, semaphoreVars, sharedVars>>
  /\ UNCHANGED subject

SyncSpec == SyncInit /\ [][SyncNext]_allVars /\ SharedFairness

=============================================================================
