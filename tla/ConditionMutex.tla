--------------------------- MODULE ConditionMutex ---------------------------
(***************************************************************************)
(* rbc_condition_mutex (rbc/sync/condition_mutex.c): a mutex with          *)
(* conditional critical sections.  A thread asks for the mutex together    *)
(* with a condition on the data the mutex protects, and nobody signals:    *)
(* releasing the mutex, in unlock or in a wait, wakes every sleeper, and   *)
(* each evaluates its own condition again.                                 *)
(*                                                                         *)
(* Threads run the public functions; between two calls a thread is the     *)
(* client.  The client writes the data only while it owns the mutex and    *)
(* calls the await functions only while it owns the mutex; it may call     *)
(* everything else at any time.  A mortal client may also end its thread   *)
(* between two calls, with or without the mutex.                           *)
(***************************************************************************)
EXTENDS CondVar

CONSTANTS
  Data,         \* the values of the protected data
  Conditions,   \* the conditions clients use, each the set of data it holds of
  Calls,        \* the functions clients call
  Mortal        \* the threads that may end while others still use the mutex

LockFns == {"lock", "lock_until", "try_lock"}
LockWhenFns == {"lock_when", "lock_when_until"}
AwaitFns == {"await", "await_until"}
Fns == LockFns \cup LockWhenFns \cup AwaitFns \cup {"unlock"}

ASSUME DataAssumption == Data # {}
ASSUME ConditionsAssumption == Conditions \subseteq SUBSET Data
ASSUME CallsAssumption == Calls \subseteq Fns
ASSUME MortalAssumption == Mortal \subseteq Threads

VARIABLES
  data,    \* the data the mutex protects
  pc,      \* where a thread is: "idle" is the client, "dead" an ended thread
  fn,      \* the function a thread is in, "none" in the client
  cond,    \* the condition that call waits for
  ret      \* the local error of a call, and what the last call returned

callVars == <<fn, cond, ret>>
vars == <<owner, health, sleeping, data, pc, fn, cond, ret>>

PCs == {"idle", "lock", "await", "notify", "wait", "sleep", "eval",
        "unlock", "dead"}

TypeOK ==
  /\ MutexTypeOK
  /\ CondVarTypeOK
  /\ data \in Data
  /\ pc \in [Threads -> PCs]
  /\ fn \in [Threads -> Fns \cup {"none"}]
  /\ cond \in [Threads -> SUBSET Data]
  /\ ret \in [Threads -> Errors]

Init ==
  /\ MutexInit
  /\ CondVarInit
  /\ data \in Data
  /\ pc = [t \in Threads |-> "idle"]
  /\ fn = [t \in Threads |-> "none"]
  /\ cond = [t \in Threads |-> {}]
  /\ ret = [t \in Threads |-> "OK"]

(***************************************************************************)
(* rbc_condition_eval of the condition t waits for.                        *)
(***************************************************************************)
Holds(t) == data \in cond[t]

\* The functions that swallow the errors of rbc_cond_var_wait_until.
Timed(t) == fn[t] \in {"await_until", "lock_when_until"}

Goto(t, place) == pc' = [pc EXCEPT ![t] = place]

Begin(t, f, c, place) ==
  /\ pc[t] = "idle"
  /\ f \in Calls
  /\ Goto(t, place)
  /\ fn' = [fn EXCEPT ![t] = f]
  /\ cond' = [cond EXCEPT ![t] = c]
  /\ ret' = [ret EXCEPT ![t] = "OK"]

Return(t, err) ==
  /\ Goto(t, "idle")
  /\ fn' = [fn EXCEPT ![t] = "none"]
  /\ cond' = [cond EXCEPT ![t] = {}]
  /\ ret' = [ret EXCEPT ![t] = err]

-----------------------------------------------------------------------------
(***************************************************************************)
(* The client.                                                             *)
(***************************************************************************)
LockCall(t) ==
  /\ \E f \in LockFns : Begin(t, f, {}, "lock")
  /\ UNCHANGED <<mutexVars, sleeping, data>>

LockWhenCall(t) ==
  /\ \E f \in LockWhenFns, c \in Conditions : Begin(t, f, c, "lock")
  /\ UNCHANGED <<mutexVars, sleeping, data>>

AwaitCall(t) ==
  /\ owner = t
  /\ \E f \in AwaitFns, c \in Conditions : Begin(t, f, c, "await")
  /\ UNCHANGED <<mutexVars, sleeping, data>>

Write(t) ==
  /\ pc[t] = "idle"
  /\ owner = t
  /\ data' \in Data
  /\ UNCHANGED <<mutexVars, sleeping, pc, callVars>>

Exit(t) ==
  /\ t \in Mortal
  /\ pc[t] = "idle"
  /\ OwnerDies(t)
  /\ Goto(t, "dead")
  /\ UNCHANGED <<sleeping, data, callVars>>

\* Seeded defect: unlock forgets the sleepers.
UnlockQuietly(t) ==
  /\ Begin(t, "unlock", {}, "unlock")
  /\ UNCHANGED <<mutexVars, sleeping, data>>

(***************************************************************************)
(* rbc_condition_mutex_unlock wakes every sleeper, then releases.          *)
(***************************************************************************)
Unlock(t) ==
  /\ Begin(t, "unlock", {}, "unlock")
  /\ NotifyAll
  /\ UNCHANGED <<mutexVars, data>>

UnlockRelease(t) ==
  /\ pc[t] = "unlock"
  /\ \E err \in Errors : MutexUnlock(t, err) /\ Return(t, err)
  /\ UNCHANGED <<sleeping, data>>

(***************************************************************************)
(* The lock functions forward to the mutex.  The lock_when functions take  *)
(* the mutex with no deadline, return its error if it has one, and enter   *)
(* await otherwise.                                                        *)
(***************************************************************************)
MutexCall(t, err) ==
  \/ fn[t] = "lock_until" /\ MutexLockUntil(t, err)
  \/ fn[t] = "try_lock" /\ MutexTryLock(t, err)
  \/ fn[t] \in LockWhenFns \cup {"lock"} /\ MutexLock(t, err)

Lock(t) ==
  /\ pc[t] = "lock"
  /\ \E err \in Errors :
       /\ MutexCall(t, err)
       /\ fn[t] \in LockWhenFns => err # "OK"
       /\ Return(t, err)
  /\ UNCHANGED <<sleeping, data>>

LockWhen(t) ==
  /\ pc[t] = "lock"
  /\ fn[t] \in LockWhenFns
  /\ MutexCall(t, "OK")
  /\ Goto(t, "await")
  /\ UNCHANGED <<sleeping, data, callVars>>

-----------------------------------------------------------------------------
(***************************************************************************)
(* rbc_condition_mutex_await and _await_until.  The first evaluation is    *)
(* followed by a notification of its own, before the loop.                 *)
(***************************************************************************)
AwaitMet(t) ==
  /\ pc[t] = "await"
  /\ Holds(t)
  /\ Return(t, "OK")
  /\ UNCHANGED <<mutexVars, sleeping, data>>

AwaitEntry(t) ==
  /\ pc[t] = "await"
  /\ ~Holds(t)
  /\ NotifyAll
  /\ Goto(t, "notify")
  /\ UNCHANGED <<mutexVars, data, callVars>>

\* Seeded defect: the loop waits again without waking the others.
AwaitNotifyOnce(t) ==
  /\ pc[t] = "notify"
  /\ Goto(t, "wait")
  /\ UNCHANGED <<mutexVars, sleeping, data, callVars>>

AwaitNotify(t) ==
  /\ pc[t] = "notify"
  /\ NotifyAll
  /\ Goto(t, "wait")
  /\ UNCHANGED <<mutexVars, data, callVars>>

AwaitSleep(t) ==
  /\ pc[t] = "wait"
  /\ FallAsleep(t)
  /\ Goto(t, "sleep")
  /\ UNCHANGED <<data, callVars>>

SpuriousWake(t) ==
  /\ Stir(t)
  /\ UNCHANGED <<data, pc, callVars>>

WakeTimeout(t) ==
  /\ Timed(t)
  /\ Stir(t)
  /\ ret' = [ret EXCEPT ![t] = "TIMED_OUT"]
  /\ UNCHANGED <<data, pc, fn, cond>>

\* Seeded defects: await swallows errors too; await_until swallows timeouts.
LeavesLoopOnTimeout(t, err) == err = "TIMED_OUT"
LeavesLoopUntimed(t, err) == ~Timed(t) /\ err # "OK"

(***************************************************************************)
(* How the loop goes on after rbc_cond_var_wait* returned err: await       *)
(* returns any error, await_until only a timeout.                          *)
(***************************************************************************)
LeavesLoop(t, err) == IF Timed(t) THEN err = "TIMED_OUT" ELSE err # "OK"

AfterWait(t, err) ==
  \/ LeavesLoop(t, err) /\ Return(t, err)
  \/ /\ ~LeavesLoop(t, err)
     /\ Goto(t, "eval")
     /\ ret' = [ret EXCEPT ![t] = "OK"]
     /\ UNCHANGED <<fn, cond>>

AwaitWake(t) ==
  /\ pc[t] = "sleep"
  /\ \E err \in Errors : WakeUp(t, ret[t], err) /\ AfterWait(t, err)
  /\ UNCHANGED data

AwaitRefused(t) ==
  /\ pc[t] = "wait"
  /\ WaitRefused(t)
  /\ AfterWait(t, "NOT_PERMITTED")
  /\ UNCHANGED data

\* Seeded defect: the condition is not looked at again (if, not while).
AwaitEvalBlindly(t) ==
  /\ pc[t] = "eval"
  /\ Return(t, "OK")
  /\ UNCHANGED <<mutexVars, sleeping, data>>

AwaitEval(t) ==
  /\ pc[t] = "eval"
  /\ IF Holds(t) THEN Return(t, "OK") ELSE Goto(t, "notify") /\ UNCHANGED callVars
  /\ UNCHANGED <<mutexVars, sleeping, data>>

-----------------------------------------------------------------------------
Client(t) ==
  LockCall(t) \/ LockWhenCall(t) \/ AwaitCall(t) \/ Write(t) \/ Exit(t)

Locking(t) == Lock(t) \/ LockWhen(t)

Awaiting(t) ==
  \/ AwaitMet(t) \/ AwaitEntry(t) \/ AwaitNotify(t) \/ AwaitSleep(t)
  \/ AwaitRefused(t) \/ AwaitEval(t)

Next ==
  \E t \in Threads :
    \/ Client(t)
    \/ Unlock(t) \/ UnlockRelease(t)
    \/ Locking(t)
    \/ Awaiting(t) \/ SpuriousWake(t) \/ WakeTimeout(t) \/ AwaitWake(t)

Spec == Init /\ [][Next]_vars

(***************************************************************************)
(* Fairness.  A thread inside a call keeps running.  POSIX mutexes are not *)
(* first come first served, so taking one is only granted to a thread that *)
(* finds it free again and again, and a deadline that has passed ends a    *)
(* sleep that is entered again and again.  The client that holds the mutex *)
(* does not keep it for ever.                                              *)
(***************************************************************************)
Fairness ==
  \A t \in Threads :
    /\ WF_vars(Awaiting(t) \/ UnlockRelease(t))
    /\ SF_vars(Locking(t) \/ AwaitWake(t))
    /\ SF_vars(WakeTimeout(t))
    /\ SF_vars(owner = t /\ Unlock(t))

FairSpec == Spec /\ Fairness

-----------------------------------------------------------------------------
(***************************************************************************)
(* Properties.                                                             *)
(***************************************************************************)

\* Once the mutex is free, nobody sleeps on a condition that already holds:
\* whoever changed the data has woken its sleepers before letting go, in
\* unlock or in a wait of its own.  An owner that died is the exception; its
\* sleepers are left to the next thread that locks and unlocks.
NoLostWakeup ==
  owner = NoThread /\ health # "inconsistent"
    => \A t \in sleeping : ~Holds(t)

\* A condition is a function over the protected data; it is evaluated, and
\* the wait after it entered, only with the mutex held.  The one way out of
\* this is await_until on a mutex that can no longer be locked.
AwaitUnderLock ==
  \A t \in Threads :
    pc[t] \in {"await", "notify", "wait", "eval"} /\ owner # t
      => Timed(t) /\ health = "notrecoverable"

InAwait(t) == pc[t] \in {"await", "notify", "wait", "sleep", "eval"}

\* await, await_until and the waits inside lock_when return with the mutex
\* held, whether they return because of the condition, the deadline or an
\* error, as long as the mutex can be held at all.
AwaitReturnsHolding ==
  [][\A t \in Threads :
       InAwait(t) /\ pc'[t] = "idle"
         => owner' = t \/ health' = "notrecoverable"]_vars

\* A thread that takes the mutex over from a dead owner is told so by the
\* call that takes it, before it can touch the data, unless that call is
\* await_until (or lock_when_until), which goes on as if nothing happened.
OwnerDeathReported ==
  [][\A t \in Threads :
       owner = NoThread /\ owner' = t /\ health = "inconsistent"
         => \/ pc'[t] = "idle" /\ ret'[t] = "OWNER_DEAD"
            \/ Timed(t) /\ pc[t] = "sleep"]_vars

\* Nobody is stuck in a wait for a condition that holds from some point on,
\* whichever threads keep taking the mutex and waking each other.
ConditionMet == \A t \in Threads : ~<>[](InAwait(t) /\ Holds(t))

\* Nobody is inside a call with a deadline for ever (try_lock's is now), as
\* long as no thread dies and whoever holds the mutex releases it in the end:
\* lock_when_until takes the mutex with no deadline at all, and await_until
\* goes round and round on a mutex whose owner's death made it unusable.
TimedCallsReturn ==
  \A t \in Threads :
    ~<>[](fn[t] \in {"lock_until", "try_lock", "await_until", "lock_when_until"})

\* What rbc_cond_var_wait* requires of its caller (RBC_REQUIRES_CAPABILITY
\* in cond_var.h): the mutex is held on entry.
WaitRequiresMutex == \A t \in Threads : pc[t] = "wait" => owner = t

=============================================================================
