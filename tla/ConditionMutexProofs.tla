------------------------ MODULE ConditionMutexProofs ------------------------
(***************************************************************************)
(* Safety of ConditionMutex for any set of threads, any data and any       *)
(* conditions: type correctness, no lost wakeup and no wait without the    *)
(* mutex.                                                                  *)
(***************************************************************************)
EXTENDS ConditionMutexRegion, TLAPS

(***************************************************************************)
(* The strengthening.  Between a broadcast and the release that follows it *)
(* the mutex is held, so nobody can fall asleep: the set of sleepers stays *)
(* empty up to the release.  A waiter that does fall asleep then is one    *)
(* whose condition was false when it looked, and is false still.           *)
(***************************************************************************)
SleepersDoNotOwn ==
  \A t \in Threads :
    /\ t \in sleeping => pc[t] = "sleep"
    /\ pc[t] = "sleep" => owner # t

ReleasesInSilence ==
  \A t \in Threads :
    owner = t /\ pc[t] \in {"unlock", "wait"} => sleeping = {}

WaitsInVain ==
  \A t \in Threads :
    owner = t /\ pc[t] \in {"notify", "wait"} => ~Holds(t)

\* A mutex nobody can lock has no owner.
DeadMutexIsFree == health = "notrecoverable" => owner = NoThread

IInv ==
  /\ SleepersDoNotOwn
  /\ ReleasesInSilence
  /\ WaitsInVain
  /\ DeadMutexIsFree
  /\ AwaitUnderLock
  /\ NoLostWakeup

-----------------------------------------------------------------------------
(***************************************************************************)
(* Every variable keeps its type.                                          *)
(***************************************************************************)
LEMMA TypeInit == Init => TypeOK
  BY DEF Init, TypeOK, MutexInit, CondVarInit, MutexTypeOK, CondVarTypeOK,
         PCs, Fns, Errors, Healths

LEMMA TypeNext == TypeOK /\ [Next]_vars => TypeOK'
<1> SUFFICES ASSUME TypeOK, [Next]_vars PROVE TypeOK'
  OBVIOUS
<1> USE DEF TypeOK, MutexTypeOK, CondVarTypeOK
<1> USE DEF Goto, Begin, Return, mutexVars, callVars
<1>1. CASE UNCHANGED vars
  BY <1>1 DEF vars
<1>2. CASE Next
  <2> PICK t \in Threads :
        \/ Client(t) \/ Unlock(t) \/ UnlockRelease(t) \/ Locking(t)
        \/ Awaiting(t) \/ SpuriousWake(t) \/ WakeTimeout(t) \/ AwaitWake(t)
    BY <1>2 DEF Next
  <2>1. CASE LockCall(t)
    BY <2>1 DEF LockCall, PCs, Fns, LockFns, Errors
  <2>2. CASE LockWhenCall(t)
    BY <2>2, ConditionsAssumption DEF LockWhenCall, PCs, Fns, LockWhenFns, Errors
  <2>3. CASE AwaitCall(t)
    BY <2>3, ConditionsAssumption DEF AwaitCall, PCs, Fns, AwaitFns, Errors
  <2>4. CASE Write(t)
    BY <2>4 DEF Write
  <2>5. CASE Exit(t)
    BY <2>5 DEF Exit, OwnerDies, PCs, Healths
  <2>6. CASE Unlock(t)
    BY <2>6 DEF Unlock, NotifyAll, PCs, Fns, Errors
  <2>7. CASE UnlockRelease(t)
    BY <2>7 DEF UnlockRelease, MutexUnlock, HealthAfterUnlock, PCs, Healths
  <2>8. CASE Lock(t)
    BY <2>8 DEF Lock, MutexCall, MutexLock, MutexLockUntil, MutexTryLock, PCs
  <2>9. CASE LockWhen(t)
    BY <2>9 DEF LockWhen, MutexCall, MutexLock, MutexLockUntil, MutexTryLock, PCs
  <2>10. CASE AwaitMet(t)
    BY <2>10 DEF AwaitMet, PCs, Errors
  <2>11. CASE AwaitEntry(t)
    BY <2>11 DEF AwaitEntry, NotifyAll, PCs
  <2>12. CASE AwaitNotify(t)
    BY <2>12 DEF AwaitNotify, NotifyAll, PCs
  <2>13. CASE AwaitSleep(t)
    BY <2>13 DEF AwaitSleep, FallAsleep, MutexUnlock, HealthAfterUnlock, PCs, Healths
  <2>14. CASE AwaitRefused(t)
    BY <2>14 DEF AwaitRefused, WaitRefused, MutexUnlock, AfterWait, PCs, Errors
  <2>15. CASE AwaitEval(t)
    BY <2>15 DEF AwaitEval, PCs, Errors
  <2>16. CASE SpuriousWake(t)
    BY <2>16 DEF SpuriousWake, Stir
  <2>17. CASE WakeTimeout(t)
    BY <2>17 DEF WakeTimeout, Stir, Errors
  <2>18. CASE AwaitWake(t)
    BY <2>18 DEF AwaitWake, WakeUp, MutexLock, AfterWait, PCs, Errors
  <2>19. QED
    BY <2>1, <2>2, <2>3, <2>4, <2>5, <2>6, <2>7, <2>8, <2>9, <2>10, <2>11,
       <2>12, <2>13, <2>14, <2>15, <2>16, <2>17, <2>18
       DEF Client, Locking, Awaiting
<1>3. QED
  BY <1>1, <1>2

THEOREM TypeCorrect == Spec => []TypeOK
<1>1. QED
  BY TypeInit, TypeNext, PTL DEF Spec

-----------------------------------------------------------------------------
LEMMA IInvInit == Init => IInv
  BY NoThreadAssumption
  DEF Init, MutexInit, CondVarInit, IInv, SleepersDoNotOwn, ReleasesInSilence,
      WaitsInVain, DeadMutexIsFree, AwaitUnderLock, NoLostWakeup

LEMMA IInvNext == TypeOK /\ IInv /\ [Next]_vars => IInv'
<1> SUFFICES ASSUME TypeOK, IInv, [Next]_vars PROVE IInv'
  OBVIOUS
<1> USE NoThreadAssumption
<1> USE DEF TypeOK, MutexTypeOK, CondVarTypeOK
<1> USE DEF IInv, SleepersDoNotOwn, ReleasesInSilence, WaitsInVain,
            DeadMutexIsFree, AwaitUnderLock, NoLostWakeup
<1> USE DEF Holds, Timed, Goto, Begin, Return, mutexVars, callVars
<1>1. CASE UNCHANGED vars
  BY <1>1 DEF vars
<1>2. CASE Next
  <2> PICK t \in Threads :
        \/ Client(t) \/ Unlock(t) \/ UnlockRelease(t) \/ Locking(t)
        \/ Awaiting(t) \/ SpuriousWake(t) \/ WakeTimeout(t) \/ AwaitWake(t)
    BY <1>2 DEF Next
  <2>1. CASE LockCall(t)
    BY <2>1 DEF LockCall
  <2>2. CASE LockWhenCall(t)
    BY <2>2 DEF LockWhenCall
  <2>3. CASE AwaitCall(t)
    BY <2>3 DEF AwaitCall, AwaitFns
  <2>4. CASE Write(t)
    BY <2>4 DEF Write
  <2>5. CASE Exit(t)
    BY <2>5 DEF Exit, OwnerDies
  <2>6. CASE Unlock(t)
    BY <2>6 DEF Unlock, NotifyAll
  <2>7. CASE UnlockRelease(t)
    BY <2>7 DEF UnlockRelease, MutexUnlock, HealthAfterUnlock
  <2>8. CASE Lock(t)
    BY <2>8 DEF Lock, MutexCall, MutexLock, MutexLockUntil, MutexTryLock, Free, HeldByOther
  <2>9. CASE LockWhen(t)
    BY <2>9 DEF LockWhen, MutexCall, MutexLock, MutexLockUntil, MutexTryLock, Free, HeldByOther
  <2>10. CASE AwaitMet(t)
    BY <2>10 DEF AwaitMet
  <2>11. CASE AwaitEntry(t)
    BY <2>11 DEF AwaitEntry, NotifyAll
  <2>12. CASE AwaitNotify(t)
    BY <2>12 DEF AwaitNotify, NotifyAll
  <2>13. CASE AwaitSleep(t)
    BY <2>13 DEF AwaitSleep, FallAsleep, MutexUnlock, HealthAfterUnlock
  <2>14. CASE AwaitRefused(t)
    BY <2>14 DEF AwaitRefused, WaitRefused, MutexUnlock, AfterWait, LeavesLoop
  <2>15. CASE AwaitEval(t)
    BY <2>15 DEF AwaitEval
  <2>16. CASE SpuriousWake(t)
    BY <2>16 DEF SpuriousWake, Stir
  <2>17. CASE WakeTimeout(t)
    BY <2>17 DEF WakeTimeout, Stir
  <2>18. CASE AwaitWake(t)
    BY <2>18 DEF AwaitWake, WakeUp, MutexLock, Free, AfterWait, LeavesLoop
  <2>19. QED
    BY <2>1, <2>2, <2>3, <2>4, <2>5, <2>6, <2>7, <2>8, <2>9, <2>10, <2>11, <2>12, <2>13, <2>14, <2>15, <2>16, <2>17, <2>18
       DEF Client, Locking, Awaiting
<1>3. QED
  BY <1>1, <1>2

THEOREM InvariantHolds == Spec => []IInv
<1>1. QED
  BY TypeInit, TypeNext, IInvInit, IInvNext, PTL DEF Spec

(***************************************************************************)
(* A free mutex leaves no sleeper behind whose condition holds: the        *)
(* broadcasts in unlock and await are enough, whatever the conditions.     *)
(***************************************************************************)
THEOREM NoWakeupIsLost == Spec => []NoLostWakeup
<1>1. IInv => NoLostWakeup
  BY DEF IInv
<1>2. QED
  BY <1>1, InvariantHolds, PTL

(***************************************************************************)
(* Conditions are evaluated, and waits entered, with the mutex held; only  *)
(* await_until on a mutex that became unrecoverable escapes this.          *)
(***************************************************************************)
THEOREM AwaitsUnderLock == Spec => []AwaitUnderLock
<1>1. IInv => AwaitUnderLock
  BY DEF IInv
<1>2. QED
  BY <1>1, InvariantHolds, PTL

(***************************************************************************)
(* The await functions return with the mutex held, or the mutex cannot be  *)
(* held any more.  This needs the invariant: that the thread that returns  *)
(* from an evaluation owns the mutex is AwaitUnderLock.                    *)
(***************************************************************************)
LEMMA AwaitReturnsHoldingStep ==
  TypeOK /\ IInv /\ [Next]_vars
    => [\A t \in Threads :
          InAwait(t) /\ pc'[t] = "idle"
            => owner' = t \/ health' = "notrecoverable"]_vars
<1> SUFFICES ASSUME TypeOK, IInv, Next,
                    NEW u \in Threads, InAwait(u), pc'[u] = "idle"
             PROVE  owner' = u \/ health' = "notrecoverable"
  BY DEF vars
<1> PICK t \in Threads :
      \/ Client(t) \/ Unlock(t) \/ UnlockRelease(t) \/ Locking(t)
      \/ Awaiting(t) \/ SpuriousWake(t) \/ WakeTimeout(t) \/ AwaitWake(t)
  BY DEF Next
<1> USE DEF TypeOK, Goto, Begin, Return, InAwait, mutexVars
<1>1. CASE Client(t) \/ Unlock(t) \/ UnlockRelease(t) \/ Locking(t)
  BY <1>1 DEF Client, LockCall, LockWhenCall, AwaitCall, Write, Exit, Unlock,
              UnlockRelease, Locking, Lock, LockWhen
<1>2. CASE AwaitMet(t) \/ AwaitEval(t) \/ AwaitRefused(t)
  BY <1>2 DEF AwaitMet, AwaitEval, AwaitRefused, WaitRefused, MutexUnlock,
              AfterWait, IInv, AwaitUnderLock
<1>3. CASE AwaitEntry(t) \/ AwaitNotify(t) \/ AwaitSleep(t)
  BY <1>3 DEF AwaitEntry, AwaitNotify, AwaitSleep
<1>4. CASE SpuriousWake(t) \/ WakeTimeout(t)
  BY <1>4 DEF SpuriousWake, WakeTimeout
<1>5. CASE AwaitWake(t)
  BY <1>5 DEF AwaitWake, WakeUp, MutexLock, Free, AfterWait
<1>6. QED
  BY <1>1, <1>2, <1>3, <1>4, <1>5 DEF Awaiting

THEOREM AwaitsReturnHolding == Spec => AwaitReturnsHolding
<1>1. QED
  BY TypeCorrect, InvariantHolds, AwaitReturnsHoldingStep, PTL
     DEF Spec, AwaitReturnsHolding

(***************************************************************************)
(* The thread that takes the mutex over from a dead owner is told so by    *)
(* the call that takes it, unless it is inside await_until.                *)
(***************************************************************************)
LEMMA OwnerDeathReportedStep ==
  TypeOK /\ IInv /\ [Next]_vars
    => [\A t \in Threads :
          owner = NoThread /\ owner' = t /\ health = "inconsistent"
            => \/ pc'[t] = "idle" /\ ret'[t] = "OWNER_DEAD"
               \/ Timed(t) /\ pc[t] = "sleep"]_vars
<1> SUFFICES ASSUME TypeOK, IInv, Next,
                    NEW u \in Threads,
                    owner = NoThread, owner' = u, health = "inconsistent"
             PROVE  \/ pc'[u] = "idle" /\ ret'[u] = "OWNER_DEAD"
                    \/ Timed(u) /\ pc[u] = "sleep"
  BY DEF vars
<1> PICK t \in Threads :
      \/ Client(t) \/ Unlock(t) \/ UnlockRelease(t) \/ Locking(t)
      \/ Awaiting(t) \/ SpuriousWake(t) \/ WakeTimeout(t) \/ AwaitWake(t)
  BY DEF Next
<1> USE NoThreadAssumption DEF TypeOK, Goto, Return, mutexVars
<1>1. CASE Client(t) \/ Unlock(t) \/ UnlockRelease(t)
  BY <1>1 DEF Client, LockCall, LockWhenCall, AwaitCall, Write, Exit, OwnerDies,
              Unlock, UnlockRelease, MutexUnlock
<1>2. CASE Locking(t)
  BY <1>2 DEF Locking, Lock, LockWhen, MutexCall, MutexLock, MutexLockUntil,
              MutexTryLock, Free
<1>3. CASE Awaiting(t) \/ SpuriousWake(t) \/ WakeTimeout(t)
  BY <1>3 DEF Awaiting, AwaitMet, AwaitEntry, AwaitNotify, AwaitSleep, FallAsleep,
              AwaitRefused, WaitRefused, MutexUnlock, AwaitEval,
              SpuriousWake, WakeTimeout, Stir
<1>4. CASE AwaitWake(t)
  BY <1>4 DEF AwaitWake, WakeUp, MutexLock, Free, AfterWait, LeavesLoop
<1>5. QED
  BY <1>1, <1>2, <1>3, <1>4

THEOREM OwnerDeathsReported == Spec => OwnerDeathReported
<1>1. QED
  BY TypeCorrect, InvariantHolds, OwnerDeathReportedStep, PTL
     DEF Spec, OwnerDeathReported

-----------------------------------------------------------------------------
(***************************************************************************)
(* The refinement of ConditionalRegion, for threads that do not die.  The  *)
(* mutex stays consistent, so its errors are those of the client alone,    *)
(* and a thread inside await has a request on record.                      *)
(***************************************************************************)
OnRecord(t) ==
  /\ pc[t] \in {"await", "notify", "wait", "sleep", "eval"} \/ fn[t] \in LockWhenFns
       => cond[t] \in Conditions
  /\ pc[t] \in {"idle", "unlock"} => fn[t] \notin LockWhenFns
  /\ pc[t] \in {"lock", "await", "notify", "wait", "eval"} => ret[t] = "OK"
  /\ pc[t] = "sleep" => ret[t] = "OK" \/ (ret[t] = "TIMED_OUT" /\ Timed(t))
  /\ pc[t] # "dead"

RefInv == health = "consistent" /\ \A t \in Threads : OnRecord(t)

LEMMA RefInvInit == Init => RefInv
  BY DEF Init, MutexInit, RefInv, OnRecord, LockWhenFns

LEMMA RefInvNext ==
  ASSUME Mortal = {}
  PROVE  TypeOK /\ IInv /\ RefInv /\ [Next]_vars => RefInv'
<1> SUFFICES ASSUME TypeOK, IInv, RefInv, [Next]_vars PROVE RefInv'
  OBVIOUS
<1> USE DEF TypeOK, RefInv, OnRecord, Goto, Begin, Return, mutexVars, callVars,
            LockFns, LockWhenFns, AwaitFns, Timed
<1>1. CASE UNCHANGED vars
  BY <1>1 DEF vars
<1>2. CASE Next
  <2> PICK t \in Threads :
        \/ Client(t) \/ Unlock(t) \/ UnlockRelease(t) \/ Locking(t)
        \/ Awaiting(t) \/ SpuriousWake(t) \/ WakeTimeout(t) \/ AwaitWake(t)
    BY <1>2 DEF Next
  <2>1. CASE LockCall(t)
    BY <2>1 DEF LockCall
  <2>2. CASE LockWhenCall(t)
    BY <2>2 DEF LockWhenCall
  <2>3. CASE AwaitCall(t)
    BY <2>3 DEF AwaitCall
  <2>4. CASE Write(t)
    BY <2>4 DEF Write
  <2>5. CASE Exit(t)
    BY <2>5 DEF Exit
  <2>6. CASE Unlock(t)
    BY <2>6 DEF Unlock, NotifyAll
  <2>7. CASE UnlockRelease(t)
    BY <2>7 DEF UnlockRelease, MutexUnlock, HealthAfterUnlock
  <2>8. CASE Lock(t)
    BY <2>8 DEF Lock, MutexCall, MutexLock, MutexLockUntil, MutexTryLock
  <2>9. CASE LockWhen(t)
    BY <2>9 DEF LockWhen, MutexCall, MutexLock, MutexLockUntil, MutexTryLock
  <2>10. CASE AwaitMet(t)
    BY <2>10 DEF AwaitMet
  <2>11. CASE AwaitEntry(t)
    BY <2>11 DEF AwaitEntry
  <2>12. CASE AwaitNotify(t)
    BY <2>12 DEF AwaitNotify
  <2>13. CASE AwaitSleep(t)
    BY <2>13 DEF AwaitSleep, FallAsleep, MutexUnlock, HealthAfterUnlock
  <2>14. CASE AwaitRefused(t)
    BY <2>14 DEF AwaitRefused, WaitRefused, MutexUnlock, AfterWait, IInv, AwaitUnderLock
  <2>15. CASE AwaitEval(t)
    BY <2>15 DEF AwaitEval
  <2>16. CASE SpuriousWake(t)
    BY <2>16 DEF SpuriousWake, Stir, IInv, SleepersDoNotOwn
  <2>17. CASE WakeTimeout(t)
    BY <2>17 DEF WakeTimeout, Stir, IInv, SleepersDoNotOwn
  <2>18. CASE AwaitWake(t)
    BY <2>18 DEF AwaitWake, WakeUp, MutexLock, AfterWait, LeavesLoop
  <2>19. QED
    BY <2>1, <2>2, <2>3, <2>4, <2>5, <2>6, <2>7, <2>8, <2>9, <2>10, <2>11, <2>12, <2>13, <2>14, <2>15, <2>16, <2>17, <2>18
       DEF Client, Locking, Awaiting
<1>3. QED
  BY <1>1, <1>2

(***************************************************************************)
(* A step of thread t leaves the requests of the others alone: it moves    *)
(* only t, and the mutex only between t and nobody.                        *)
(***************************************************************************)
OnlyMoves(t) ==
  /\ owner' # owner => owner \in {t, NoThread} /\ owner' \in {t, NoThread}
  /\ \A u \in Threads \ {t} :
       pc'[u] = pc[u] /\ fn'[u] = fn[u] /\ cond'[u] = cond[u]

LEMMA OthersKeepTheirRequests ==
  ASSUME NEW t \in Threads, OnlyMoves(t)
  PROVE  /\ \A u \in Threads \ {t} : Waits(u)' <=> Waits(u)
         /\ RegionWaiting' = [RegionWaiting EXCEPT ![t] = RequestOf(t)']
<1>1. \A u \in Threads \ {t} : Waits(u)' <=> Waits(u)
  BY NoThreadAssumption DEF OnlyMoves, Waits
<1>2. \A u \in Threads \ {t} : RequestOf(u)' = RequestOf(u)
  BY <1>1 DEF OnlyMoves, RequestOf, Timed
<1>3. QED
  BY <1>1, <1>2 DEF RegionWaiting

LEMMA StepsOfOneThread ==
  ASSUME TypeOK, NEW t \in Threads,
         \/ Client(t) \/ Unlock(t) \/ UnlockRelease(t) \/ Locking(t)
         \/ Awaiting(t) \/ SpuriousWake(t) \/ WakeTimeout(t) \/ AwaitWake(t)
  PROVE  OnlyMoves(t)
<1> USE DEF OnlyMoves, TypeOK, MutexTypeOK, Goto, Begin, Return, mutexVars, callVars
<1>1. CASE Client(t)
  BY <1>1 DEF Client, LockCall, LockWhenCall, AwaitCall, Write, Exit, OwnerDies
<1>2. CASE Unlock(t) \/ UnlockRelease(t)
  BY <1>2 DEF Unlock, UnlockRelease, MutexUnlock
<1>3. CASE Locking(t)
  BY <1>3 DEF Locking, Lock, LockWhen, MutexCall, MutexLock, MutexLockUntil,
              MutexTryLock, Free
<1>4. CASE Awaiting(t)
  BY <1>4 DEF Awaiting, AwaitMet, AwaitEntry, AwaitNotify, AwaitSleep, FallAsleep,
              AwaitRefused, WaitRefused, MutexUnlock, AfterWait, AwaitEval
<1>5. CASE SpuriousWake(t) \/ WakeTimeout(t)
  BY <1>5 DEF SpuriousWake, WakeTimeout, Stir
<1>6. CASE AwaitWake(t)
  BY <1>6 DEF AwaitWake, WakeUp, MutexLock, Free, AfterWait
<1>7. QED
  BY <1>1, <1>2, <1>3, <1>4, <1>5, <1>6

(***************************************************************************)
(* The steps the region does not see: t waits before and after, or neither *)
(* before nor after, and the mutex moves only while t waits.               *)
(***************************************************************************)
LEMMA Invisible ==
  ASSUME TypeOK, NEW t \in Threads, OnlyMoves(t), data' = data,
         Waits(t)' <=> Waits(t), Waits(t) => RequestOf(t)' = RequestOf(t),
         owner' = owner \/ Waits(t)
  PROVE  UNCHANGED <<RegionHolder, data, RegionWaiting>>
<1>1. RequestOf(t)' = RequestOf(t)
  BY DEF RequestOf
<1>2. RegionWaiting' = RegionWaiting
  BY <1>1, OthersKeepTheirRequests DEF RegionWaiting
<1>3. RegionHolder' = RegionHolder
  BY OthersKeepTheirRequests, NoThreadAssumption
     DEF RegionHolder, OnlyMoves, TypeOK, MutexTypeOK
<1>4. QED
  BY <1>2, <1>3

LEMMA RegionInit == Init => Region!Init
<1> SUFFICES ASSUME Init PROVE Region!Init
  OBVIOUS
<1>1. \A t \in Threads : ~Waits(t)
  BY DEF Init, Waits, LockWhenFns
<1>2. RegionWaiting = [t \in Threads |-> {}]
  BY <1>1 DEF RegionWaiting, RequestOf
<1>3. RegionHolder = NoThread
  BY DEF Init, MutexInit, RegionHolder
<1>4. QED
  BY <1>2, <1>3 DEF Init, Region!Init

LEMMA RegionNext ==
  ASSUME Mortal = {}, TypeOK, IInv, RefInv, RefInv', Next
  PROVE  Region!Next \/ UNCHANGED Region!regionVars
<1> PICK t \in Threads :
      \/ Client(t) \/ Unlock(t) \/ UnlockRelease(t) \/ Locking(t)
      \/ Awaiting(t) \/ SpuriousWake(t) \/ WakeTimeout(t) \/ AwaitWake(t)
  BY DEF Next
<1> DEFINE Visible == \/ Region!Enter(t) \/ Region!Leave(t) \/ Region!Update(t)
                      \/ Region!Approach(t) \/ Region!StepOut(t)
                      \/ Region!Resume(t) \/ Region!GiveUp(t)
           Unseen == UNCHANGED <<RegionHolder, data, RegionWaiting>>
<1>o. OnlyMoves(t)
  BY StepsOfOneThread
<1>w. RegionWaiting' = [RegionWaiting EXCEPT ![t] = RequestOf(t)']
  BY <1>o, OthersKeepTheirRequests
<1>u. \A u \in Threads \ {t} : Waits(u)' <=> Waits(u)
  BY <1>o, OthersKeepTheirRequests
<1>r. RegionWaiting[t] = RequestOf(t)
  BY DEF RegionWaiting
<1> USE NoThreadAssumption
<1>resume. ASSUME data' = data, owner' = owner, owner = t, ~Waits(t)', Waits(t),
                  data \in cond[t]
           PROVE  Region!Resume(t)
  <2>1. RegionHolder = NoThread /\ RegionHolder' = t
    BY <1>resume DEF RegionHolder
  <2>2. RequestOf(t)' = {} /\ RequestOf(t) = {[cond |-> cond[t], timed |-> Timed(t)]}
    BY <1>resume DEF RequestOf
  <2>3. QED
    BY <2>1, <2>2, <1>resume, <1>w, <1>r DEF Region!Resume
<1> USE DEF TypeOK, MutexTypeOK, Goto, Begin, Return, mutexVars, callVars
<1>1. CASE LockCall(t)
  <2>1. /\ data' = data /\ owner' = owner
        /\ ~Waits(t) /\ ~Waits(t)'
    BY <1>1 DEF LockCall, Waits, LockFns, LockWhenFns, RefInv, OnRecord
  <2>2. Unseen
    BY <2>1, <1>o, Invisible
  <2>3. QED
    BY <2>2 DEF Region!regionVars
<1>2. CASE LockWhenCall(t)
  <2>1. CASE owner = t
    <3>1. /\ data' = data /\ owner' = owner
          /\ ~Waits(t) /\ ~Waits(t)'
      BY <1>2, <2>1 DEF LockWhenCall, Waits, LockWhenFns, RefInv, OnRecord
    <3>2. Unseen
      BY <3>1, <1>o, Invisible
    <3>3. QED
      BY <3>2 DEF Region!regionVars
  <2>2. CASE owner # t
    <3>1. PICK f \in LockWhenFns, c \in Conditions : Begin(t, f, c, "lock")
      BY <1>2 DEF LockWhenCall
    <3>2. /\ data' = data /\ owner' = owner /\ ~Waits(t) /\ Waits(t)'
          /\ cond'[t] = c
      BY <1>2, <2>2, <3>1 DEF LockWhenCall, Waits, LockWhenFns, RefInv, OnRecord
    <3>3. RequestOf(t)' = {[cond |-> c, timed |-> Timed(t)']} /\ RequestOf(t) = {}
      BY <3>2 DEF RequestOf
    <3>4. [cond |-> c, timed |-> Timed(t)'] \in Region!Requests
      BY DEF Region!Requests, Timed
    <3>5. RegionHolder' = RegionHolder /\ RegionHolder # t
      BY <3>2, <2>2, <1>u DEF RegionHolder
    <3>6. Region!Approach(t)
      BY <3>2, <3>3, <3>4, <3>5, <1>w, <1>r DEF Region!Approach
    <3>7. QED
      BY <3>6 DEF Region!Next
  <2>3. QED
    BY <2>1, <2>2
<1>3. CASE AwaitCall(t)
  <2>1. /\ data' = data /\ owner' = owner
        /\ ~Waits(t) /\ ~Waits(t)'
    BY <1>3 DEF AwaitCall, Waits, AwaitFns, LockWhenFns, RefInv, OnRecord
  <2>2. Unseen
    BY <2>1, <1>o, Invisible
  <2>3. QED
    BY <2>2 DEF Region!regionVars
<1>4. CASE Write(t)
  <2>1. /\ data' \in Data /\ owner = t /\ owner' = owner
        /\ ~Waits(t) /\ ~Waits(t)'
    BY <1>4 DEF Write, Waits, RefInv, OnRecord
  <2>2. RegionHolder = t /\ RegionHolder' = t /\ RegionWaiting' = RegionWaiting
    BY <2>1, <1>w DEF RegionHolder, RequestOf, RegionWaiting
  <2>3. Region!Update(t)
    BY <2>1, <2>2 DEF Region!Update
  <2>4. QED
    BY <2>3 DEF Region!Next
<1>5. CASE Exit(t)
  BY <1>5 DEF Exit
<1>6. CASE Unlock(t)
  <2>1. /\ data' = data /\ owner' = owner
        /\ ~Waits(t) /\ ~Waits(t)'
    BY <1>6 DEF Unlock, Waits, LockWhenFns, RefInv, OnRecord
  <2>2. Unseen
    BY <2>1, <1>o, Invisible
  <2>3. QED
    BY <2>2 DEF Region!regionVars
<1>7. CASE UnlockRelease(t)
  <2>1. /\ data' = data /\ ~Waits(t) /\ ~Waits(t)'
        /\ owner' = (IF owner = t THEN NoThread ELSE owner)
    BY <1>7 DEF UnlockRelease, MutexUnlock, Waits, LockWhenFns, RefInv, OnRecord
  <2>2. CASE owner = t
    <3>1. RegionHolder = t /\ RegionHolder' = NoThread
      BY <2>1, <2>2 DEF RegionHolder
    <3>2. RegionWaiting' = RegionWaiting
      BY <2>1, <1>w DEF RequestOf, RegionWaiting
    <3>3. Region!Leave(t)
      BY <2>1, <3>1, <3>2 DEF Region!Leave
    <3>4. QED
      BY <3>3 DEF Region!Next
  <2>3. CASE owner # t
    <3>1. Unseen
      BY <2>1, <2>3, <1>o, Invisible
    <3>2. QED
      BY <3>1 DEF Region!regionVars
  <2>4. QED
    BY <2>2, <2>3
<1>8. CASE Lock(t)
  <2>1. /\ data' = data /\ ~Waits(t)'
        /\ \/ owner = NoThread /\ owner' = t /\ ~Waits(t)
           \/ owner' = owner /\ ~Waits(t)
    BY <1>8 DEF Lock, MutexCall, MutexLock, MutexLockUntil, MutexTryLock, Free,
                HeldByOther, Waits, LockWhenFns, RefInv, OnRecord
  <2>2. CASE owner = NoThread /\ owner' = t
    <3>1. RegionHolder = NoThread /\ RegionHolder' = t
      BY <2>1, <2>2 DEF RegionHolder
    <3>2. RegionWaiting' = RegionWaiting /\ RegionWaiting[t] = {}
      BY <2>1, <1>w, <1>r DEF RequestOf, RegionWaiting
    <3>3. Region!Enter(t)
      BY <2>1, <3>1, <3>2 DEF Region!Enter
    <3>4. QED
      BY <3>3 DEF Region!Next
  <2>3. CASE owner' = owner
    <3>1. Unseen
      BY <2>1, <2>3, <1>o, Invisible
    <3>2. QED
      BY <3>1 DEF Region!regionVars
  <2>4. QED
    BY <2>1, <2>2, <2>3
<1>9. CASE LockWhen(t)
  <2>1. /\ data' = data /\ Waits(t) /\ Waits(t)'
        /\ RequestOf(t)' = RequestOf(t)
    BY <1>9 DEF LockWhen, MutexCall, MutexLock, MutexLockUntil, MutexTryLock, Free,
                HeldByOther, Waits, LockWhenFns, RequestOf, Timed
  <2>2. Unseen
    BY <2>1, <1>o, Invisible
  <2>3. QED
    BY <2>2 DEF Region!regionVars
<1>10. CASE AwaitMet(t)
  <2>1. /\ data' = data /\ owner' = owner /\ owner = t /\ ~Waits(t)'
        /\ data \in cond[t]
    BY <1>10 DEF AwaitMet, Holds, Waits, LockWhenFns, RefInv, OnRecord, IInv, AwaitUnderLock
  <2>2. CASE Waits(t)
    <3>1. Region!Resume(t)
      BY <2>1, <2>2, <1>w, <1>r, <1>resume
    <3>2. QED
      BY <3>1 DEF Region!Next
  <2>3. CASE ~Waits(t)
    <3>1. Unseen
      BY <2>1, <2>3, <1>o, Invisible
    <3>2. QED
      BY <3>1 DEF Region!regionVars
  <2>4. QED
    BY <2>2, <2>3
<1>11. CASE AwaitEntry(t)
  <2>1. /\ data' = data /\ owner' = owner /\ owner = t /\ Waits(t)'
        /\ data \notin cond[t] /\ cond'[t] \in Conditions
        /\ Waits(t) => RequestOf(t)' = RequestOf(t)
    BY <1>11 DEF AwaitEntry, Holds, Waits, RequestOf, Timed, RefInv, OnRecord, IInv, AwaitUnderLock
  <2>2. CASE Waits(t)
    <3>1. Unseen
      BY <2>1, <2>2, <1>o, Invisible
    <3>2. QED
      BY <3>1 DEF Region!regionVars
  <2>3. CASE ~Waits(t)
    <3>1. RegionHolder = t /\ RegionHolder' = NoThread
      BY <2>1, <2>3 DEF RegionHolder
    <3>2. cond'[t] = cond[t]
      BY <1>11 DEF AwaitEntry
    <3>3. RequestOf(t)' = {[cond |-> cond[t], timed |-> Timed(t)']}
      BY <2>1, <3>2 DEF RequestOf
    <3>4. [cond |-> cond[t], timed |-> Timed(t)'] \in Region!Requests
      BY <2>1, <3>2 DEF Region!Requests, Timed
    <3>5. Region!StepOut(t)
      BY <2>1, <3>1, <3>3, <3>4, <1>w DEF Region!StepOut
    <3>6. QED
      BY <3>5 DEF Region!Next
  <2>4. QED
    BY <2>2, <2>3
<1>12. CASE AwaitNotify(t)
  <2>1. /\ data' = data /\ Waits(t) /\ Waits(t)'
        /\ RequestOf(t)' = RequestOf(t)
    BY <1>12 DEF AwaitNotify, Waits, RequestOf, Timed
  <2>2. Unseen
    BY <2>1, <1>o, Invisible
  <2>3. QED
    BY <2>2 DEF Region!regionVars
<1>13. CASE AwaitSleep(t)
  <2>1. /\ data' = data /\ Waits(t) /\ Waits(t)'
        /\ RequestOf(t)' = RequestOf(t)
    BY <1>13 DEF AwaitSleep, FallAsleep, MutexUnlock, Waits, RequestOf, Timed
  <2>2. Unseen
    BY <2>1, <1>o, Invisible
  <2>3. QED
    BY <2>2 DEF Region!regionVars
<1>14. CASE AwaitRefused(t)
  BY <1>14 DEF AwaitRefused, WaitRefused, MutexUnlock, IInv, AwaitUnderLock, RefInv
<1>15. CASE AwaitEval(t)
  <2>1. CASE Holds(t)
    <3>1. /\ data' = data /\ owner' = owner /\ owner = t /\ ~Waits(t)'
          /\ data \in cond[t] /\ Waits(t)
      BY <1>15, <2>1 DEF AwaitEval, Holds, Waits, LockWhenFns, RefInv, IInv, AwaitUnderLock
    <3>2. Region!Resume(t)
      BY <3>1, <1>w, <1>r, <1>resume
    <3>3. QED
      BY <3>2 DEF Region!Next
  <2>2. CASE ~Holds(t)
    <3>1. /\ data' = data /\ Waits(t) /\ Waits(t)'
          /\ RequestOf(t)' = RequestOf(t)
      BY <1>15, <2>2 DEF AwaitEval, Waits, RequestOf, Timed
    <3>2. Unseen
      BY <3>1, <1>o, Invisible
    <3>3. QED
      BY <3>2 DEF Region!regionVars
  <2>3. QED
    BY <2>1, <2>2
<1>16. CASE SpuriousWake(t)
  <2>1. /\ data' = data /\ owner' = owner /\ (Waits(t)' <=> Waits(t))
        /\ RequestOf(t)' = RequestOf(t)
    BY <1>16 DEF SpuriousWake, Stir, Waits, RequestOf, Timed
  <2>2. Unseen
    BY <2>1, <1>o, Invisible
  <2>3. QED
    BY <2>2 DEF Region!regionVars
<1>17. CASE WakeTimeout(t)
  <2>1. /\ data' = data /\ owner' = owner /\ (Waits(t)' <=> Waits(t))
        /\ RequestOf(t)' = RequestOf(t)
    BY <1>17 DEF WakeTimeout, Stir, Waits, RequestOf, Timed
  <2>2. Unseen
    BY <2>1, <1>o, Invisible
  <2>3. QED
    BY <2>2 DEF Region!regionVars
<1>18. CASE AwaitWake(t)
  <2>1. /\ owner = NoThread /\ owner' = t /\ data' = data /\ Waits(t)
        /\ AfterWait(t, ret[t])
    BY <1>18 DEF AwaitWake, WakeUp, MutexLock, Free, Waits, RefInv, IInv, SleepersDoNotOwn
  <2>2. CASE ~LeavesLoop(t, ret[t])
    <3>1. Waits(t)' /\ RequestOf(t)' = RequestOf(t)
      BY <1>18, <2>1, <2>2 DEF AwaitWake, AfterWait, Waits, RequestOf, Timed
    <3>2. Unseen
      BY <2>1, <3>1, <1>o, Invisible
    <3>3. QED
      BY <3>2 DEF Region!regionVars
  <2>3. CASE LeavesLoop(t, ret[t])
    <3>1. Timed(t)
      BY <1>18, <2>3 DEF AwaitWake, LeavesLoop, RefInv, OnRecord
    <3>2. ~Waits(t)'
      BY <2>1, <2>3 DEF AfterWait, Waits, LockWhenFns
    <3>3. RegionHolder = NoThread /\ RegionHolder' = t
      BY <2>1, <3>2 DEF RegionHolder
    <3>4. RequestOf(t)' = {} /\ RequestOf(t) = {[cond |-> cond[t], timed |-> Timed(t)]}
      BY <2>1, <3>2 DEF RequestOf
    <3>5. Region!GiveUp(t)
      BY <2>1, <3>1, <3>3, <3>4, <1>w, <1>r DEF Region!GiveUp
    <3>6. QED
      BY <3>5 DEF Region!Next
  <2>4. QED
    BY <2>2, <2>3
<1>19. QED
  BY <1>1, <1>2, <1>3, <1>4, <1>5, <1>6, <1>7, <1>8, <1>9, <1>10, <1>11, <1>12, <1>13, <1>14, <1>15, <1>16, <1>17, <1>18
     DEF Client, Locking, Awaiting

THEOREM ImplementsRegion == ASSUME Mortal = {} PROVE Spec => RegionSpec
<1>1. Init => Region!Init
  BY RegionInit
<1>2. TypeOK /\ IInv /\ RefInv /\ RefInv' /\ [Next]_vars
        => [Region!Next]_(Region!regionVars)
  <2> SUFFICES ASSUME TypeOK, IInv, RefInv, RefInv', [Next]_vars
               PROVE  Region!Next \/ UNCHANGED Region!regionVars
    OBVIOUS
  <2>1. CASE Next
    BY <2>1, RegionNext
  <2>2. CASE UNCHANGED vars
    BY <2>2 DEF vars, Region!regionVars, RegionHolder, RegionWaiting, RequestOf,
                Waits, Timed
  <2>3. QED
    BY <2>1, <2>2
<1>3. Spec => []RefInv
  BY TypeCorrect, InvariantHolds, RefInvInit, RefInvNext, PTL DEF Spec
<1>4. QED
  BY <1>1, <1>2, <1>3, TypeCorrect, InvariantHolds, PTL DEF Spec, RegionSpec, Region!Spec

=============================================================================
