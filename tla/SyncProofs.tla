---------------------------- MODULE SyncProofs ------------------------------
(***************************************************************************)
(* What is proved of the small primitives, for any threads: the scoped     *)
(* lock, the semaphore, the two variants of the assertion handler, and the *)
(* life of the objects that all the primitives are kept in.                *)
(***************************************************************************)
EXTENDS LockGuard, Semaphore, AssertHandler, SyncObject,
        RecursionLemmas, SequenceTheorems

(***************************************************************************)
(* Scoped locks, for any threads, any of which may be careless, and any    *)
(* nesting.  The property is almost inductive: it only lacks that a        *)
(* lockable with an owner is held at least once, so that giving it up and  *)
(* holding it no longer are the same.                                      *)
(***************************************************************************)
GuardResults == {"OK", "RESOURCE_DEADLOCK_WOULD_OCCUR", "DEVICE_OR_RESOURCE_BUSY",
            "TIMED_OUT", "NOT_IMPLEMENTED"}

GuardTyped ==
  /\ careful \subseteq Threads
  /\ lockOwner \in Threads \union {Nobody}
  /\ depth \in Nat
  /\ scopes \in [Threads -> Seq(GuardResults)]
  /\ undefined \in BOOLEAN

OwnedAtLeastOnce == IF lockOwner = Nobody THEN depth = 0 ELSE depth > 0

GuardInv == GuardTyped /\ OwnedAtLeastOnce /\ GuardsHold

-----------------------------------------------------------------------------
\* Successes of a longer and of a shorter sequence.
LEMMA SuccessesFinite ==
  ASSUME NEW errors \in Seq(GuardResults)
  PROVE  /\ IsFiniteSet(Successes(errors))
         /\ Cardinality(Successes(errors)) \in Nat
<1>1. IsFiniteSet(1 .. Len(errors))
  BY FS_Interval
<1>2. Successes(errors) \subseteq 1 .. Len(errors)
  BY DEF Successes
<1> QED BY <1>1, <1>2, FS_Subset, FS_CardinalityType

LEMMA OneMore ==
  ASSUME NEW errors \in Seq(GuardResults)
  PROVE  /\ Append(errors, "OK") \in Seq(GuardResults)
         /\ Cardinality(Successes(Append(errors, "OK"))) =
              Cardinality(Successes(errors)) + 1
<1>1. Append(errors, "OK") \in Seq(GuardResults)
  BY DEF GuardResults
<1>2. Successes(Append(errors, "OK")) = Successes(errors) \union {Len(errors) + 1}
  BY DEF Successes
<1>3. Len(errors) + 1 \notin Successes(errors)
  BY DEF Successes
<1> QED BY <1>1, <1>2, <1>3, SuccessesFinite, FS_AddElement

LEMMA NoneMore ==
  ASSUME NEW errors \in Seq(GuardResults), NEW e \in GuardResults, e # "OK"
  PROVE  /\ Append(errors, e) \in Seq(GuardResults)
         /\ Successes(Append(errors, e)) = Successes(errors)
BY DEF Successes

LEMMA OneLess ==
  ASSUME NEW errors \in Seq(GuardResults), errors # << >>
  PROVE  LET shorter == SubSeq(errors, 1, Len(errors) - 1)
         IN  /\ shorter \in Seq(GuardResults)
             /\ errors[Len(errors)] \in GuardResults
             /\ errors[Len(errors)] = "OK" =>
                  /\ Len(errors) \in Successes(errors)
                  /\ Cardinality(Successes(shorter)) =
                       Cardinality(Successes(errors)) - 1
             /\ errors[Len(errors)] # "OK" =>
                  Successes(shorter) = Successes(errors)
<1> DEFINE shorter == SubSeq(errors, 1, Len(errors) - 1)
<1>1. Len(errors) \in Nat \ {0}
  OBVIOUS
<1>2. /\ shorter \in Seq(GuardResults) /\ Len(shorter) = Len(errors) - 1
      /\ \A i \in 1 .. Len(errors) - 1 : shorter[i] = errors[i]
  <2>1. \A i \in 1 .. Len(errors) - 1 : errors[i] \in GuardResults
    BY <1>1
  <2>2. /\ shorter \in Seq(GuardResults)
        /\ Len(shorter) = IF 1 <= Len(errors) - 1 THEN (Len(errors) - 1) - 1 + 1 ELSE 0
        /\ \A i \in 1 .. (Len(errors) - 1) - 1 + 1 : shorter[i] = errors[1 + i - 1]
    BY <1>1, <2>1, SubSeqProperties
  <2> HIDE DEF shorter
  <2>3. Len(shorter) = Len(errors) - 1
    <3>1. \A n \in Nat \ {0} : (IF 1 <= n - 1 THEN (n - 1) - 1 + 1 ELSE 0) = n - 1
      OBVIOUS
    <3> QED BY <1>1, <2>2, <3>1
  <2>4. \A i \in 1 .. Len(errors) - 1 : shorter[i] = errors[i]
    BY <1>1, <2>2
  <2> QED BY <2>2, <2>3, <2>4
<1>3. Successes(shorter) = Successes(errors) \ {Len(errors)}
  BY <1>1, <1>2 DEF Successes
<1>4. CASE errors[Len(errors)] = "OK"
  <2>1. Len(errors) \in Successes(errors)
    BY <1>1, <1>4 DEF Successes
  <2>2. Cardinality(Successes(shorter)) = Cardinality(Successes(errors)) - 1
    BY <1>3, <2>1, SuccessesFinite, FS_RemoveElement
  <2> QED BY <1>1, <1>2, <1>4, <2>1, <2>2
<1>5. CASE errors[Len(errors)] # "OK"
  BY <1>1, <1>2, <1>3, <1>5 DEF Successes
<1> QED BY <1>4, <1>5

LEMMA EmptyCardinality ==
  ASSUME NEW errors \in Seq(GuardResults)
  PROVE  Cardinality(Successes(errors)) = 0 <=> Successes(errors) = {}
BY SuccessesFinite, FS_EmptySet

-----------------------------------------------------------------------------
LEMMA GuardInitInv == GuardInit => GuardInv
<1> SUFFICES ASSUME GuardInit PROVE GuardInv
  OBVIOUS
<1>1. GuardTyped /\ OwnedAtLeastOnce
  <2>1. << >> \in Seq(GuardResults)
    OBVIOUS
  <2> QED BY <2>1 DEF GuardInit, GuardTyped, OwnedAtLeastOnce
<1>2. \A t \in Threads : Successes(scopes[t]) = {}
  BY DEF GuardInit, Successes
<1>3. \A t \in careful : t \in Threads /\ lockOwner # t
  BY GuardAssumption DEF GuardInit
<1> QED BY <1>1, <1>2, <1>3 DEF GuardInv, GuardsHold, GuardInit

\* A lock that succeeded and one that did not.
LEMMA TakenInv ==
  ASSUME GuardInv, NEW t \in Threads, lockOwner \in {t, Nobody}, Taken(t)
  PROVE  GuardInv'
<1> USE DEF GuardInv
<1>1. /\ scopes' = [scopes EXCEPT ![t] = Append(@, "OK")]
      /\ lockOwner' = t /\ depth' = depth + 1
      /\ UNCHANGED <<lockable, careful, undefined>>
  BY DEF Taken, Opened
<1>2. /\ scopes'[t] = Append(scopes[t], "OK") /\ scopes[t] \in Seq(GuardResults)
      /\ \A u \in Threads : u # t => scopes'[u] = scopes[u]
  BY <1>1 DEF GuardTyped
<1>3. /\ scopes'[t] \in Seq(GuardResults)
      /\ Cardinality(Successes(scopes'[t])) = Cardinality(Successes(scopes[t])) + 1
  BY <1>2, OneMore
<1>4. scopes' \in [Threads -> Seq(GuardResults)]
  BY <1>1, <1>2, <1>3 DEF GuardTyped
<1>5. GuardTyped' /\ OwnedAtLeastOnce'
  BY <1>1, <1>4, GuardAssumption DEF GuardTyped, OwnedAtLeastOnce
<1>6. ASSUME NEW u \in careful, u # t PROVE Successes(scopes'[u]) = {}
  BY <1>2, <1>6, GuardAssumption DEF GuardTyped, GuardsHold
<1>7. ASSUME t \in careful PROVE depth' = Cardinality(Successes(scopes'[t]))
  <2>1. depth = Cardinality(Successes(scopes[t]))
    BY <1>2, <1>7, EmptyCardinality DEF GuardsHold, OwnedAtLeastOnce
  <2> QED BY <1>1, <1>3, <2>1
<1>8. (undefined => lockable = "critical_section" /\ careful # Threads)'
  BY <1>1 DEF GuardsHold
<1> QED BY <1>1, <1>5, <1>6, <1>7, <1>8 DEF GuardsHold

LEMMA RefusedInv ==
  ASSUME GuardInv, NEW t \in Threads, NEW e \in GuardResults, e # "OK", Refused(t, e)
  PROVE  GuardInv'
<1> USE DEF GuardInv
<1>1. /\ scopes' = [scopes EXCEPT ![t] = Append(@, e)]
      /\ UNCHANGED <<lockable, careful, lockOwner, depth, undefined>>
  BY DEF Refused, Opened
<1>2. /\ scopes'[t] = Append(scopes[t], e) /\ scopes[t] \in Seq(GuardResults)
      /\ \A u \in Threads : u # t => scopes'[u] = scopes[u]
  BY <1>1 DEF GuardTyped
<1>3. scopes'[t] \in Seq(GuardResults) /\ Successes(scopes'[t]) = Successes(scopes[t])
  BY <1>2, NoneMore
<1>4. scopes' \in [Threads -> Seq(GuardResults)]
  BY <1>1, <1>2, <1>3 DEF GuardTyped
<1>5. \A u \in Threads : Successes(scopes'[u]) = Successes(scopes[u])
  BY <1>2, <1>3
<1>6. GuardTyped' /\ OwnedAtLeastOnce'
  BY <1>1, <1>4 DEF GuardTyped, OwnedAtLeastOnce
<1> QED BY <1>1, <1>5, <1>6 DEF GuardTyped, GuardsHold

LEMMA LockInv ==
  ASSUME GuardInv, NEW t \in Threads, lock(t) \/ try_lock(t) \/ lock_until(t)
  PROVE  GuardInv'
<1>1. \/ lockOwner \in {t, Nobody} /\ Taken(t)
      \/ \E e \in GuardResults \ {"OK"} : Refused(t, e)
  BY DEF lock, try_lock, lock_until, GuardResults
<1> QED BY <1>1, TakenInv, RefusedInv

\* A careful thread that leaves the scope of a lock that succeeded owns the
\* lockable; a careless one gives up its own lock or breaks the lockable.
LEMMA LeaveInv ==
  ASSUME GuardInv, NEW t \in Threads, Leave(t)
  PROVE  GuardInv'
<1> USE DEF GuardInv
<1> DEFINE errors == scopes[t]
           shorter == SubSeq(errors, 1, Len(errors) - 1)
           error == errors[Len(errors)]
<1>1. /\ errors \in Seq(GuardResults) /\ errors # << >>
      /\ scopes' = [scopes EXCEPT ![t] = shorter]
      /\ scopes'[t] = shorter
      /\ \A u \in Threads : u # t => scopes'[u] = scopes[u]
      /\ UNCHANGED <<lockable, careful>>
  BY DEF Leave, GuardTyped
<1>2. /\ shorter \in Seq(GuardResults) /\ error \in GuardResults
      /\ error = "OK" => /\ Successes(errors) # {}
                         /\ Cardinality(Successes(shorter)) =
                              Cardinality(Successes(errors)) - 1
      /\ error # "OK" => Successes(shorter) = Successes(errors)
  BY <1>1, OneLess
<1>3. scopes' \in [Threads -> Seq(GuardResults)]
  BY <1>1, <1>2 DEF GuardTyped
<1>4. CASE error # "OK" /\ t \in careful
  <2>1. UNCHANGED <<lockOwner, depth, undefined>>
    BY <1>4 DEF Leave
  <2>2. \A u \in Threads : Successes(scopes'[u]) = Successes(scopes[u])
    BY <1>1, <1>2, <1>4
  <2>3. GuardTyped' /\ OwnedAtLeastOnce'
    BY <1>1, <1>3, <2>1 DEF GuardTyped, OwnedAtLeastOnce
  <2> QED BY <1>1, <2>1, <2>2, <2>3 DEF GuardTyped, GuardsHold
<1>5. CASE error = "OK" \/ t \notin careful
  <2>1. unlock(t)
    BY <1>5 DEF Leave
  <2>2. CASE lockOwner = t
    <3>1. /\ lockOwner' = IF depth = 1 THEN Nobody ELSE t
          /\ depth' = depth - 1 /\ UNCHANGED undefined
      BY <2>1, <2>2 DEF unlock
    <3>2. depth > 0 /\ depth \in Nat /\ t # Nobody
      BY <2>2, GuardAssumption DEF OwnedAtLeastOnce, GuardTyped
    <3>3. GuardTyped' /\ OwnedAtLeastOnce'
      BY <1>1, <1>3, <3>1, <3>2 DEF GuardTyped, OwnedAtLeastOnce
    <3>4. \A u \in careful : u # t => lockOwner' # u /\ Successes(scopes'[u]) = {}
      BY <1>1, <2>2, <3>1, GuardAssumption DEF GuardTyped, GuardsHold
    <3>5. ASSUME t \in careful
          PROVE  IF lockOwner' = t THEN depth' = Cardinality(Successes(scopes'[t]))
                                   ELSE Successes(scopes'[t]) = {}
      <4>1. /\ depth = Cardinality(Successes(errors))
            /\ depth' = Cardinality(Successes(scopes'[t]))
        BY <1>1, <1>2, <1>5, <2>2, <3>1, <3>5 DEF GuardsHold
      <4>2. CASE depth = 1
        <5>1. Cardinality(Successes(scopes'[t])) = 0 /\ scopes'[t] \in Seq(GuardResults)
          BY <1>1, <1>2, <3>1, <4>1, <4>2
        <5> QED BY <3>1, <3>2, <4>2, <5>1, EmptyCardinality
      <4>3. CASE depth # 1
        BY <3>1, <4>1, <4>3
      <4> QED BY <4>2, <4>3
    <3>6. (undefined => lockable = "critical_section" /\ careful # Threads)'
      BY <1>1, <3>1 DEF GuardsHold
    <3> QED BY <1>1, <3>3, <3>4, <3>5, <3>6 DEF GuardsHold
  <2>3. CASE lockOwner # t
    <3>1. /\ undefined' = (lockable = "critical_section")
          /\ UNCHANGED <<lockOwner, depth>>
      BY <2>1, <2>3 DEF unlock
    <3>2. t \notin careful
      BY <1>1, <1>2, <1>5, <2>3 DEF GuardsHold
    <3>3. GuardTyped' /\ OwnedAtLeastOnce'
      BY <1>1, <1>3, <3>1 DEF GuardTyped, OwnedAtLeastOnce
    <3>4. \A u \in careful : u # t /\ scopes'[u] = scopes[u]
      BY <1>1, <3>2 DEF GuardTyped
    <3> QED BY <1>1, <3>1, <3>2, <3>3, <3>4 DEF GuardsHold
  <2> QED BY <2>2, <2>3
<1> QED BY <1>4, <1>5

LEMMA GuardNextInv == GuardInv /\ [GuardNext]_guardVars => GuardInv'
<1> SUFFICES ASSUME GuardInv, [GuardNext]_guardVars PROVE GuardInv'
  OBVIOUS
<1>1. CASE UNCHANGED guardVars
  BY <1>1 DEF guardVars, GuardInv, GuardTyped, OwnedAtLeastOnce, GuardsHold
<1>2. ASSUME NEW t \in Threads,
             lock(t) \/ try_lock(t) \/ lock_until(t) \/ Leave(t)
      PROVE  GuardInv'
  BY <1>2, LockInv, LeaveInv
<1> QED BY <1>1, <1>2 DEF GuardNext

\* For any threads and any nesting: a careful thread holds the lockable as
\* often as it is in the scope of a lock that succeeded, and only on Windows
\* can a careless one do more than give up its own lock.
THEOREM GuardsAlwaysHold == GuardSpec => []GuardsHold
<1>1. GuardInit => GuardInv
  BY GuardInitInv
<1>2. GuardInv /\ [GuardNext]_guardVars => GuardInv'
  BY GuardNextInv
<1>3. GuardInv => GuardsHold
  BY DEF GuardInv
<1> QED BY <1>1, <1>2, <1>3, PTL DEF GuardSpec

-----------------------------------------------------------------------------
(***************************************************************************)
(* The variant of the assertion handler with a mutex implements the atomic *)
(* cell.  The argument: the mutex is created by one thread, while nobody is *)
(* in it or at it; then its holder alone reads or writes the handler, so   *)
(* that what a set has read is what the handler is when it writes.  A get  *)
(* answers at its Read, a set at its Write.                                *)
(***************************************************************************)

Places == {"out", "once", "init", "lock", "read", "write", "unlock"}

HandlerTyped ==
  /\ once \in {"new", "running", "done"}
  /\ handler \in Handlers
  /\ wish \in [Askers -> Handlers \union {"get"}]
  /\ pc \in [Askers -> Places]
  /\ seen \in [Askers -> Handlers \union {Unanswered}]

\* One thread creates the mutex.
OneCreator ==
  \A t \in Askers : pc[t] = "init" =>
    once = "running" /\ \A u \in Askers : pc[u] = "init" => u = t

\* Nobody is at the mutex before it is created, and who is in it holds it.
InsideHolds ==
  \A t \in Askers :
    /\ pc[t] \in {"lock", "read", "write", "unlock"} => once = "done"
    /\ pc[t] \in {"read", "write", "unlock"} => holder = t

\* What a thread has seen where it is.
Seen ==
  \A t \in Askers :
    /\ pc[t] \in {"once", "init", "lock", "read"} => seen[t] = Unanswered
    /\ pc[t] = "write" => seen[t] = handler /\ wish[t] # "get"
    /\ pc[t] \in {"unlock", "out"} => seen[t] # Unanswered

HandlerInv == HandlerTyped /\ OneCreator /\ InsideHolds /\ Seen

LEMMA HandlerInitInv == AssertInit => HandlerInv
BY HandlerAssumption
DEF AssertInit, HandlerInv, HandlerTyped, OneCreator, InsideHolds, Seen, Places

\* One call at a time goes on: what a step leaves of the others.
LEMMA GoesElsewhere ==
  ASSUME HandlerTyped, NEW t \in Askers, NEW from, NEW to \in Places, Goes(t, from, to)
  PROVE  /\ pc[t] = from /\ pc'[t] = to
         /\ \A u \in Askers : u # t => pc'[u] = pc[u]
         /\ pc' \in [Askers -> Places]
BY DEF HandlerTyped, Goes

LEMMA HandlerNextInv == HandlerInv /\ [AssertNext]_assertVars => HandlerInv'
<1> SUFFICES ASSUME HandlerInv, [AssertNext]_assertVars PROVE HandlerInv'
  OBVIOUS
<1> USE DEF HandlerInv
<1>1. CASE UNCHANGED assertVars
  BY <1>1 DEF assertVars, HandlerTyped, OneCreator, InsideHolds, Seen
<1>2. ASSUME NEW t \in Askers, Enter(t) PROVE HandlerInv'
  <2>1. Goes(t, "out", "once") /\ "once" \in Places
    BY <1>2 DEF Enter, Places
  <2>2. /\ wish' \in [Askers -> Handlers \union {"get"}]
        /\ \A u \in Askers : u # t => wish'[u] = wish[u]
    BY <1>2 DEF Enter, rbc_throw_assert_x, GetOrSet, HandlerTyped
  <2>3. /\ seen' \in [Askers -> Handlers \union {Unanswered}]
        /\ seen'[t] = Unanswered
        /\ \A u \in Askers : u # t => seen'[u] = seen[u]
        /\ UNCHANGED <<once, holder, handler>>
    BY <1>2 DEF Enter, HandlerTyped
  <2> QED BY <2>1, <2>2, <2>3, GoesElsewhere
          DEF HandlerTyped, OneCreator, InsideHolds, Seen
<1>3. ASSUME NEW t \in Askers, Once(t) PROVE HandlerInv'
  <2>1. UNCHANGED <<holder, handler, wish, seen>>
    BY <1>3 DEF Once
  <2>2. CASE once = "new" /\ once' = "running" /\ Goes(t, "once", "init")
    <3>1. "init" \in Places
      BY DEF Places
    <3> QED BY <2>1, <2>2, <3>1, GoesElsewhere
            DEF HandlerTyped, OneCreator, InsideHolds, Seen
  <2>3. CASE once = "done" /\ UNCHANGED once /\ Goes(t, "once", "lock")
    <3>1. "lock" \in Places
      BY DEF Places
    <3> QED BY <2>1, <2>3, <3>1, GoesElsewhere
            DEF HandlerTyped, OneCreator, InsideHolds, Seen
  <2> QED BY <1>3, <2>2, <2>3 DEF Once, CallOnce
<1>4. ASSUME NEW t \in Askers, InitMutex(t) PROVE HandlerInv'
  <2>1. /\ Goes(t, "init", "lock") /\ "lock" \in Places
        /\ once' = "done" /\ UNCHANGED <<handler, wish, seen>>
    BY <1>4 DEF InitMutex, Places
  <2>2. \A u \in Askers : pc[u] \notin {"read", "write", "unlock"}
    BY <2>1 DEF Goes, OneCreator, InsideHolds
  <2> QED BY <2>1, <2>2, GoesElsewhere DEF HandlerTyped, OneCreator, InsideHolds, Seen
<1>5. ASSUME NEW t \in Askers, Lock(t) PROVE HandlerInv'
  <2>1. /\ Goes(t, "lock", "read") /\ "read" \in Places
        /\ holder = Unlocked /\ holder' = t
        /\ UNCHANGED <<once, handler, wish, seen>>
    BY <1>5 DEF Lock, Places
  <2>2. \A u \in Askers : pc[u] \notin {"read", "write", "unlock"}
    BY <2>1, HandlerAssumption DEF InsideHolds
  <2> QED BY <2>1, <2>2, GoesElsewhere DEF HandlerTyped, OneCreator, InsideHolds, Seen
<1>6. ASSUME NEW t \in Askers, Read(t) PROVE HandlerInv'
  <2>1. /\ Goes(t, "read", IF wish[t] = "get" THEN "unlock" ELSE "write")
        /\ (IF wish[t] = "get" THEN "unlock" ELSE "write") \in Places
        /\ UNCHANGED <<once, holder, handler, wish>>
    BY <1>6 DEF Read, Places
  <2>2. /\ seen' \in [Askers -> Handlers \union {Unanswered}]
        /\ seen'[t] = handler
        /\ \A u \in Askers : u # t => seen'[u] = seen[u]
    BY <1>6 DEF Read, HandlerTyped
  <2>3. handler # Unanswered
    BY HandlerAssumption DEF HandlerTyped
  <2>4. CASE wish[t] = "get"
    BY <2>1, <2>2, <2>3, <2>4, GoesElsewhere
    DEF HandlerTyped, OneCreator, InsideHolds, Seen
  <2>5. CASE wish[t] # "get"
    BY <2>1, <2>2, <2>5, GoesElsewhere DEF HandlerTyped, OneCreator, InsideHolds, Seen
  <2> QED BY <2>4, <2>5
<1>7. ASSUME NEW t \in Askers, Write(t) PROVE HandlerInv'
  <2>1. /\ Goes(t, "write", "unlock") /\ "unlock" \in Places
        /\ handler' = wish[t] /\ UNCHANGED <<once, holder, wish, seen>>
    BY <1>7 DEF Write, Places
  <2>2. handler' \in Handlers /\ seen[t] # Unanswered
    BY <2>1, HandlerAssumption DEF Goes, HandlerTyped, Seen
  <2>3. \A u \in Askers : pc[u] = "write" => u = t
    BY <2>1 DEF Goes, InsideHolds
  <2> QED BY <2>1, <2>2, <2>3, GoesElsewhere
          DEF HandlerTyped, OneCreator, InsideHolds, Seen
<1>8. ASSUME NEW t \in Askers, Unlock(t) PROVE HandlerInv'
  <2>1. /\ Goes(t, "unlock", "out") /\ "out" \in Places
        /\ UNCHANGED <<once, handler, wish, seen>>
    BY <1>8 DEF Unlock, Places
  <2>2. \A u \in Askers : pc[u] \in {"read", "write", "unlock"} => u = t
    BY <2>1 DEF Goes, InsideHolds
  <2> QED BY <2>1, <2>2, GoesElsewhere DEF HandlerTyped, OneCreator, InsideHolds, Seen
<1>9. ASSUME NEW t \in Askers, Exit(t) PROVE HandlerInv'
  BY <1>9 DEF Exit, HandlerTyped, OneCreator, InsideHolds, Seen
<1> QED BY <1>1, <1>2, <1>3, <1>4, <1>5, <1>6, <1>7, <1>8, <1>9 DEF AssertNext

-----------------------------------------------------------------------------
Reply == [t \in Askers |-> IF pc[t] = "write" THEN Unanswered ELSE seen[t]]

LEMMA InitCell == AssertInit => Cell!CellInit
BY DEF AssertInit, Cell!CellInit

\* What changes neither the handler nor any request or reply is a stutter.
LEMMA Stutters ==
  ASSUME UNCHANGED <<handler, wish>>, Reply' = Reply
  PROVE  Cell!CellNext \/ UNCHANGED Cell!cellVars
BY DEF Cell!cellVars, Reply

LEMMA StepCell ==
  HandlerInv /\ [AssertNext]_assertVars => Cell!CellNext \/ UNCHANGED Cell!cellVars
<1> SUFFICES ASSUME HandlerInv, [AssertNext]_assertVars
             PROVE  Cell!CellNext \/ UNCHANGED Cell!cellVars
  OBVIOUS
<1> USE DEF HandlerInv
<1>1. CASE UNCHANGED assertVars
  BY <1>1, Stutters DEF assertVars, Reply
<1>2. ASSUME NEW t \in Askers, Enter(t) PROVE Cell!CellNext
  <2>1. pc[t] = "out" /\ UNCHANGED handler
    BY <1>2 DEF Enter, Goes
  <2>2. Reply[t] # Unanswered
    BY <2>1 DEF Reply, Seen
  <2>3. \E r \in Handlers \union {"get"} : wish' = [wish EXCEPT ![t] = r]
    BY <1>2 DEF Enter, rbc_throw_assert_x, GetOrSet
  <2>4. Reply' = [Reply EXCEPT ![t] = Unanswered]
    BY <1>2 DEF Enter, Goes, Reply, HandlerTyped
  <2>5. Cell!Ask(t)
    BY <2>1, <2>2, <2>3, <2>4 DEF Cell!Ask, Reply
  <2> QED BY <2>5 DEF Cell!CellNext
<1>3. ASSUME NEW t \in Askers, Once(t) PROVE Cell!CellNext \/ UNCHANGED Cell!cellVars
  <2>1. Reply' = Reply
    BY <1>3 DEF Once, CallOnce, Goes, Reply, HandlerTyped
  <2> QED BY <1>3, <2>1, Stutters DEF Once
<1>4. ASSUME NEW t \in Askers, InitMutex(t) \/ Lock(t) \/ Unlock(t)
      PROVE  Cell!CellNext \/ UNCHANGED Cell!cellVars
  <2>1. Reply' = Reply
    BY <1>4 DEF InitMutex, Lock, Unlock, Goes, Reply, HandlerTyped
  <2> QED BY <1>4, <2>1, Stutters DEF InitMutex, Lock, Unlock
<1>5. ASSUME NEW t \in Askers, Read(t) PROVE Cell!CellNext \/ UNCHANGED Cell!cellVars
  <2>1. pc[t] = "read" /\ UNCHANGED <<handler, wish>> /\ seen[t] = Unanswered
    BY <1>5 DEF Read, Goes, Seen
  <2>2. CASE wish[t] = "get"
    <3>1. Reply[t] = Unanswered
      BY <2>1 DEF Reply
    <3>2. Reply' = [Reply EXCEPT ![t] = handler]
      BY <1>5, <2>2 DEF Read, Goes, Reply, HandlerTyped
    <3>3. Cell!Answer(t)
      BY <2>1, <2>2, <3>1, <3>2 DEF Cell!Answer, Reply
    <3> QED BY <3>3 DEF Cell!CellNext
  <2>3. CASE wish[t] # "get"
    <3>1. Reply' = Reply
      BY <1>5, <2>1, <2>3 DEF Read, Goes, Reply, HandlerTyped
    <3> QED BY <2>1, <3>1, Stutters
  <2> QED BY <2>2, <2>3
<1>6. ASSUME NEW t \in Askers, Write(t) PROVE Cell!CellNext
  <2>1. /\ pc[t] = "write" /\ handler' = wish[t] /\ UNCHANGED wish
        /\ seen[t] = handler /\ wish[t] # "get"
    BY <1>6 DEF Write, Goes, Seen
  <2>2. Reply[t] = Unanswered
    BY <2>1 DEF Reply
  <2>3. Reply' = [Reply EXCEPT ![t] = handler]
    BY <1>6, <2>1 DEF Write, Goes, Reply, HandlerTyped
  <2>4. Cell!Answer(t)
    BY <2>1, <2>2, <2>3 DEF Cell!Answer, Reply
  <2> QED BY <2>4 DEF Cell!CellNext
<1>7. ASSUME NEW t \in Askers, Exit(t) PROVE UNCHANGED Cell!cellVars
  BY <1>7 DEF Exit, Cell!cellVars
<1> QED BY <1>1, <1>2, <1>3, <1>4, <1>5, <1>6, <1>7 DEF AssertNext

\* For any threads and handlers: the handler behind the mutex is got and set
\* as the atomic one is.
THEOREM HandlerIsAtomicCell == AssertSpec => IsAtomicCell
<1>1. AssertInit => HandlerInv
  BY HandlerInitInv
<1>2. HandlerInv /\ [AssertNext]_assertVars => HandlerInv'
  BY HandlerNextInv
<1>3. AssertInit => Cell!CellInit
  BY InitCell
<1>4. HandlerInv /\ [AssertNext]_assertVars => [Cell!CellNext]_(Cell!cellVars)
  BY StepCell
<1> QED BY <1>1, <1>2, <1>3, <1>4, PTL DEF AssertSpec, IsAtomicCell, Cell!CellSpec

-----------------------------------------------------------------------------
(***************************************************************************)
(* The units of a semaphore.  What the threads hold is added up by a fold; *)
(* a step changes one term of it, and the sum changes by as much.          *)
(***************************************************************************)

\* The order in which Fun!SumFunction adds up what the threads hold.
Order == [s \in SUBSET Users |-> CHOOSE t \in s : TRUE]

SemaphoreTyped ==
  /\ onWindows \in BOOLEAN
  /\ units \in Nat /\ signals \in Nat /\ dropped \in Nat
  /\ held \in [Users -> Nat]

SemaphoreInv == SemaphoreTyped /\ units <= Maximum /\ UnitsAccounted

LEMMA HeldIsFolded ==
  ASSUME NEW f, DOMAIN f = Users
  PROVE  Fun!SumFunction(f) = FoldedSum(f, Users, Order)
BY DEF Fun!SumFunction, Fun!SumFunctionOnSet, Fun!FoldFunctionOnSet,
       Fun!MapThenFoldSet, FoldedSum, SumTurn, Order

LEMMA HeldTogether ==
  ASSUME NEW f \in [Users -> Nat]
  PROVE  /\ Fun!SumFunction(f) \in Nat
         /\ \A t \in Users : f[t] <= Fun!SumFunction(f)
<1>1. \A s \in SUBSET Users : s # {} => Order[s] \in s
  BY DEF Order
<1>2. Fun!SumFunction(f) = FoldedSum(f, Users, Order)
  BY HeldIsFolded
<1> QED BY <1>1, <1>2, SumOfNaturals, SemaphoreAssumption

LEMMA HeldChanges ==
  ASSUME NEW f \in [Users -> Nat], NEW t \in Users, NEW n \in Nat
  PROVE  Fun!SumFunction([f EXCEPT ![t] = n]) = Fun!SumFunction(f) + n - f[t]
<1> DEFINE g == [f EXCEPT ![t] = n]
<1>1. \A s \in SUBSET Users : s # {} => Order[s] \in s
  BY DEF Order
<1>2. /\ f \in [Users -> Int] /\ g \in [Users -> Int] /\ g[t] = n
      /\ \A u \in Users : u # t => g[u] = f[u]
  OBVIOUS
<1> HIDE DEF g
<1>3. FoldedSum(g, Users, Order) = FoldedSum(f, Users, Order) + g[t] - f[t]
  BY <1>1, <1>2, SumUpdate, SemaphoreAssumption
<1>4. /\ Fun!SumFunction(f) = FoldedSum(f, Users, Order)
      /\ Fun!SumFunction(g) = FoldedSum(g, Users, Order)
  BY <1>2, HeldIsFolded
<1> QED BY <1>2, <1>3, <1>4 DEF g

LEMMA SemaphoreInitInv == SemaphoreInit => SemaphoreInv
<1> SUFFICES ASSUME SemaphoreInit PROVE SemaphoreInv
  OBVIOUS
<1>1. Fun!SumFunction(held) = 0
  <2>1. held = [t \in Users |-> 0]
    BY DEF SemaphoreInit
  <2>2. Fun!SumFunction(held) = FoldedSum(held, Users, Order)
    BY <2>1, HeldIsFolded
  <2>3. \A s \in SUBSET Users : s # {} => Order[s] \in s
    BY DEF Order
  <2> QED BY <2>1, <2>2, <2>3, SumOfZeros, SemaphoreAssumption
<1>2. SemaphoreTyped /\ units <= Maximum
  BY SemaphoreAssumption DEF SemaphoreInit, SemaphoreTyped, Maximum
<1>3. UnitsAccounted
  BY <1>1, SemaphoreAssumption DEF SemaphoreInit, UnitsAccounted
<1> QED BY <1>2, <1>3 DEF SemaphoreInv

LEMMA SemaphoreNextInv ==
  SemaphoreInv /\ [SemaphoreNext]_semaphoreVars => SemaphoreInv'
<1> SUFFICES ASSUME SemaphoreInv, [SemaphoreNext]_semaphoreVars PROVE SemaphoreInv'
  OBVIOUS
<1> DEFINE total == Fun!SumFunction(held)
<1>1. /\ total \in Nat /\ Maximum \in Nat
      /\ units \in Nat /\ signals \in Nat /\ dropped \in Nat /\ onWindows \in BOOLEAN
      /\ units <= Maximum /\ units + total + dropped = Count + signals
      /\ dropped <= signals /\ held \in [Users -> Nat] /\ Count \in Nat
  BY HeldTogether, SemaphoreAssumption
  DEF SemaphoreInv, SemaphoreTyped, UnitsAccounted, Maximum
\* dropping a unit takes a signal: with every unit in the semaphore and one
\* in a thread, there are more than there were
<1>2. ASSUME NEW t \in Users, held[t] > 0, units = Maximum PROVE dropped < signals
  <2>1. held[t] <= total /\ held[t] \in Nat
    BY <1>1, HeldTogether
  <2>2. Count <= Maximum
    BY SemaphoreAssumption DEF Maximum
  <2> HIDE DEF total
  <2> QED BY <1>1, <1>2, <2>1, <2>2
<1>0. CASE UNCHANGED semaphoreVars
  BY <1>0 DEF semaphoreVars, SemaphoreInv, SemaphoreTyped, Maximum, UnitsAccounted
<1>3. ASSUME NEW t \in Users, acquire(t) PROVE SemaphoreInv'
  <2>1. held' \in [Users -> Nat] /\ Fun!SumFunction(held') = total + 1
    <3>1. held' = [held EXCEPT ![t] = held[t] + 1] /\ held[t] + 1 \in Nat /\ held[t] \in Nat
      BY <1>1, <1>3 DEF acquire
    <3>2. Fun!SumFunction(held') = total + (held[t] + 1) - held[t]
      BY <1>1, <3>1, HeldChanges
    <3> HIDE DEF total
    <3> QED BY <1>1, <3>1, <3>2
  <2>2. units' = units - 1 /\ units > 0 /\ UNCHANGED <<onWindows, signals, dropped>>
    BY <1>3 DEF acquire
  <2>3. Maximum' = Maximum
    BY <2>2 DEF Maximum
  <2> HIDE DEF total
  <2> QED BY <1>1, <2>1, <2>2, <2>3 DEF SemaphoreInv, SemaphoreTyped, UnitsAccounted
<1>4. ASSUME NEW t \in Users, release(t) PROVE SemaphoreInv'
  <2>1. units' = units + 1 /\ units < Maximum /\ UNCHANGED <<onWindows, dropped>>
    BY <1>4 DEF release
  <2>2. Maximum' = Maximum
    BY <2>1 DEF Maximum
  <2>3. CASE held[t] > 0
    <3>1. held' = [held EXCEPT ![t] = held[t] - 1] /\ held[t] - 1 \in Nat /\ held[t] \in Nat
          /\ signals' = signals
      BY <1>1, <1>4, <2>3 DEF release
    <3>2. Fun!SumFunction(held') = total + (held[t] - 1) - held[t]
      BY <1>1, <3>1, HeldChanges
    <3>3. held' \in [Users -> Nat] /\ Fun!SumFunction(held') = total - 1
      <4> HIDE DEF total
      <4> QED BY <1>1, <3>1, <3>2
    <3> HIDE DEF total
    <3> QED BY <1>1, <2>1, <2>2, <3>1, <3>3 DEF SemaphoreInv, SemaphoreTyped, UnitsAccounted
  <2>4. CASE ~(held[t] > 0)
    <3>1. held' = held /\ signals' = signals + 1
      BY <1>4, <2>4 DEF release
    <3>2. Fun!SumFunction(held') = total
      BY <3>1
    <3> HIDE DEF total
    <3> QED BY <1>1, <2>1, <2>2, <3>1, <3>2 DEF SemaphoreInv, SemaphoreTyped, UnitsAccounted
  <2> QED BY <2>3, <2>4
<1>5. ASSUME NEW t \in Users, ReleaseFails(t) PROVE SemaphoreInv'
  <2>1. units' = units /\ units = Maximum /\ UNCHANGED <<onWindows, signals>>
    BY <1>5 DEF ReleaseFails
  <2>2. Maximum' = Maximum
    BY <2>1 DEF Maximum
  <2>3. CASE held[t] > 0
    <3>1. held' = [held EXCEPT ![t] = held[t] - 1] /\ held[t] - 1 \in Nat /\ held[t] \in Nat
          /\ dropped' = dropped + 1
      BY <1>1, <1>5, <2>3 DEF ReleaseFails
    <3>2. Fun!SumFunction(held') = total + (held[t] - 1) - held[t]
      BY <1>1, <3>1, HeldChanges
    <3>3. held' \in [Users -> Nat] /\ Fun!SumFunction(held') = total - 1
      <4> HIDE DEF total
      <4> QED BY <1>1, <3>1, <3>2
    <3>4. dropped < signals
      BY <1>2, <2>1, <2>3
    <3> HIDE DEF total
    <3> QED BY <1>1, <2>1, <2>2, <3>1, <3>3, <3>4
            DEF SemaphoreInv, SemaphoreTyped, UnitsAccounted
  <2>4. CASE ~(held[t] > 0)
    <3>1. held' = held /\ dropped' = dropped
      BY <1>5, <2>4 DEF ReleaseFails
    <3>2. Fun!SumFunction(held') = total
      BY <3>1
    <3> HIDE DEF total
    <3> QED BY <1>1, <2>1, <2>2, <3>1, <3>2 DEF SemaphoreInv, SemaphoreTyped, UnitsAccounted
  <2> QED BY <2>3, <2>4
<1>6. ASSUME NEW t \in Users, try_acquire(t) PROVE SemaphoreInv'
  BY <1>0, <1>3, <1>6 DEF try_acquire
<1>7. ASSUME NEW t \in Users, Interrupted(t) PROVE SemaphoreInv'
  BY <1>0, <1>7 DEF Interrupted
<1> QED BY <1>0, <1>3, <1>4, <1>5, <1>6, <1>7 DEF SemaphoreNext

\* For any number of threads and units, on both platforms: the units of a
\* semaphore and those the threads hold are the initial ones and the releases
\* by threads that had none, less the units Windows refused to take back.
THEOREM UnitsStayAccounted == SemaphoreSpec => []UnitsAccounted
<1>1. SemaphoreInv => UnitsAccounted
  BY DEF SemaphoreInv
<1> QED BY <1>1, SemaphoreInitInv, SemaphoreNextInv, PTL DEF SemaphoreSpec

-----------------------------------------------------------------------------
(***************************************************************************)
(* The life of an object.  The invariant says, for every step of init and  *)
(* of destroy, which parts have memory and which a native object; the table *)
(* of the recipes enters only through which of them fail and clean up.     *)
(***************************************************************************)

Steps == {"gone", "attributes", "malloc", "native", "live", "failed", "destroy", "refused"}

ObjectTyped ==
  /\ windows \in BOOLEAN /\ parts \in Objects /\ always \in BOOLEAN
  /\ at \in Steps /\ part \in Parts
  /\ impl \in [Parts -> {"NULL", "memory", "freed"}]
  /\ native \subseteq Parts
  /\ attr \in BOOLEAN /\ lost \in BOOLEAN /\ raw \in BOOLEAN /\ wrong \in BOOLEAN

\* A part whose init may leave its memory without a native object in it.
LeavesMemory(p) == Recipes[parts[p]].fails /\ ~Recipes[parts[p]].cleans

\* The attributes live from their init to the native init.
AttributesKept == attr => at \in {"malloc", "native"}

\* What init has made of the parts before the one it is at, or destroy has
\* left of those after it.
Made == \A p \in Parts : p \in native => impl[p] = "memory"

Behind ==
  \A p \in Parts :
    /\ at \in {"attributes", "malloc", "native", "failed"} /\ p < part => p \in native
    /\ at \in {"attributes", "malloc", "refused"} /\ p >= part => impl[p] # "memory"
    /\ at \in {"native", "failed", "destroy"} /\ p > part => impl[p] # "memory"
    /\ at \in {"native", "failed"} => part \notin native
    /\ at = "native" => impl[part] = "memory"
    /\ at = "live" => p \in native
    /\ at = "gone" => impl[p] # "memory"

\* Memory without a native object in it.
Hollow ==
  \A p \in Parts : impl[p] = "memory" /\ p \notin native =>
    \/ at = "native" /\ p = part
    \/ (at = "failed" \/ always) /\ LeavesMemory(p)

\* Only the mutex of Windows keeps its handle.
HandleKept == \A p \in Parts : impl[p] = "freed" => windows /\ parts[p] = "mutex"

ObjectInv ==
  /\ ObjectTyped /\ AttributesKept /\ Made /\ Behind /\ Hollow /\ HandleKept
  /\ NoLeak /\ OnlyInitialisedDestroyed /\ DestroyIsIdempotent

\* What the proofs use of the table of types.
LEMMA TableFacts ==
  ASSUME windows \in BOOLEAN, NEW k \in DOMAIN Recipes
  PROVE  /\ ~Recipes[k].leavesNull => windows /\ k = "mutex"
         /\ ~Recipes[k].looks => windows /\ k \in {"recursive_mutex", "barrier"}
BY DEF Recipes, PosixRecipes, WindowsRecipes, Recipe,
       PosixMutex, PosixRecursiveMutex, PosixSharedMutex, PosixSemaphore,
       PosixCondVar, PosixBarrier, PosixSpinlock, PosixTls,
       WindowsMutex, WindowsRecursiveMutex, WindowsSharedMutex, WindowsSemaphore,
       WindowsCondVar, WindowsBarrier, WindowsTls

LEMMA ObjectFacts ==
  ASSUME windows \in BOOLEAN, parts \in Objects
  PROVE  /\ Len(parts) \in {1, 2} /\ Parts = 1 .. Len(parts)
         /\ \A p \in Parts : parts[p] \in DOMAIN Recipes
<1>1. {"mutex", "cond_var"} \subseteq DOMAIN Recipes
  BY DEF Recipes, PosixRecipes, WindowsRecipes
<1>2. CASE parts = <<"mutex", "cond_var">>
  BY <1>1, <1>2 DEF Parts
<1>3. CASE \E k \in DOMAIN Recipes : parts = <<k>>
  BY <1>3 DEF Parts
<1> QED BY <1>2, <1>3 DEF Objects

LEMMA ObjectInitInv == Init => ObjectInv
<1> SUFFICES ASSUME Init PROVE ObjectInv
  OBVIOUS
<1>1. windows \in BOOLEAN /\ parts \in Objects
  BY DEF Init
<1>2. Len(parts) \in {1, 2} /\ Parts = 1 .. Len(parts)
  BY <1>1, ObjectFacts
<1>3. ObjectTyped
  <2>1. impl \in [Parts -> {"NULL", "memory", "freed"}] /\ native \subseteq Parts
    BY DEF Init
  <2>2. at \in Steps /\ part \in Parts
    BY <1>2 DEF Init, Steps
  <2>3. always \in BOOLEAN /\ attr \in BOOLEAN /\ lost \in BOOLEAN
        /\ raw \in BOOLEAN /\ wrong \in BOOLEAN
    BY Zenon DEF Init
  <2> QED BY <1>1, <2>1, <2>2, <2>3, Zenon DEF ObjectTyped
<1>4. AttributesKept /\ Made /\ Behind /\ Hollow /\ HandleKept
  BY DEF Init, AttributesKept, Made, Behind, Hollow, HandleKept
<1>5. NoLeak /\ OnlyInitialisedDestroyed /\ DestroyIsIdempotent
  BY DEF Init, NoLeak, OnlyInitialisedDestroyed, DestroyIsIdempotent
<1> QED BY <1>3, <1>4, <1>5 DEF ObjectInv

\* An object with a part that may leave its memory, or with two parts, does
\* not undo itself.
LEMMA NotUndone ==
  ASSUME windows \in BOOLEAN, parts \in Objects, NEW p \in Parts,
         LeavesMemory(p) \/ p > 1 \/ Len(parts) = 2
  PROVE  ~UndoesItself
<1>1. Len(parts) \in {1, 2} /\ p \in 1 .. Len(parts)
  BY ObjectFacts
<1>2. CASE Len(parts) = 1
  <2>1. p = 1 /\ LeavesMemory(1)
    BY <1>1, <1>2
  <2> QED BY <2>1 DEF LeavesMemory, UndoesItself
<1> QED BY <1>1, <1>2 DEF UndoesItself

LEMMA ObjectNextInv == ObjectInv /\ [Next]_vars => ObjectInv'
<1> SUFFICES ASSUME ObjectInv, [Next]_vars PROVE ObjectInv'
  OBVIOUS
<1>0. CASE UNCHANGED vars
  BY <1>0
  DEF vars, ObjectInv, ObjectTyped, AttributesKept, Made, Behind, Hollow, HandleKept,
      NoLeak, OnlyInitialisedDestroyed, DestroyIsIdempotent, UndoesItself,
      LeavesMemory, Parts, Objects, Recipes
<1>a. /\ windows \in BOOLEAN /\ parts \in Objects
      /\ Len(parts) \in {1, 2} /\ Parts = 1 .. Len(parts)
      /\ part \in Parts
  BY ObjectFacts DEF ObjectInv, ObjectTyped
<1> SUFFICES ASSUME Next PROVE ObjectInv'
  BY <1>0
<1>b. /\ windows' = windows /\ parts' = parts /\ always' = always
      /\ Parts' = Parts /\ Objects' = Objects /\ UndoesItself' = UndoesItself
      /\ \A p \in Parts : LeavesMemory(p)' = LeavesMemory(p)
  <2>1. UNCHANGED client
    BY DEF Next, Create, Attributes, Malloc, Native, Destroy, DestroyNull,
           DestroyMemory, GiveUp
  <2> QED BY <2>1 DEF client, Parts, Recipes, Objects, UndoesItself, LeavesMemory
<1>c. /\ ObjectTyped /\ AttributesKept /\ Made /\ Behind /\ Hollow /\ HandleKept
      /\ NoLeak /\ OnlyInitialisedDestroyed /\ DestroyIsIdempotent
  BY DEF ObjectInv
<1>1. CASE Create
  <2>1. /\ at = "gone" /\ at' \in {"attributes", "malloc"} /\ part' = 1
        /\ UNCHANGED <<impl, native, attr, lost, raw, wrong>>
    BY <1>1 DEF Create, FirstStep, faults
  <2>7. ObjectTyped'
    BY <1>a, <1>b, <2>1, <1>c DEF ObjectTyped, Steps
  <2>8. AttributesKept' /\ Made' /\ Behind' /\ Hollow' /\ HandleKept'
    BY <1>a, <1>b, <2>1, <1>c
    DEF ObjectTyped, AttributesKept, Made, Behind, Hollow, HandleKept
  <2>9. NoLeak' /\ OnlyInitialisedDestroyed' /\ DestroyIsIdempotent'
    BY <1>a, <1>b, <2>1, <2>8, <1>c
    DEF ObjectTyped, AttributesKept, Made, Behind, Hollow, HandleKept,
        NoLeak, OnlyInitialisedDestroyed, DestroyIsIdempotent
  <2> QED BY <2>7, <2>8, <2>9 DEF ObjectInv
<1>2. CASE Attributes
  <2>1. /\ at = "attributes"
        /\ \/ at' = "malloc" /\ attr' = TRUE
           \/ at' = "failed" /\ attr' = FALSE
        /\ UNCHANGED <<part, impl, native, lost, raw, wrong>>
    BY <1>2 DEF Attributes, faults
  <2>7. ObjectTyped'
    BY <1>a, <1>b, <2>1, <1>c DEF ObjectTyped, Steps
  <2>8. AttributesKept' /\ Made' /\ Behind' /\ Hollow' /\ HandleKept'
    BY <1>a, <1>b, <2>1, <1>c
    DEF ObjectTyped, AttributesKept, Made, Behind, Hollow, HandleKept
  <2>9. NoLeak' /\ OnlyInitialisedDestroyed' /\ DestroyIsIdempotent'
    BY <1>a, <1>b, <2>1, <2>8, <1>c
    DEF ObjectTyped, AttributesKept, Made, Behind, Hollow, HandleKept,
        NoLeak, OnlyInitialisedDestroyed, DestroyIsIdempotent
  <2> QED BY <2>7, <2>8, <2>9 DEF ObjectInv
<1>3. CASE Malloc
  <2>1. /\ at = "malloc"
        /\ \/ /\ at' = "native" /\ attr' = attr
              /\ impl' = [impl EXCEPT ![part] = "memory"]
           \/ /\ at' = "failed" /\ attr' = FALSE
              /\ impl' = [impl EXCEPT ![part] = "NULL"]
        /\ UNCHANGED <<part, native, lost, raw, wrong>>
    BY <1>3 DEF Malloc, faults
  <2>7. ObjectTyped'
    BY <1>a, <1>b, <2>1, <1>c DEF ObjectTyped, Steps
  <2>8. AttributesKept' /\ Made' /\ Behind' /\ Hollow' /\ HandleKept'
    BY <1>a, <1>b, <2>1, <1>c
    DEF ObjectTyped, AttributesKept, Made, Behind, Hollow, HandleKept
  <2>9. NoLeak' /\ OnlyInitialisedDestroyed' /\ DestroyIsIdempotent'
    BY <1>a, <1>b, <2>1, <2>8, <1>c
    DEF ObjectTyped, AttributesKept, Made, Behind, Hollow, HandleKept,
        NoLeak, OnlyInitialisedDestroyed, DestroyIsIdempotent
  <2> QED BY <2>7, <2>8, <2>9 DEF ObjectInv
<1>4. CASE Native /\ NativeSucceeds
  <2>1. /\ at = "native" /\ attr' = FALSE /\ native' = native \cup {part}
        /\ \/ /\ part < Len(parts) /\ part' = part + 1
              /\ at' \in {"attributes", "malloc"}
           \/ part = Len(parts) /\ part' = part /\ at' = "live"
        /\ UNCHANGED <<impl, lost, raw, wrong>>
    BY <1>4, <1>a DEF Native, NativeSucceeds, FirstStep, faults
  <2>2. part \in Parts /\ part' \in Parts /\ native' \subseteq Parts
    BY <1>a, <1>c, <2>1 DEF ObjectTyped
  <2>7. ObjectTyped'
    BY <1>b, <2>1, <2>2, <1>c DEF ObjectTyped, Steps
  <2>8. AttributesKept' /\ Made' /\ Behind' /\ Hollow' /\ HandleKept'
    BY <1>a, <1>b, <2>1, <1>c
    DEF ObjectTyped, AttributesKept, Made, Behind, Hollow, HandleKept
  <2>9. NoLeak' /\ OnlyInitialisedDestroyed' /\ DestroyIsIdempotent'
    BY <1>a, <1>b, <2>1, <2>8, <1>c
    DEF ObjectTyped, AttributesKept, Made, Behind, Hollow, HandleKept,
        NoLeak, OnlyInitialisedDestroyed, DestroyIsIdempotent
  <2> QED BY <2>7, <2>8, <2>9 DEF ObjectInv
<1>5. CASE Native /\ NativeFails
  <2>1. /\ at = "native" /\ attr' = FALSE /\ at' = "failed"
        /\ recipe.fails
        /\ impl' = IF recipe.cleans THEN [impl EXCEPT ![part] = "NULL"] ELSE impl
        /\ UNCHANGED <<part, native, lost, raw, wrong>>
    BY <1>5 DEF Native, NativeFails, faults
  <2>2. recipe.cleans \/ LeavesMemory(part)
    BY <2>1 DEF recipe, LeavesMemory
  <2>7. ObjectTyped'
    BY <1>a, <1>b, <2>1, <2>2, <1>c DEF ObjectTyped, Steps
  <2>8. AttributesKept' /\ Made' /\ Behind' /\ Hollow' /\ HandleKept'
    BY <1>a, <1>b, <2>1, <2>2, <1>c
    DEF ObjectTyped, AttributesKept, Made, Behind, Hollow, HandleKept
  <2>9. NoLeak' /\ OnlyInitialisedDestroyed' /\ DestroyIsIdempotent'
    BY <1>a, <1>b, <2>1, <2>8, <2>2, <1>c
    DEF ObjectTyped, AttributesKept, Made, Behind, Hollow, HandleKept,
        NoLeak, OnlyInitialisedDestroyed, DestroyIsIdempotent
  <2> QED BY <2>7, <2>8, <2>9 DEF ObjectInv
<1>6. CASE Destroy
  <2>1. /\ at \in {"live", "gone", "refused", "failed"}
        /\ at = "failed" => always
        /\ at' = "destroy" /\ part' = Len(parts)
        /\ UNCHANGED <<impl, native, attr, lost, raw, wrong>>
    BY <1>6 DEF Destroy, faults
  <2>7. ObjectTyped'
    BY <1>a, <1>b, <2>1, <1>c DEF ObjectTyped, Steps
  <2>8. AttributesKept' /\ Made' /\ Behind' /\ Hollow' /\ HandleKept'
    BY <1>a, <1>b, <2>1, <1>c
    DEF ObjectTyped, AttributesKept, Made, Behind, Hollow, HandleKept
  <2>9. NoLeak' /\ OnlyInitialisedDestroyed' /\ DestroyIsIdempotent'
    BY <1>a, <1>b, <2>1, <2>8, <1>c
    DEF ObjectTyped, AttributesKept, Made, Behind, Hollow, HandleKept,
        NoLeak, OnlyInitialisedDestroyed, DestroyIsIdempotent
  <2> QED BY <2>7, <2>8, <2>9 DEF ObjectInv
<1>7. CASE DestroyNull
  <2>1. /\ at = "destroy" /\ impl[part] = "NULL"
        /\ wrong' = (wrong \/ ~recipe.looks)
        /\ \/ part > 1 /\ at' = "destroy" /\ part' = part - 1
           \/ part = 1 /\ at' = "gone" /\ part' = part
        /\ UNCHANGED <<impl, native, attr, lost, raw>>
    BY <1>7, <1>a DEF DestroyNull, NextPart
  <2>2. ~recipe.looks => windows /\ parts[part] \in {"recursive_mutex", "barrier"}
    BY <1>a, ObjectFacts, TableFacts DEF recipe
  <2>7. ObjectTyped'
    BY <1>a, <1>b, <2>1, <2>2, <1>c DEF ObjectTyped, Steps
  <2>8. AttributesKept' /\ Made' /\ Behind' /\ Hollow' /\ HandleKept'
    BY <1>a, <1>b, <2>1, <2>2, <1>c
    DEF ObjectTyped, AttributesKept, Made, Behind, Hollow, HandleKept
  <2>9. NoLeak' /\ OnlyInitialisedDestroyed' /\ DestroyIsIdempotent'
    BY <1>a, <1>b, <2>1, <2>8, <2>2, <1>c
    DEF ObjectTyped, AttributesKept, Made, Behind, Hollow, HandleKept,
        NoLeak, OnlyInitialisedDestroyed, DestroyIsIdempotent
  <2> QED BY <2>7, <2>8, <2>9 DEF ObjectInv
<1>8. CASE DestroyMemory
  <2>1. /\ at = "destroy" /\ impl[part] # "NULL"
        /\ wrong' = (wrong \/ impl[part] = "freed")
        /\ raw' = (raw \/ (impl[part] = "memory" /\ part \notin native))
        /\ native' = native \ {part}
        /\ impl' = [impl EXCEPT ![part] = IF recipe.leavesNull THEN "NULL" ELSE "freed"]
        /\ \/ part > 1 /\ at' = "destroy" /\ part' = part - 1
           \/ part = 1 /\ at' = "gone" /\ part' = part
           \/ at' = "refused" /\ part' = part
        /\ UNCHANGED <<attr, lost>>
    BY <1>8, <1>a DEF DestroyMemory, NextPart
  <2>2. ~recipe.leavesNull => windows /\ parts[part] = "mutex"
    BY <1>a, ObjectFacts, TableFacts DEF recipe
  <2>3. LeavesMemory(part) => ~UndoesItself
    BY <1>a, NotUndone
  <2>7. ObjectTyped'
    BY <1>a, <1>b, <2>1, <2>2, <2>3, <1>c DEF ObjectTyped, Steps
  <2>8. AttributesKept' /\ Made' /\ Behind' /\ Hollow' /\ HandleKept'
    BY <1>a, <1>b, <2>1, <2>2, <2>3, <1>c
    DEF ObjectTyped, AttributesKept, Made, Behind, Hollow, HandleKept
  <2>9. NoLeak' /\ OnlyInitialisedDestroyed' /\ DestroyIsIdempotent'
    BY <1>a, <1>b, <2>1, <2>8, <2>2, <2>3, <1>c
    DEF ObjectTyped, AttributesKept, Made, Behind, Hollow, HandleKept,
        NoLeak, OnlyInitialisedDestroyed, DestroyIsIdempotent
  <2> QED BY <2>7, <2>8, <2>9 DEF ObjectInv
<1>9. CASE GiveUp
  <2>1. /\ at \in {"failed", "refused"} /\ ~always /\ at' = "gone"
        /\ lost' = (lost \/ \E p \in Parts : impl[p] = "memory")
        /\ impl' = [p \in Parts |-> "NULL"] /\ native' = {}
        /\ UNCHANGED <<part, attr, raw, wrong>>
    BY <1>9 DEF GiveUp
  <2>2. (\E p \in Parts : impl[p] = "memory") => ~UndoesItself
    <3> SUFFICES ASSUME NEW p \in Parts, impl[p] = "memory" PROVE ~UndoesItself
      OBVIOUS
    <3>1. p < part => Len(parts) = 2
      BY <1>a
    <3>2. p >= part => LeavesMemory(p)
      BY <1>a, <1>c, <2>1 DEF Behind, Hollow
    <3> QED BY <1>a, <3>1, <3>2, NotUndone
  <2>7. ObjectTyped'
    BY <1>a, <1>b, <2>1, <2>2, <1>c DEF ObjectTyped, Steps
  <2>8. AttributesKept' /\ Made' /\ Behind' /\ Hollow' /\ HandleKept'
    BY <1>a, <1>b, <2>1, <2>2, <1>c
    DEF ObjectTyped, AttributesKept, Made, Behind, Hollow, HandleKept
  <2>9. NoLeak' /\ OnlyInitialisedDestroyed' /\ DestroyIsIdempotent'
    BY <1>a, <1>b, <2>1, <2>8, <2>2, <1>c
    DEF ObjectTyped, AttributesKept, Made, Behind, Hollow, HandleKept,
        NoLeak, OnlyInitialisedDestroyed, DestroyIsIdempotent
  <2> QED BY <2>7, <2>8, <2>9 DEF ObjectInv
<1> QED BY <1>1, <1>2, <1>3, <1>4, <1>5, <1>6, <1>7, <1>8, <1>9 DEF Next, Native

\* Whichever step of init fails and whichever destroy is refused: a caller that
\* destroys the object also then leaks nothing, and none does of a type whose
\* init undoes what it did.
THEOREM ObjectsDoNotLeak == Spec => []NoLeak
<1>1. ObjectInv => NoLeak
  BY DEF ObjectInv
<1> QED BY <1>1, ObjectInitInv, ObjectNextInv, PTL DEF Spec

\* Only that caller has a native object destroyed that was never initialised,
\* and only of a type whose init leaves its memory behind.
THEOREM OthersDestroyWhatTheyMade == Spec => []OnlyInitialisedDestroyed
<1>1. ObjectInv => OnlyInitialisedDestroyed
  BY DEF ObjectInv
<1> QED BY <1>1, ObjectInitInv, ObjectNextInv, PTL DEF Spec

\* Destroying what was never made, what released its memory when it failed or
\* what is destroyed already touches neither NULL nor freed memory, except for
\* three types on Windows.
THEOREM DestroyTwiceIsSafe == Spec => []DestroyIsIdempotent
<1>1. ObjectInv => DestroyIsIdempotent
  BY DEF ObjectInv
<1> QED BY <1>1, ObjectInitInv, ObjectNextInv, PTL DEF Spec

=============================================================================
