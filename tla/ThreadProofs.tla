---------------------------- MODULE ThreadProofs ----------------------------
(***************************************************************************)
(* Safety of Thread for any number of objects and of native handles, and   *)
(* its refinement of Future.                                               *)
(***************************************************************************)
EXTENDS Thread, TLAPS

(***************************************************************************)
(* The strengthening.  A thread that still uses its object has its handle  *)
(* in it, and the client of a started object finds its own thread there.   *)
(* The two together keep threads with handles used twice apart.            *)
(***************************************************************************)
OwnsObject ==
  \A n \in Natives :
    state[n] # "free" =>
      /\ current[n] \in Objects
      /\ live[current[n]]
      /\ impl[current[n]] = n
      /\ phase[current[n]] = IF detached[n] THEN "detached" ELSE "started"

NamesThread ==
  \A o \in Objects :
    phase[o] = "started" =>
      /\ impl[o] \in Natives
      /\ state[impl[o]] # "free"
      /\ current[impl[o]] = o

\* An object from which a thread was started is never started from again.
KeepsHandle ==
  \A o \in Objects :
    phase[o] \in {"started", "joined", "detached"} => impl[o] # NoNative

LivePhase == \A o \in Objects : live[o] <=> phase[o] # "none"

\* Only a started object is waited for.
WaitsForThread == \A o \in Objects : pc[o] # "idle" => phase[o] = "started"

\* The function waits in the object, and then runs.
KeepsFunction ==
  \A n \in Natives :
    /\ state[n] = "starting" => fn[current[n]] = wanted[current[n]].fn
    /\ state[n] = "running" => call[n].fn = wanted[current[n]].fn

FreeIsClean == \A n \in Natives : state[n] = "free" => ~detached[n]

IInv ==
  /\ OwnsObject
  /\ NamesThread
  /\ KeepsHandle
  /\ LivePhase
  /\ WaitsForThread
  /\ KeepsFunction
  /\ FreeIsClean

-----------------------------------------------------------------------------
(***************************************************************************)
(* Types                                                                   *)
(***************************************************************************)
LEMMA TypeInit == Init => TypeOK
  BY ThreadAssumption DEF Init, TypeOK, Calls, NoCall, Errors, Phases

\* Forgetting a thread keeps the types of the native variables.
LEMMA ReclaimTyped ==
  ASSUME NEW n,
         state \in [Natives -> {"free", "starting", "running", "ended"}],
         detached \in [Natives -> BOOLEAN],
         current \in [Natives -> Objects \union {NoObject}],
         call \in [Natives -> Calls], exit \in [Natives -> Codes],
         Reclaim(n)
  PROVE  /\ state' \in [Natives -> {"free", "starting", "running", "ended"}]
         /\ detached' \in [Natives -> BOOLEAN]
         /\ current' \in [Natives -> Objects \union {NoObject}]
         /\ call' \in [Natives -> Calls] /\ exit' \in [Natives -> Codes]
<1>1. NoCall \in Calls
  BY DEF NoCall, Calls
<1> QED BY <1>1, ThreadAssumption DEF Reclaim

LEMMA TypeNext == TypeOK /\ OwnsObject /\ [Next]_vars => TypeOK'
<1> SUFFICES ASSUME TypeOK, OwnsObject, [Next]_vars PROVE TypeOK'
  OBVIOUS
<1> USE ThreadAssumption
<1> USE DEF TypeOK, Return, objectVars, nativeVars, clientVars, Errors, Phases
<1>1. CASE UNCHANGED vars
  BY <1>1 DEF vars
<1>2. ASSUME NEW o \in Objects, InitObject(o) PROVE TypeOK'
  BY <1>2 DEF InitObject, Clear
<1>3. ASSUME NEW o \in Objects, Destroy(o) PROVE TypeOK'
  BY <1>3 DEF Destroy, Clear, NoCall, Calls
<1>4. ASSUME NEW o \in Objects, SetStackSize(o) PROVE TypeOK'
  BY <1>4 DEF SetStackSize
<1>5. ASSUME NEW o \in Objects, NEW f \in Fns, NEW a \in Args, Start(o, f, a) PROVE TypeOK'
  <2>1. CASE Started(o)
    BY <1>5, <2>1 DEF Start
  <2>2. CASE StartFailsEarly(o) /\ pc' = pc /\ code' = code
    BY <2>2 DEF StartFailsEarly
  <2>3. ASSUME fn' = [fn EXCEPT ![o] = f], arg' = [arg EXCEPT ![o] = a],
               UNCHANGED <<live, sized, pc, code>>, Create(o, f, a)
        PROVE  TypeOK'
    BY <2>3 DEF Create, Calls
  <2>4. ASSUME fn' = [fn EXCEPT ![o] = f], arg' = [arg EXCEPT ![o] = a],
               UNCHANGED <<live, sized, pc, code>>, CreateFails(o)
        PROVE  TypeOK'
    BY <2>4 DEF CreateFails
  <2> QED BY <1>5, <2>1, <2>2, <2>3, <2>4 DEF Start
<1>6. ASSUME NEW o \in Objects, NEW kind \in {"joining", "waiting"}, CallJoin(o, kind)
      PROVE  TypeOK'
  BY <1>6 DEF CallJoin
<1>7. ASSUME NEW o \in Objects, Joined(o) PROVE TypeOK'
  <2>1. exit[impl[o]] \in Codes
    BY <1>7 DEF Joined, Ended
  <2>2. "OK" \in Errors /\ "joined" \in Phases
    BY DEF Errors, Phases
  <2> HIDE DEF Errors, Phases, TypeOK
  <2>3. /\ Reclaim(impl[o])
        /\ code' = [code EXCEPT ![o] = exit[impl[o]]]
        /\ pc' = [pc EXCEPT ![o] = "idle"]
        /\ phase' = [phase EXCEPT ![o] = "joined"]
        /\ error' = [error EXCEPT ![o] = "OK"]
        /\ UNCHANGED <<live, impl, fn, arg, sized, wanted>>
    BY <1>7 DEF Joined
  <2>4. /\ code' \in [Objects -> Codes]
        /\ pc' \in [Objects -> {"idle", "joining", "waiting"}]
        /\ phase' \in [Objects -> Phases] /\ error' \in [Objects -> Errors]
    BY <2>1, <2>2, <2>3 DEF TypeOK
  <2>5. /\ state' \in [Natives -> {"free", "starting", "running", "ended"}]
        /\ detached' \in [Natives -> BOOLEAN]
        /\ current' \in [Natives -> Objects \union {NoObject}]
        /\ call' \in [Natives -> Calls] /\ exit' \in [Natives -> Codes]
    BY <2>3, ReclaimTyped DEF TypeOK
  <2> QED BY <2>3, <2>4, <2>5 DEF TypeOK
<1>8. ASSUME NEW o \in Objects, TimedOut(o) PROVE TypeOK'
  BY <1>8 DEF TimedOut, CodeOfFailure
<1>9. ASSUME NEW o \in Objects, Detach(o) PROVE TypeOK'
  <2>2. "OK" \in Errors /\ "detached" \in Phases
    BY DEF Errors, Phases
  <2> HIDE DEF Errors, Phases, TypeOK
  <2>3. /\ UNCHANGED <<live, impl, fn, arg, sized, pc, code, wanted>>
        /\ phase' = [phase EXCEPT ![o] = "detached"]
        /\ error' = [error EXCEPT ![o] = "OK"]
    BY <1>9 DEF Detach
  <2>4. /\ phase' \in [Objects -> Phases] /\ error' \in [Objects -> Errors]
    BY <2>2, <2>3 DEF TypeOK
  <2>5. CASE Ended(o)
    <3>1. Reclaim(impl[o])
      BY <1>9, <2>5 DEF Detach
    <3>2. /\ state' \in [Natives -> {"free", "starting", "running", "ended"}]
          /\ detached' \in [Natives -> BOOLEAN]
          /\ current' \in [Natives -> Objects \union {NoObject}]
          /\ call' \in [Natives -> Calls] /\ exit' \in [Natives -> Codes]
      BY <3>1, ReclaimTyped DEF TypeOK
    <3> QED BY <2>3, <2>4, <3>2 DEF TypeOK
  <2>6. CASE ~Ended(o)
    <3>1. /\ detached' = [detached EXCEPT ![impl[o]] = TRUE]
          /\ UNCHANGED <<state, current, call, exit>>
      BY <1>9, <2>6 DEF Detach
    <3>2. detached' \in [Natives -> BOOLEAN]
      BY <3>1 DEF TypeOK
    <3> QED BY <2>3, <2>4, <3>1, <3>2 DEF TypeOK
  <2> QED BY <2>5, <2>6
<1>10. ASSUME NEW n \in Natives, StartThread(n) PROVE TypeOK'
  <2>1. current[n] \in Objects
    BY <1>10 DEF StartThread, OwnsObject
  <2>2. [fn |-> fn[current[n]], arg |-> current[n]] \in Calls
    BY <2>1 DEF Calls
  <2> QED BY <1>10, <2>2 DEF StartThread
<1>11. ASSUME NEW n \in Natives, NEW c \in Codes, Exit(n, c) PROVE TypeOK'
  <2> HIDE DEF Errors, Phases, TypeOK
  <2>1. UNCHANGED <<live, impl, fn, arg, sized, phase, pc, error, code, wanted>>
    BY <1>11 DEF Exit
  <2>2. CASE detached[n]
    <3>1. Reclaim(n)
      BY <1>11, <2>2 DEF Exit
    <3>2. /\ state' \in [Natives -> {"free", "starting", "running", "ended"}]
          /\ detached' \in [Natives -> BOOLEAN]
          /\ current' \in [Natives -> Objects \union {NoObject}]
          /\ call' \in [Natives -> Calls] /\ exit' \in [Natives -> Codes]
      BY <3>1, ReclaimTyped DEF TypeOK
    <3> QED BY <2>1, <3>2 DEF TypeOK
  <2>3. CASE ~detached[n]
    <3>1. /\ state' = [state EXCEPT ![n] = "ended"]
          /\ exit' = [exit EXCEPT ![n] = c]
          /\ UNCHANGED <<detached, current, call>>
      BY <1>11, <2>3 DEF Exit
    <3>2. /\ state' \in [Natives -> {"free", "starting", "running", "ended"}]
          /\ exit' \in [Natives -> Codes]
      BY <3>1 DEF TypeOK
    <3> QED BY <2>1, <3>1, <3>2 DEF TypeOK
  <2> QED BY <2>2, <2>3
<1> QED
  BY <1>1, <1>2, <1>3, <1>4, <1>5, <1>6, <1>7, <1>8, <1>9, <1>10, <1>11
     DEF Next, Client, NewThread, Join, WaitFor

-----------------------------------------------------------------------------
(***************************************************************************)
(* The inductive invariant                                                 *)
(***************************************************************************)
LEMMA IInvInit == Init => IInv
  BY DEF Init, IInv, OwnsObject, NamesThread, KeepsHandle, LivePhase,
         WaitsForThread, KeepsFunction, FreeIsClean

LEMMA IInvNext == TypeOK /\ IInv /\ [Next]_vars => IInv'
<1> SUFFICES ASSUME TypeOK, IInv, [Next]_vars PROVE IInv'
  OBVIOUS
<1> USE ThreadAssumption DEF IInv
<1> USE DEF TypeOK, Return, objectVars, nativeVars, clientVars
<1>1. CASE UNCHANGED vars
  BY <1>1 DEF vars, OwnsObject, NamesThread, KeepsHandle, LivePhase,
              WaitsForThread, KeepsFunction, FreeIsClean
<1>2. ASSUME NEW o \in Objects, InitObject(o) PROVE IInv'
  <2>0. \A n \in Natives : state[n] # "free" => current[n] \in Objects /\ current[n] # o
    BY <1>2 DEF InitObject, OwnsObject
  <2>1. OwnsObject'
    BY <1>2 DEF InitObject, Clear, OwnsObject
  <2>2. NamesThread'
    BY <1>2 DEF InitObject, Clear, NamesThread
  <2>3. KeepsHandle'
    BY <1>2 DEF InitObject, Clear, KeepsHandle
  <2>4. LivePhase'
    BY <1>2 DEF InitObject, Clear, LivePhase
  <2>5. WaitsForThread'
    BY <1>2 DEF InitObject, Clear, WaitsForThread
  <2>6. KeepsFunction'
    BY <1>2, <2>0 DEF InitObject, Clear, KeepsFunction
  <2>7. FreeIsClean'
    BY <1>2 DEF InitObject, Clear, FreeIsClean
  <2> QED BY <2>1, <2>2, <2>3, <2>4, <2>5, <2>6, <2>7
<1>3. ASSUME NEW o \in Objects, Destroy(o) PROVE IInv'
  <2>0. \A n \in Natives : state[n] # "free" => current[n] \in Objects /\ current[n] # o
    BY <1>3 DEF Destroy, MayDestroy, OwnsObject
  <2>1. OwnsObject'
    BY <1>3 DEF Destroy, MayDestroy, Clear, OwnsObject
  <2>2. NamesThread'
    BY <1>3 DEF Destroy, MayDestroy, Clear, NamesThread
  <2>3. KeepsHandle'
    BY <1>3 DEF Destroy, MayDestroy, Clear, KeepsHandle
  <2>4. LivePhase'
    BY <1>3 DEF Destroy, MayDestroy, Clear, LivePhase
  <2>5. WaitsForThread'
    BY <1>3 DEF Destroy, MayDestroy, Clear, WaitsForThread
  <2>6. KeepsFunction'
    BY <1>3, <2>0 DEF Destroy, Clear, KeepsFunction
  <2>7. FreeIsClean'
    BY <1>3 DEF Destroy, MayDestroy, Clear, FreeIsClean
  <2> QED BY <2>1, <2>2, <2>3, <2>4, <2>5, <2>6, <2>7
<1>4. ASSUME NEW o \in Objects, SetStackSize(o) PROVE IInv'
  <2>1. OwnsObject'
    BY <1>4 DEF SetStackSize, Idle, OwnsObject
  <2>2. NamesThread'
    BY <1>4 DEF SetStackSize, Idle, NamesThread
  <2>3. KeepsHandle'
    BY <1>4 DEF SetStackSize, Idle, KeepsHandle
  <2>4. LivePhase'
    BY <1>4 DEF SetStackSize, Idle, LivePhase
  <2>5. WaitsForThread'
    BY <1>4 DEF SetStackSize, Idle, WaitsForThread
  <2>6. KeepsFunction'
    BY <1>4 DEF SetStackSize, Idle, KeepsFunction
  <2>7. FreeIsClean'
    BY <1>4 DEF SetStackSize, Idle, FreeIsClean
  <2> QED BY <2>1, <2>2, <2>3, <2>4, <2>5, <2>6, <2>7
<1>5. ASSUME NEW o \in Objects, NEW kind \in {"joining", "waiting"}, CallJoin(o, kind)
      PROVE  IInv'
  <2>1. OwnsObject'
    BY <1>5 DEF CallJoin, MayJoin, Idle, OwnsObject
  <2>2. NamesThread'
    BY <1>5 DEF CallJoin, MayJoin, Idle, NamesThread
  <2>3. KeepsHandle'
    BY <1>5 DEF CallJoin, MayJoin, Idle, KeepsHandle
  <2>4. LivePhase'
    BY <1>5 DEF CallJoin, MayJoin, Idle, LivePhase
  <2>5. WaitsForThread'
    BY <1>5 DEF CallJoin, MayJoin, Idle, WaitsForThread
  <2>6. KeepsFunction'
    BY <1>5 DEF CallJoin, MayJoin, Idle, KeepsFunction
  <2>7. FreeIsClean'
    BY <1>5 DEF CallJoin, MayJoin, Idle, FreeIsClean
  <2> QED BY <2>1, <2>2, <2>3, <2>4, <2>5, <2>6, <2>7
<1>6. ASSUME NEW o \in Objects, Joined(o) PROVE IInv'
  <2>0. /\ phase[o] = "started" /\ live[o]
        /\ \A p \in Objects : phase[p] = "started" /\ p # o => impl[p] # impl[o]
    BY <1>6 DEF Joined, WaitsForThread, LivePhase, NamesThread
  <2>1. OwnsObject'
    BY <1>6 DEF Joined, Ended, Reclaim, OwnsObject
  <2>2. NamesThread'
    BY <1>6, <2>0 DEF Joined, Ended, Reclaim, NamesThread
  <2>3. KeepsHandle'
    BY <1>6 DEF Joined, Ended, Reclaim, KeepsHandle
  <2>4. LivePhase'
    BY <1>6, <2>0 DEF Joined, Ended, Reclaim, LivePhase
  <2>5. WaitsForThread'
    BY <1>6 DEF Joined, Ended, Reclaim, WaitsForThread
  <2>6. KeepsFunction'
    BY <1>6 DEF Joined, Ended, Reclaim, KeepsFunction
  <2>7. FreeIsClean'
    BY <1>6 DEF Joined, Ended, Reclaim, FreeIsClean
  <2> QED BY <2>1, <2>2, <2>3, <2>4, <2>5, <2>6, <2>7
<1>7. ASSUME NEW o \in Objects, TimedOut(o) PROVE IInv'
  <2>1. OwnsObject'
    BY <1>7 DEF TimedOut, OwnsObject
  <2>2. NamesThread'
    BY <1>7 DEF TimedOut, NamesThread
  <2>3. KeepsHandle'
    BY <1>7 DEF TimedOut, KeepsHandle
  <2>4. LivePhase'
    BY <1>7 DEF TimedOut, LivePhase
  <2>5. WaitsForThread'
    BY <1>7 DEF TimedOut, WaitsForThread
  <2>6. KeepsFunction'
    BY <1>7 DEF TimedOut, KeepsFunction
  <2>7. FreeIsClean'
    BY <1>7 DEF TimedOut, FreeIsClean
  <2> QED BY <2>1, <2>2, <2>3, <2>4, <2>5, <2>6, <2>7
<1>8. ASSUME NEW o \in Objects, Detach(o) PROVE IInv'
  <2>0. /\ phase[o] = "started" /\ impl[o] \in Natives /\ current[impl[o]] = o
        /\ state[impl[o]] # "free"
        /\ \A n \in Natives : state[n] # "free" /\ current[n] = o => n = impl[o]
        /\ \A p \in Objects : phase[p] = "started" /\ p # o => impl[p] # impl[o]
    BY <1>8 DEF Detach, MayJoin, OwnsObject, NamesThread
  <2>1. OwnsObject'
    <3>1. CASE Ended(o)
      BY <1>8, <2>0, <3>1 DEF Detach, Reclaim, OwnsObject
    <3>2. CASE ~Ended(o)
      BY <1>8, <2>0, <3>2 DEF Detach, OwnsObject
    <3> QED BY <3>1, <3>2
  <2>2. NamesThread'
    <3>1. CASE Ended(o)
      BY <1>8, <2>0, <3>1 DEF Detach, Reclaim, NamesThread
    <3>2. CASE ~Ended(o)
      BY <1>8, <2>0, <3>2 DEF Detach, NamesThread
    <3> QED BY <3>1, <3>2
  <2>3. KeepsHandle'
    BY <1>8 DEF Detach, MayJoin, Idle, Ended, Reclaim, KeepsHandle
  <2>4. LivePhase'
    BY <1>8 DEF Detach, MayJoin, Idle, Ended, Reclaim, LivePhase
  <2>5. WaitsForThread'
    BY <1>8 DEF Detach, MayJoin, Idle, Ended, Reclaim, WaitsForThread
  <2>6. KeepsFunction'
    BY <1>8 DEF Detach, MayJoin, Idle, Ended, Reclaim, KeepsFunction
  <2>7. FreeIsClean'
    <3>1. CASE Ended(o)
      BY <1>8, <2>0, <3>1 DEF Detach, Reclaim, FreeIsClean
    <3>2. CASE ~Ended(o)
      BY <1>8, <2>0, <3>2 DEF Detach, FreeIsClean
    <3> QED BY <3>1, <3>2
  <2> QED BY <2>1, <2>2, <2>3, <2>4, <2>5, <2>6, <2>7
<1>9. ASSUME NEW n \in Natives, StartThread(n) PROVE IInv'
  <2>1. OwnsObject'
    BY <1>9 DEF StartThread, OwnsObject
  <2>2. NamesThread'
    BY <1>9 DEF StartThread, NamesThread
  <2>3. KeepsHandle'
    BY <1>9 DEF StartThread, KeepsHandle
  <2>4. LivePhase'
    BY <1>9 DEF StartThread, LivePhase
  <2>5. WaitsForThread'
    BY <1>9 DEF StartThread, WaitsForThread
  <2>6. KeepsFunction'
    BY <1>9 DEF StartThread, KeepsFunction
  <2>7. FreeIsClean'
    BY <1>9 DEF StartThread, FreeIsClean
  <2> QED BY <2>1, <2>2, <2>3, <2>4, <2>5, <2>6, <2>7
<1>10. ASSUME NEW n \in Natives, NEW c \in Codes, Exit(n, c) PROVE IInv'
  <2>1. OwnsObject'
    BY <1>10 DEF Exit, Reclaim, OwnsObject
  <2>2. NamesThread'
    <3>1. CASE detached[n]
      <4>1. \A p \in Objects : phase[p] = "started" => impl[p] # n
        BY <1>10, <3>1 DEF Exit, OwnsObject, NamesThread
      <4> QED BY <1>10, <3>1, <4>1 DEF Exit, Reclaim, NamesThread
    <3>2. CASE ~detached[n]
      BY <1>10, <3>2 DEF Exit, NamesThread
    <3> QED BY <3>1, <3>2
  <2>3. KeepsHandle'
    BY <1>10 DEF Exit, Reclaim, KeepsHandle
  <2>4. LivePhase'
    BY <1>10 DEF Exit, Reclaim, LivePhase
  <2>5. WaitsForThread'
    BY <1>10 DEF Exit, Reclaim, WaitsForThread
  <2>6. KeepsFunction'
    BY <1>10 DEF Exit, Reclaim, KeepsFunction
  <2>7. FreeIsClean'
    BY <1>10 DEF Exit, Reclaim, FreeIsClean
  <2> QED BY <2>1, <2>2, <2>3, <2>4, <2>5, <2>6, <2>7
<1>11. ASSUME NEW o \in Objects, NEW f \in Fns, NEW a \in Args, Start(o, f, a) PROVE IInv'
  <2>0. live[o] /\ pc[o] = "idle" /\ UNCHANGED <<live, sized, pc, code>>
    BY <1>11 DEF Start, Idle, StartFailsEarly
  <2>1. CASE UNCHANGED <<impl, fn, nativeVars, phase, wanted>>
    BY <2>0, <2>1 DEF OwnsObject, NamesThread, KeepsHandle, LivePhase,
              WaitsForThread, KeepsFunction, FreeIsClean
  <2>2. CASE impl[o] = NoNative /\ fn' = [fn EXCEPT ![o] = f] /\ CreateFails(o)
    <3> QED BY <2>0, <2>2 DEF CreateFails, OwnsObject, NamesThread, KeepsHandle, LivePhase,
              WaitsForThread, KeepsFunction, FreeIsClean
  <2>3. CASE impl[o] = NoNative /\ fn' = [fn EXCEPT ![o] = f] /\ Create(o, f, a)
    <3> QED BY <2>0, <2>3 DEF Create, OwnsObject, NamesThread, KeepsHandle, LivePhase,
              WaitsForThread, KeepsFunction, FreeIsClean
  <2> QED BY <1>11, <2>1, <2>2, <2>3 DEF Start, Started, StartFailsEarly
<1> QED
  BY <1>1, <1>2, <1>3, <1>4, <1>5, <1>6, <1>7, <1>8, <1>9, <1>10, <1>11
     DEF Next, Client, NewThread, Join, WaitFor

LEMMA InvariantHolds == Spec => [](TypeOK /\ IInv)
<1>1. TypeOK /\ IInv /\ [Next]_vars => (TypeOK /\ IInv)'
  <2>1. IInv => OwnsObject
    BY DEF IInv
  <2> QED BY <2>1, TypeNext, IInvNext
<1> QED BY <1>1, TypeInit, IInvInit, PTL DEF Spec

\* Every variable keeps its type: a join never writes what was not computed,
\* even when it fails.
THEOREM TypeCorrect == Spec => []TypeOK
  BY InvariantHolds, PTL

\* start_thread and rbc_thread_current read allocated objects only.
THEOREM ThreadsReadLive == Spec => []ReadsLive
<1>1. TypeOK /\ IInv => ReadsLive
  BY DEF TypeOK, IInv, OwnsObject, ReadsLive
<1> QED BY <1>1, InvariantHolds, PTL

\* Until it is joined or detached a thread is named by its object's handle.
THEOREM ThreadsStayJoinable == Spec => []Joinable
<1>1. TypeOK /\ IInv => Joinable
  BY DEF IInv, OwnsObject, Joinable
<1> QED BY <1>1, InvariantHolds, PTL

\* A thread runs the function of the start that made it.
THEOREM ThreadsRunTheirFunction == Spec => []RunsItsFunction
<1>1. TypeOK /\ IInv => RunsItsFunction
  BY DEF IInv, KeepsFunction, RunsItsFunction
<1> QED BY <1>1, InvariantHolds, PTL

-----------------------------------------------------------------------------
(***************************************************************************)
(* Refinement: what the client of an object sees is a future.              *)
(***************************************************************************)
StatusOf(o) ==
  IF Pending(o) THEN (IF Ended(o) THEN "done" ELSE "pending")
  ELSE IF phase[o] \in {"joined", "detached"} THEN "over" ELSE "idle"

ValueOf(o) == IF Pending(o) /\ Ended(o) THEN exit[impl[o]] ELSE Garbage

TakenOf(o) == IF phase[o] = "joined" THEN code[o] ELSE Garbage

\* What the future of an object shows to its client.
Shows(o) == <<StatusOf(o), ValueOf(o), TakenOf(o)>>

LEMMA FutureInit == Init => Answer!Init
  BY DEF Init, Answer!Init, Pending

\* What an object shows depends on its client and, while it is pending, on
\* the thread its handle names.
LEMMA Unseen ==
  ASSUME NEW o \in Objects,
         phase'[o] = phase[o], code'[o] = code[o] \/ phase[o] # "joined",
         Pending(o) =>
           impl'[o] = impl[o] /\ state'[impl[o]] = state[impl[o]] /\ exit'[impl[o]] = exit[impl[o]]
  PROVE  Shows(o)' = Shows(o)
  BY DEF Shows, StatusOf, ValueOf, TakenOf, Pending, Ended

\* If no object shows anything new, the futures stutter.
LEMMA Stutter ==
  ASSUME \A o \in Objects : Shows(o)' = Shows(o)
  PROVE  UNCHANGED Answer!futureVars
<1>1. \A o \in Objects : /\ StatusOf(o)' = StatusOf(o)
                         /\ ValueOf(o)' = ValueOf(o)
                         /\ TakenOf(o)' = TakenOf(o)
  BY DEF Shows
<1> QED BY <1>1 DEF Answer!futureVars, StatusOf, ValueOf, TakenOf

\* The steps of a future, where only object o shows something new.
LEMMA Steps ==
  ASSUME NEW o \in Objects, \A p \in Objects \ {o} : Shows(p)' = Shows(p)
  PROVE  /\ /\ StatusOf(o) = "idle" /\ StatusOf(o)' = "pending"
            /\ ValueOf(o)' = ValueOf(o) /\ TakenOf(o)' = TakenOf(o)
            => Answer!Begin(o)
         /\ /\ StatusOf(o) = "pending" /\ StatusOf(o)' = "done"
            /\ ValueOf(o)' \in Codes /\ TakenOf(o)' = TakenOf(o)
            => Answer!Complete(o)
         /\ /\ StatusOf(o) = "done" /\ StatusOf(o)' = "over"
            /\ TakenOf(o)' = ValueOf(o) /\ ValueOf(o)' = Garbage
            => Answer!Take(o)
         /\ /\ StatusOf(o) \in {"pending", "done"} /\ StatusOf(o)' = "over"
            /\ ValueOf(o)' = Garbage /\ TakenOf(o)' = TakenOf(o)
            => Answer!Abandon(o)
         /\ /\ StatusOf(o) = "over" /\ StatusOf(o)' = "idle"
            /\ TakenOf(o)' = Garbage /\ ValueOf(o)' = ValueOf(o)
            => Answer!Reset(o)
<1> DEFINE S == [p \in Objects |-> StatusOf(p)]
           V == [p \in Objects |-> ValueOf(p)]
           T == [p \in Objects |-> TakenOf(p)]
<1>1. \A p \in Objects \ {o} : /\ StatusOf(p)' = StatusOf(p)
                               /\ ValueOf(p)' = ValueOf(p)
                               /\ TakenOf(p)' = TakenOf(p)
  BY DEF Shows
<1>2. /\ S' = [S EXCEPT ![o] = StatusOf(o)']
      /\ V' = [V EXCEPT ![o] = ValueOf(o)']
      /\ T' = [T EXCEPT ![o] = TakenOf(o)']
  BY <1>1
<1>3. /\ ValueOf(o)' = ValueOf(o) => V' = V
      /\ TakenOf(o)' = TakenOf(o) => T' = T
  BY <1>1
<1>4. S[o] = StatusOf(o) /\ V[o] = ValueOf(o) /\ T[o] = TakenOf(o)
  OBVIOUS
<1> QED
  BY <1>2, <1>3, <1>4
     DEF Answer!Begin, Answer!Complete, Answer!Take, Answer!Abandon, Answer!Reset,
         StatusOf, ValueOf, TakenOf

LEMMA FutureNext ==
  TypeOK /\ IInv /\ TypeOK' /\ [Next]_vars => [Answer!Next]_(Answer!futureVars)
<1> SUFFICES ASSUME TypeOK, IInv, TypeOK', [Next]_vars
             PROVE  Answer!Next \/ UNCHANGED Answer!futureVars
  OBVIOUS
<1> USE ThreadAssumption
<1> USE DEF Return, objectVars, nativeVars, clientVars
\* The handles of pending objects are handles of different threads.
<1>n. \A o \in Objects : Pending(o) => impl[o] \in Natives /\ state[impl[o]] # "free"
                                       /\ current[impl[o]] = o /\ ~detached[impl[o]]
  BY DEF Pending, IInv, NamesThread, OwnsObject, TypeOK
<1>l. /\ live \in [Objects -> BOOLEAN] /\ phase \in [Objects -> Phases]
      /\ impl \in [Objects -> Natives \union {NoNative}]
      /\ code \in [Objects -> Codes] /\ exit \in [Natives -> Codes]
      /\ state \in [Natives -> {"free", "starting", "running", "ended"}]
      /\ pc \in [Objects -> {"idle", "joining", "waiting"}]
  BY DEF TypeOK
<1>w. \A o \in Objects : pc[o] # "idle" => phase[o] = "started"
  BY DEF IInv, WaitsForThread
<1>k. \A o \in Objects : phase[o] \in {"started", "joined", "detached"} => Started(o)
  BY DEF IInv, KeepsHandle, Started
<1>p. \A o \in Objects : live[o] <=> phase[o] # "none"
  BY DEF IInv, LivePhase
<1>1. CASE UNCHANGED vars
  <2>1. \A o \in Objects : Shows(o)' = Shows(o)
    BY <1>1 DEF vars, Shows, StatusOf, ValueOf, TakenOf, Pending, Ended
  <2> QED BY <2>1, Stutter
<1>2. ASSUME NEW o \in Objects, InitObject(o) PROVE UNCHANGED Answer!futureVars
  <2>1. \A p \in Objects \ {o} : Shows(p)' = Shows(p)
    BY <1>2, <1>l, Unseen DEF InitObject, Clear
  <2>2. Shows(o)' = Shows(o)
    BY <1>2, <1>l DEF InitObject, Clear, Shows, StatusOf, ValueOf, TakenOf, Pending
  <2> QED BY <2>1, <2>2, Stutter
<1>3. ASSUME NEW o \in Objects, Destroy(o)
      PROVE  Answer!Reset(o) \/ UNCHANGED Answer!futureVars
  <2>1. \A p \in Objects \ {o} : Shows(p)' = Shows(p)
    BY <1>3, <1>l, Unseen DEF Destroy, Clear
  <2>2. ~Pending(o) /\ ~Pending(o)' /\ phase'[o] = "none"
    BY <1>3, <1>l DEF Destroy, MayDestroy, Pending
  <2>3. StatusOf(o)' = "idle" /\ ValueOf(o)' = Garbage /\ TakenOf(o)' = Garbage /\ ValueOf(o) = Garbage
    BY <2>2 DEF StatusOf, ValueOf, TakenOf
  <2>4. CASE StatusOf(o) = "over"
    BY <2>1, <2>3, <2>4, Steps
  <2>5. CASE StatusOf(o) # "over"
    <3>1. Shows(o)' = Shows(o)
      BY <2>2, <2>3, <2>5 DEF Shows, StatusOf, TakenOf
    <3> QED BY <2>1, <3>1, Stutter
  <2> QED BY <2>4, <2>5
<1>4. ASSUME NEW o \in Objects, SetStackSize(o) PROVE UNCHANGED Answer!futureVars
  BY <1>4, Unseen, Stutter DEF SetStackSize
<1>5. ASSUME NEW o \in Objects, NEW kind \in {"joining", "waiting"}, CallJoin(o, kind)
      PROVE  UNCHANGED Answer!futureVars
  BY <1>5, Unseen, Stutter DEF CallJoin
<1>6. ASSUME NEW o \in Objects, Joined(o) PROVE Answer!Take(o)
  <2>1. \A p \in Objects \ {o} : Pending(p) => impl[p] # impl[o]
    BY <1>6, <1>n, <1>w DEF Joined, Pending
  <2>2. \A p \in Objects \ {o} : Shows(p)' = Shows(p)
    BY <1>6, <1>l, <1>n, <2>1, Unseen DEF Joined, Reclaim
  <2>3. Pending(o) /\ Ended(o)
    BY <1>6, <1>w DEF Joined, Pending
  <2>4. phase'[o] = "joined" /\ code'[o] = exit[impl[o]]
    BY <1>6, <1>l DEF Joined
  <2>5. StatusOf(o) = "done" /\ StatusOf(o)' = "over" /\ TakenOf(o)' = ValueOf(o) /\ ValueOf(o)' = Garbage
    BY <2>3, <2>4 DEF StatusOf, ValueOf, TakenOf, Pending
  <2> QED BY <2>2, <2>5, Steps
<1>7. ASSUME NEW o \in Objects, TimedOut(o) PROVE UNCHANGED Answer!futureVars
  <2>1. \A p \in Objects : code'[p] = code[p] \/ phase[p] # "joined"
    BY <1>7, <1>l, <1>w DEF TimedOut
  <2>2. phase' = phase /\ impl' = impl /\ state' = state /\ exit' = exit
    BY <1>7 DEF TimedOut
  <2> QED BY <2>1, <2>2, Unseen, Stutter
<1>8. ASSUME NEW o \in Objects, Detach(o) PROVE Answer!Abandon(o)
  <2>0. Pending(o)
    BY <1>8 DEF Detach, MayJoin, Pending
  <2>1. \A p \in Objects \ {o} : Pending(p) => impl[p] # impl[o]
    BY <1>n, <2>0
  <2>2. \A p \in Objects \ {o} : Shows(p)' = Shows(p)
    BY <1>8, <1>l, <1>n, <2>1, Unseen DEF Detach, Reclaim
  <2>3. phase'[o] = "detached"
    BY <1>8, <1>l DEF Detach
  <2>4. /\ StatusOf(o) \in {"pending", "done"} /\ StatusOf(o)' = "over"
        /\ ValueOf(o)' = Garbage /\ TakenOf(o)' = TakenOf(o)
    BY <2>0, <2>3 DEF StatusOf, ValueOf, TakenOf, Pending
  <2> QED BY <2>2, <2>4, Steps
<1>9. ASSUME NEW n \in Natives, StartThread(n) PROVE UNCHANGED Answer!futureVars
  <2>1. \A p \in Objects : Pending(p)' = Pending(p) /\ Ended(p)' = Ended(p)
    BY <1>9, <1>l DEF StartThread, Pending, Ended
  <2>2. \A p \in Objects : Shows(p)' = Shows(p)
    BY <1>9, <2>1 DEF StartThread, Shows, StatusOf, ValueOf, TakenOf
  <2> QED BY <2>2, Stutter
<1>10. ASSUME NEW n \in Natives, NEW c \in Codes, Exit(n, c)
       PROVE  Answer!Next \/ UNCHANGED Answer!futureVars
  <2>0. /\ state[n] = "running" /\ phase' = phase /\ impl' = impl /\ code' = code
        /\ \A m \in Natives \ {n} : state'[m] = state[m] /\ exit'[m] = exit[m]
    BY <1>10, <1>l DEF Exit, Reclaim
  <2>1. CASE detached[n]
    <3>1. \A p \in Objects : Pending(p) => impl[p] \in Natives \ {n}
      BY <1>n, <2>1
    <3> QED BY <2>0, <3>1, Unseen, Stutter
  <2>2. CASE ~detached[n]
    <3>1. PICK o \in Objects : o = current[n] /\ impl[o] = n /\ Pending(o)
      BY <2>0, <2>2 DEF IInv, OwnsObject, Pending
    <3>2. \A p \in Objects \ {o} : Pending(p) => impl[p] \in Natives \ {n}
      BY <1>n, <3>1
    <3>3. \A p \in Objects \ {o} : Shows(p)' = Shows(p)
      BY <2>0, <3>2, Unseen
    <3>4. ~Ended(o) /\ Ended(o)' /\ Pending(o)' /\ exit'[n] = c
      BY <1>10, <1>l, <2>0, <2>2, <3>1 DEF Exit, Ended, Pending
    <3>5. /\ StatusOf(o) = "pending" /\ StatusOf(o)' = "done"
          /\ ValueOf(o)' \in Codes /\ TakenOf(o)' = TakenOf(o)
      BY <2>0, <3>1, <3>4 DEF StatusOf, ValueOf, TakenOf, Pending
    <3>6. Answer!Complete(o)
      BY <3>1, <3>3, <3>5, Steps
    <3> QED BY <3>1, <3>6 DEF Answer!Next
  <2> QED BY <2>1, <2>2
<1>11. ASSUME NEW o \in Objects, NEW f \in Fns, NEW a \in Args, Start(o, f, a)
       PROVE  Answer!Begin(o) \/ UNCHANGED Answer!futureVars
  <2>1. CASE UNCHANGED <<impl, state, exit, phase, code>>
    BY <2>1, Unseen, Stutter
  <2>2. CASE ~Started(o) /\ code' = code /\ CreateFails(o)
    <3>1. \A p \in Objects \ {o} : Shows(p)' = Shows(p)
      BY <2>2, <1>l, Unseen DEF CreateFails
    <3>2. phase[o] \in {"none", "new", "failed"} /\ phase'[o] = "failed"
      BY <2>2, <1>l, <1>k DEF CreateFails, Phases
    <3>3. Shows(o)' = Shows(o)
      BY <3>2 DEF Shows, StatusOf, ValueOf, TakenOf, Pending
    <3> QED BY <3>1, <3>3, Stutter
  <2>3. CASE ~Started(o) /\ code' = code /\ Create(o, f, a)
    <3>1. PICK n \in Natives :
            /\ state[n] = "free"
            /\ impl' = [impl EXCEPT ![o] = n]
            /\ state' = [state EXCEPT ![n] = "starting"]
            /\ phase' = [phase EXCEPT ![o] = "started"]
            /\ exit' = exit
      BY <2>3 DEF Create
    <3>2. \A p \in Objects : Pending(p) => impl[p] # n
      BY <1>n, <3>1
    <3>3. \A p \in Objects \ {o} : Shows(p)' = Shows(p)
      BY <1>l, <1>n, <2>3, <3>1, <3>2, Unseen
    <3>4. phase[o] \in {"none", "new", "failed"} /\ phase'[o] = "started" /\ impl'[o] = n
          /\ state'[n] = "starting"
      BY <2>3, <1>l, <1>k, <3>1 DEF Phases
    <3>5. /\ StatusOf(o) = "idle" /\ StatusOf(o)' = "pending"
          /\ ValueOf(o)' = ValueOf(o) /\ TakenOf(o)' = TakenOf(o)
      BY <3>4 DEF StatusOf, ValueOf, TakenOf, Pending, Ended
    <3> QED BY <3>3, <3>5, Steps
  <2> QED BY <1>11, <2>1, <2>2, <2>3 DEF Start, Started, StartFailsEarly
<1> QED
  BY <1>1, <1>2, <1>3, <1>4, <1>5, <1>6, <1>7, <1>8, <1>9, <1>10, <1>11
     DEF Next, Client, NewThread, Join, WaitFor, Answer!Next

\* For any number of objects, threads and codes a disciplined client sees a
\* future: join answers once, with the code of the thread that start made.
THEOREM ImplementsFuture == Spec => FutureSpec
<1>1. Init => Answer!Init
  BY FutureInit
<1>2. Spec => [](TypeOK /\ IInv)
  BY InvariantHolds
<1>3. QED
  BY <1>1, <1>2, FutureNext, PTL DEF Spec, FutureSpec, Answer!Spec

=============================================================================
