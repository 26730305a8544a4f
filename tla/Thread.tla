------------------------------- MODULE Thread -------------------------------
(***************************************************************************)
(* rbc_thread over POSIX threads (rbc/sync/thread.c).  A thread object is  *)
(* a heap block that its client and the thread started from it share: the  *)
(* client writes the function into it and calls pthread_create, the new    *)
(* thread reads the function from it when it gets to run.                  *)
(*                                                                         *)
(* A native handle (pthread_t) names a thread until the thread has ended   *)
(* and has been joined or detached; then the system may use it again for   *)
(* another thread, while objects keep the old value.  The same holds for   *)
(* the heap blocks.                                                        *)
(*                                                                         *)
(* Each object has a client that calls one operation at a time and keeps   *)
(* to what POSIX asks for: one join or detach for a started thread, and    *)
(* destroy when no thread uses the object.                                 *)
(***************************************************************************)
EXTENDS Naturals

CONSTANTS
  Objects,      \* heap blocks for rbc_thread_impl
  NoObject,     \* rbc_thread_current of a thread that is not ours
  Natives,      \* values of pthread_t
  NoNative,     \* 0
  Fns, Args, NoFn,
  Codes,        \* exit codes; 0 is among them
  Garbage       \* an int that was never written

ASSUME ThreadAssumption ==
  /\ NoObject \notin Objects /\ NoNative \notin Natives
  /\ NoFn \notin Fns
  /\ 0 \in Codes /\ Garbage \notin Codes

VARIABLES
  \* rbc_thread_impl
  live,         \* the block is allocated
  impl,         \* the native handle
  fn, arg,
  sized,        \* a stack size was set
  \* native threads
  state,        \* "free", "starting", "running" or "ended"
  detached,
  current,      \* this_thread_impl, the argument of start_thread
  call,         \* the function that runs and its argument
  exit,         \* the code of an ended thread
  \* clients
  phase,        \* what the client knows of its object
  pc,           \* "idle", or the call it is blocked in
  error,        \* what the last call returned
  code,         \* the int that joins write
  wanted        \* what the client last asked to be started

objectVars == <<live, impl, fn, arg, sized>>
nativeVars == <<state, detached, current, call, exit>>
clientVars == <<phase, pc, error, code, wanted>>
vars == <<objectVars, nativeVars, clientVars>>

Calls == [fn : Fns \union {NoFn}, arg : Args \union Objects \union {NoObject}]
NoCall == [fn |-> NoFn, arg |-> NoObject]
Errors == {"OK", "NOT_ENOUGH_MEMORY", "OPERATION_IN_PROGRESS",
           "INVALID_ARGUMENT", "TRY_AGAIN", "TIMED_OUT"}
Phases == {"none", "new", "started", "failed", "joined", "detached"}

TypeOK ==
  /\ live \in [Objects -> BOOLEAN]
  /\ impl \in [Objects -> Natives \union {NoNative}]
  /\ fn \in [Objects -> Fns \union {NoFn}]
  /\ arg \in [Objects -> Args \union {NoObject}]
  /\ sized \in [Objects -> BOOLEAN]
  /\ state \in [Natives -> {"free", "starting", "running", "ended"}]
  /\ detached \in [Natives -> BOOLEAN]
  /\ current \in [Natives -> Objects \union {NoObject}]
  /\ call \in [Natives -> Calls]
  /\ exit \in [Natives -> Codes]
  /\ phase \in [Objects -> Phases]
  /\ pc \in [Objects -> {"idle", "joining", "waiting"}]
  /\ error \in [Objects -> Errors]
  /\ code \in [Objects -> Codes]
  /\ wanted \in [Objects -> Calls]

Init ==
  /\ live = [o \in Objects |-> FALSE]
  /\ impl = [o \in Objects |-> NoNative]
  /\ fn = [o \in Objects |-> NoFn]
  /\ arg = [o \in Objects |-> NoObject]
  /\ sized = [o \in Objects |-> FALSE]
  /\ state = [n \in Natives |-> "free"]
  /\ detached = [n \in Natives |-> FALSE]
  /\ current = [n \in Natives |-> NoObject]
  /\ call = [n \in Natives |-> NoCall]
  /\ exit = [n \in Natives |-> 0]
  /\ phase = [o \in Objects |-> "none"]
  /\ pc = [o \in Objects |-> "idle"]
  /\ error = [o \in Objects |-> "OK"]
  /\ code = [o \in Objects |-> 0]
  /\ wanted = [o \in Objects |-> NoCall]

Return(o, e) == error' = [error EXCEPT ![o] = e]

(***************************************************************************)
(* Life cycle                                                              *)
(***************************************************************************)
\* The block is zeroed when it is allocated; a freed one is not to be read.
Clear(o) ==
  /\ impl' = [impl EXCEPT ![o] = NoNative]
  /\ fn' = [fn EXCEPT ![o] = NoFn]
  /\ arg' = [arg EXCEPT ![o] = NoObject]
  /\ sized' = [sized EXCEPT ![o] = FALSE]

\* rbc_thread_init: calloc, of a block that may have been used before.
InitObject(o) ==
  /\ phase[o] = "none"
  /\ \/ /\ live' = [live EXCEPT ![o] = TRUE]
        /\ Clear(o)
        /\ phase' = [phase EXCEPT ![o] = "new"]
        /\ Return(o, "OK")
     \/ Return(o, "NOT_ENOUGH_MEMORY") /\ UNCHANGED <<objectVars, phase>>
  /\ UNCHANGED <<nativeVars, pc, code, wanted>>

\* No thread has the object as its own, so far as the client is concerned:
\* nothing was started, the thread was joined, or the client has found out
\* in some other way that the detached thread ended.
MayDestroy(o) ==
  \/ phase[o] \in {"new", "failed", "joined"}
  \/ phase[o] = "detached" /\ \A n \in Natives : state[n] # "free" => current[n] # o

Destroy(o) ==
  /\ pc[o] = "idle"
  /\ MayDestroy(o)
  /\ live' = [live EXCEPT ![o] = FALSE]
  /\ Clear(o)
  /\ phase' = [phase EXCEPT ![o] = "none"]
  /\ wanted' = [wanted EXCEPT ![o] = NoCall]
  /\ Return(o, "OK")
  /\ UNCHANGED <<nativeVars, pc, code>>

Idle(o) == live[o] /\ pc[o] = "idle"

\* Also for a thread whose block was never allocated, or is freed: then
\* rbc_thread holds NULL.
SetStackSize(o) ==
  /\ pc[o] = "idle"
  /\ \/ ~live[o] /\ Return(o, "INVALID_ARGUMENT") /\ UNCHANGED sized
     \/ /\ live[o] /\ impl[o] # NoNative
        /\ Return(o, "OPERATION_IN_PROGRESS")
        /\ UNCHANGED sized
     \/ /\ live[o] /\ impl[o] = NoNative
        /\ Return(o, "OK")
        /\ sized' = [sized EXCEPT ![o] = TRUE]
  /\ UNCHANGED <<live, impl, fn, arg, nativeVars, phase, pc, code, wanted>>

(***************************************************************************)
(* rbc_thread_start                                                        *)
(***************************************************************************)
\* Seeded defect: nobody looks whether a thread was started.
NeverStarted(o) == FALSE

\* A thread was started from the object, or seems to have been.
Started(o) == impl[o] # NoNative

\* The attributes: no memory, or a stack size the system refuses.
StartFailsEarly(o) ==
  /\ \/ Return(o, "NOT_ENOUGH_MEMORY")
     \/ sized[o] /\ Return(o, "INVALID_ARGUMENT")
  /\ UNCHANGED <<objectVars, nativeVars, phase, wanted>>

\* Seeded defect: the handle goes into a local variable.
CreateUnstored(o, f, a) ==
  \E n \in Natives :
    /\ state[n] = "free"
    /\ state' = [state EXCEPT ![n] = "starting"]
    /\ current' = [current EXCEPT ![n] = o]
    /\ phase' = [phase EXCEPT ![o] = "started"]
    /\ wanted' = [wanted EXCEPT ![o] = [fn |-> f, arg |-> a]]
    /\ Return(o, "OK")
    /\ UNCHANGED <<impl, detached, call, exit>>

\* pthread_create makes a thread and stores its handle before it runs.
Create(o, f, a) ==
  \E n \in Natives :
    /\ state[n] = "free"
    /\ impl' = [impl EXCEPT ![o] = n]
    /\ state' = [state EXCEPT ![n] = "starting"]
    /\ current' = [current EXCEPT ![n] = o]
    /\ phase' = [phase EXCEPT ![o] = "started"]
    /\ wanted' = [wanted EXCEPT ![o] = [fn |-> f, arg |-> a]]
    /\ Return(o, "OK")
    /\ UNCHANGED <<detached, call, exit>>

\* Seeded defect: the result of pthread_create is ignored.
CreateFailsUnnoticed(o) ==
  /\ \E n \in Natives \union {NoNative} : impl' = [impl EXCEPT ![o] = n]
  /\ phase' = [phase EXCEPT ![o] = "started"]
  /\ Return(o, "OK")
  /\ UNCHANGED <<nativeVars, wanted>>

\* pthread_create fails and leaves anything in the handle.
CreateFails(o) ==
  /\ \E n \in Natives \union {NoNative} : impl' = [impl EXCEPT ![o] = n]
  /\ phase' = [phase EXCEPT ![o] = "failed"]
  /\ Return(o, "TRY_AGAIN")
  /\ UNCHANGED <<nativeVars, wanted>>

\* Seeded defect: the function is written before the check.
StartWritesFirst(o, f, a) ==
  /\ Idle(o)
  /\ fn' = [fn EXCEPT ![o] = f]
  /\ arg' = [arg EXCEPT ![o] = a]
  /\ IF Started(o)
     THEN Return(o, "OPERATION_IN_PROGRESS") /\ UNCHANGED <<impl, nativeVars, phase, wanted>>
     ELSE Create(o, f, a) \/ CreateFails(o)
  /\ UNCHANGED <<live, sized, pc, code>>

Start(o, f, a) ==
  /\ Idle(o)
  /\ IF Started(o)
     THEN Return(o, "OPERATION_IN_PROGRESS") /\ UNCHANGED <<objectVars, nativeVars, phase, wanted>>
     ELSE \/ StartFailsEarly(o)
          \/ /\ fn' = [fn EXCEPT ![o] = f]
             /\ arg' = [arg EXCEPT ![o] = a]
             /\ Create(o, f, a) \/ CreateFails(o)
             /\ UNCHANGED <<live, sized>>
  /\ UNCHANGED <<pc, code>>

(***************************************************************************)
(* The new thread                                                          *)
(***************************************************************************)
\* start_thread reads the function from the object and passes it the object.
StartThread(n) ==
  /\ state[n] = "starting"
  /\ state' = [state EXCEPT ![n] = "running"]
  /\ call' = [call EXCEPT ![n] = [fn |-> fn[current[n]], arg |-> current[n]]]
  /\ UNCHANGED <<objectVars, detached, current, exit, clientVars>>

\* The system forgets an ended thread, and its handle may be used again.
Reclaim(n) ==
  /\ state' = [state EXCEPT ![n] = "free"]
  /\ detached' = [detached EXCEPT ![n] = FALSE]
  /\ current' = [current EXCEPT ![n] = NoObject]
  /\ call' = [call EXCEPT ![n] = NoCall]
  /\ exit' = [exit EXCEPT ![n] = 0]

\* The function returns, or calls rbc_thread_exit.
Exit(n, c) ==
  /\ state[n] = "running"
  /\ IF detached[n] THEN Reclaim(n)
     ELSE /\ state' = [state EXCEPT ![n] = "ended"]
          /\ exit' = [exit EXCEPT ![n] = c]
          /\ UNCHANGED <<detached, current, call>>
  /\ UNCHANGED <<objectVars, clientVars>>

(***************************************************************************)
(* Join and detach, by the client of a started thread                      *)
(***************************************************************************)
MayJoin(o) == Idle(o) /\ phase[o] = "started"

CallJoin(o, kind) ==
  /\ MayJoin(o)
  /\ pc' = [pc EXCEPT ![o] = kind]
  /\ UNCHANGED <<objectVars, nativeVars, phase, error, code, wanted>>

Join(o) == CallJoin(o, "joining")
WaitFor(o) == CallJoin(o, "waiting")

\* The thread that the handle names has ended.
Ended(o) == impl[o] \in Natives /\ state[impl[o]] = "ended"

\* pthread_join and pthread_timedjoin_np answer; the handle is kept.
Joined(o) ==
  /\ pc[o] \in {"joining", "waiting"}
  /\ Ended(o)
  /\ Reclaim(impl[o])
  /\ code' = [code EXCEPT ![o] = exit[impl[o]]]
  /\ pc' = [pc EXCEPT ![o] = "idle"]
  /\ phase' = [phase EXCEPT ![o] = "joined"]
  /\ Return(o, "OK")
  /\ UNCHANGED <<objectVars, wanted>>

\* Seeded defect: the pointer is not initialised.
CodeUninitialised == Garbage

\* A wait that fails writes the code all the same: that of a null pointer.
CodeOfFailure == 0

\* Seeded defect: the wait forgets its error.
TimedOutUnnoticed(o) ==
  /\ pc[o] = "waiting"
  /\ code' = [code EXCEPT ![o] = CodeOfFailure]
  /\ pc' = [pc EXCEPT ![o] = "idle"]
  /\ phase' = [phase EXCEPT ![o] = "joined"]
  /\ Return(o, "OK")
  /\ UNCHANGED <<objectVars, nativeVars, wanted>>

\* The deadline passes, perhaps as the thread ends.
TimedOut(o) ==
  /\ pc[o] = "waiting"
  /\ code' = [code EXCEPT ![o] = CodeOfFailure]
  /\ pc' = [pc EXCEPT ![o] = "idle"]
  /\ Return(o, "TIMED_OUT")
  /\ UNCHANGED <<objectVars, nativeVars, phase, wanted>>

Detach(o) ==
  /\ MayJoin(o)
  /\ IF Ended(o) THEN Reclaim(impl[o])
     ELSE /\ detached' = [detached EXCEPT ![impl[o]] = TRUE]
          /\ UNCHANGED <<state, current, call, exit>>
  /\ phase' = [phase EXCEPT ![o] = "detached"]
  /\ Return(o, "OK")
  /\ UNCHANGED <<objectVars, pc, code, wanted>>

-----------------------------------------------------------------------------
Client(o) ==
  \/ InitObject(o) \/ Destroy(o) \/ SetStackSize(o)
  \/ \E f \in Fns, a \in Args : Start(o, f, a)
  \/ Join(o) \/ WaitFor(o) \/ Joined(o) \/ TimedOut(o)
  \/ Detach(o)

NewThread(n) == StartThread(n) \/ \E c \in Codes : Exit(n, c)

Next == (\E o \in Objects : Client(o)) \/ \E n \in Natives : NewThread(n)

Spec == Init /\ [][Next]_vars

\* Threads get to run and their functions end; a join whose thread has ended
\* answers.
Fairness ==
  /\ \A n \in Natives : WF_vars(NewThread(n))
  /\ \A o \in Objects : WF_vars(Joined(o))

FairSpec == Spec /\ Fairness

-----------------------------------------------------------------------------
\* start_thread reads its object when the client may long be somewhere else,
\* and rbc_thread_current hands it out while the function runs: the block is
\* then allocated.
ReadsLive ==
  \A n \in Natives : state[n] \in {"starting", "running"} => live[current[n]]

\* A thread that was not detached can be joined until it is: the handle in
\* its object names it, whatever other handles have been used again.
Joinable ==
  \A n \in Natives :
    state[n] # "free" /\ ~detached[n] =>
      /\ live[current[n]] /\ phase[current[n]] = "started"
      /\ impl[current[n]] = n

\* A thread runs the function of the start that made it, even if the client
\* called start again before the thread read the object.
RunsItsFunction ==
  \A n \in Natives :
    state[n] = "running" => call[n].fn = wanted[current[n]].fn

\* The function is called with the argument that was given to start.
ArgDelivered ==
  \A n \in Natives :
    state[n] = "running" => call[n].arg = wanted[current[n]].arg

\* A join without a deadline answers.
JoinAnswers ==
  \A o \in Objects : pc[o] = "joining" ~> pc[o] = "idle"

\* The client of an object sees a future: the answer of the one thread that it
\* started, once, and not before that thread ended.
Pending(o) == phase[o] = "started"

Answer == INSTANCE Future WITH
  NoCode <- Garbage,
  status <- [o \in Objects |->
               IF Pending(o) THEN (IF Ended(o) THEN "done" ELSE "pending")
               ELSE IF phase[o] \in {"joined", "detached"} THEN "over" ELSE "idle"],
  value <- [o \in Objects |-> IF Pending(o) /\ Ended(o) THEN exit[impl[o]] ELSE Garbage],
  taken <- [o \in Objects |-> IF phase[o] = "joined" THEN code[o] ELSE Garbage]

FutureSpec == Answer!Spec

=============================================================================
