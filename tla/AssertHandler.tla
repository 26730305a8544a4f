--------------------------- MODULE AssertHandler ---------------------------
(***************************************************************************)
(* The assertion handler (core/assert.c) where pointers are not atomic: a  *)
(* mutex that the first caller creates through rbc_call_once, and a plain  *)
(* variable behind it; and what a failed assertion does with the handler.  *)
(* A handler is called without the mutex and may itself get or set it.     *)
(***************************************************************************)
EXTENDS Naturals

CONSTANTS
  Askers, Handlers, NoHandler, Unanswered, \* as in HandlerCell
  Unlocked                                 \* nobody holds the mutex

ASSUME HandlerAssumption ==
  /\ NoHandler \in Handlers
  /\ "get" \notin Handlers /\ Unanswered \notin Handlers
  /\ Unlocked \notin Askers

VARIABLES
  once,       \* g_init_mutex_once: "new", "running" or "done"
  made,       \* whether g_assert_handler_mutex has been created
  holder,     \* who holds it
  handler,    \* g_assert_handler
  wish,       \* what each thread calls: "get", or the handler to set
  pc,         \* where it is in the call, or "out"
  seen,       \* its variable handler or prev_handler
  failed,     \* the threads whose assertion failed and that have not exited
  exits       \* the threads that called exit

assertVars == <<once, made, holder, handler, wish, pc, seen, failed, exits>>

AssertInit ==
  /\ once = "new" /\ made = FALSE /\ holder = Unlocked
  /\ handler = NoHandler
  /\ wish = [t \in Askers |-> "get"]
  /\ pc = [t \in Askers |-> "out"]
  /\ seen = [t \in Askers |-> NoHandler]
  /\ failed = {} /\ exits = {}

Goes(t, from, to) == pc[t] = from /\ pc' = [pc EXCEPT ![t] = to]

\* A failed assertion prints and gets the handler.
rbc_throw_assert_x(t) ==
  /\ t \notin failed
  /\ wish' = [wish EXCEPT ![t] = "get"]
  /\ failed' = failed \union {t}

\* A client's call, or one of a handler.
GetOrSet(t) ==
  /\ \E w \in Handlers \union {"get"} : wish' = [wish EXCEPT ![t] = w]
  /\ UNCHANGED failed

Enter(t) ==
  /\ t \notin exits
  /\ Goes(t, "out", "once")
  /\ rbc_throw_assert_x(t) \/ GetOrSet(t)
  /\ seen' = [seen EXCEPT ![t] = Unanswered]
  /\ UNCHANGED <<once, made, holder, handler, exits>>

\* Seeded defect: a caller that finds another one at it begins as well.
CallOnceTwice(t) ==
  \/ /\ once # "done" /\ once' = "running"
     /\ Goes(t, "once", "init")
  \/ /\ once = "done" /\ UNCHANGED once
     /\ Goes(t, "once", "lock")

\* pthread_once, InitOnceExecuteOnce: the others wait for the first caller.
CallOnce(t) ==
  \/ /\ once = "new" /\ once' = "running"
     /\ Goes(t, "once", "init")
  \/ /\ once = "done" /\ UNCHANGED once
     /\ Goes(t, "once", "lock")

Once(t) ==
  /\ CallOnce(t)
  /\ UNCHANGED <<made, holder, handler, wish, seen, failed, exits>>

\* rbc_init_assert_handler_mutex does not look whether the mutex was made.
InitMutex(t) ==
  /\ Goes(t, "init", "lock")
  /\ once' = "done"
  /\ made' \in BOOLEAN
  /\ holder' = Unlocked
  /\ UNCHANGED <<handler, wish, seen, failed, exits>>

\* Through the handle of a mutex that was not made: the program is over.
Lock(t) ==
  /\ made /\ holder = Unlocked
  /\ Goes(t, "lock", "read")
  /\ holder' = t
  /\ UNCHANGED <<once, made, handler, wish, seen, failed, exits>>

Read(t) ==
  /\ Goes(t, "read", IF wish[t] = "get" THEN "unlock" ELSE "write")
  /\ seen' = [seen EXCEPT ![t] = handler]
  /\ UNCHANGED <<once, made, holder, handler, wish, failed, exits>>

Write(t) ==
  /\ Goes(t, "write", "unlock")
  /\ handler' = wish[t]
  /\ UNCHANGED <<once, made, holder, wish, seen, failed, exits>>

Unlock(t) ==
  /\ Goes(t, "unlock", "out")
  /\ holder' = Unlocked
  /\ UNCHANGED <<once, made, handler, wish, seen, failed, exits>>

\* The handler, if there is one, has returned.
Exit(t) ==
  /\ t \in failed /\ pc[t] = "out"
  /\ failed' = failed \ {t}
  /\ exits' = exits \union {t}
  /\ UNCHANGED <<once, made, holder, handler, wish, pc, seen>>

AssertNext ==
  \E t \in Askers :
    \/ Enter(t) \/ Once(t) \/ InitMutex(t) \/ Lock(t)
    \/ Read(t) \/ Write(t) \/ Unlock(t) \/ Exit(t)

AssertSpec == AssertInit /\ [][AssertNext]_assertVars

\* The variant with the mutex does what the atomic one does: set and get are
\* answered with the handler that was set last, each set is seen by exactly
\* the next one, and the mutex exists once when they are.
Cell == INSTANCE HandlerCell WITH
  cell <- handler, request <- wish,
  reply <- [t \in Askers |-> IF pc[t] = "write" THEN Unanswered ELSE seen[t]]

IsAtomicCell == Cell!CellSpec

=============================================================================
