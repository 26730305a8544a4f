---------------------------- MODULE HandlerCell ----------------------------
(***************************************************************************)
(* What rbc_get_assert_handler and rbc_set_assert_handler promise: a cell  *)
(* that is read and exchanged atomically.  core/assert.c does just that    *)
(* where pointers are atomic; elsewhere it takes a mutex (AssertHandler).  *)
(***************************************************************************)
CONSTANTS
  Askers,      \* the threads
  Handlers,    \* the handlers, the null pointer among them
  NoHandler,   \* the null pointer
  Unanswered   \* no answer yet

VARIABLES
  cell,        \* the handler
  request,     \* what each thread asked last: "get", or the handler to set
  reply        \* and what it was answered

cellVars == <<cell, request, reply>>

CellInit ==
  /\ cell = NoHandler
  /\ request = [t \in Askers |-> "get"]
  /\ reply = [t \in Askers |-> NoHandler]

Ask(t) ==
  /\ reply[t] # Unanswered
  /\ \E r \in Handlers \union {"get"} : request' = [request EXCEPT ![t] = r]
  /\ reply' = [reply EXCEPT ![t] = Unanswered]
  /\ UNCHANGED cell

\* atomic_load, or atomic_exchange.
Answer(t) ==
  /\ reply[t] = Unanswered
  /\ reply' = [reply EXCEPT ![t] = cell]
  /\ cell' = IF request[t] = "get" THEN cell ELSE request[t]
  /\ UNCHANGED request

CellNext == \E t \in Askers : Ask(t) \/ Answer(t)

CellSpec == CellInit /\ [][CellNext]_cellVars

=============================================================================
