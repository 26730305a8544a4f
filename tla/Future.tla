------------------------------- MODULE Future -------------------------------
(***************************************************************************)
(* What a thread object promises the client that uses it as it should: an  *)
(* answer that is computed once and handed out at most once.  There are no *)
(* threads here, no handles that are used again and no memory that is      *)
(* freed.                                                                  *)
(***************************************************************************)
CONSTANTS Objects, Codes, NoCode

VARIABLES
  status,   \* "idle", "pending", "done" or, after the answer is gone, "over"
  value,    \* the answer of a "done" object, or NoCode
  taken     \* the answer the client has got, or NoCode

futureVars == <<status, value, taken>>

Init ==
  /\ status = [o \in Objects |-> "idle"]
  /\ value = [o \in Objects |-> NoCode]
  /\ taken = [o \in Objects |-> NoCode]

Begin(o) ==
  /\ status[o] = "idle"
  /\ status' = [status EXCEPT ![o] = "pending"]
  /\ UNCHANGED <<value, taken>>

Complete(o) ==
  /\ status[o] = "pending"
  /\ status' = [status EXCEPT ![o] = "done"]
  /\ \E c \in Codes : value' = [value EXCEPT ![o] = c]
  /\ UNCHANGED taken

\* Only a complete answer can be taken, and it is the one that was computed.
Take(o) ==
  /\ status[o] = "done"
  /\ status' = [status EXCEPT ![o] = "over"]
  /\ taken' = [taken EXCEPT ![o] = value[o]]
  /\ value' = [value EXCEPT ![o] = NoCode]

\* Nobody asks for the answer.
Abandon(o) ==
  /\ status[o] \in {"pending", "done"}
  /\ status' = [status EXCEPT ![o] = "over"]
  /\ value' = [value EXCEPT ![o] = NoCode]
  /\ UNCHANGED taken

Reset(o) ==
  /\ status[o] = "over"
  /\ status' = [status EXCEPT ![o] = "idle"]
  /\ taken' = [taken EXCEPT ![o] = NoCode]
  /\ UNCHANGED value

Next ==
  \E o \in Objects : Begin(o) \/ Complete(o) \/ Take(o) \/ Abandon(o) \/ Reset(o)

Spec == Init /\ [][Next]_futureVars

=============================================================================
