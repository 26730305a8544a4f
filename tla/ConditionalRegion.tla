------------------------- MODULE ConditionalRegion -------------------------
(***************************************************************************)
(* What rbc_condition_mutex promises while no thread dies: a conditional   *)
(* critical region.  A thread is outside, inside, or waiting for a         *)
(* condition, and a waiting thread enters in one step that finds the       *)
(* region free and its condition true.  There are no notifications here,   *)
(* no sleepers and no second look at the condition.                        *)
(***************************************************************************)
CONSTANTS Threads, NoThread, Data, Conditions

VARIABLES
  holder,    \* the thread inside the region, or NoThread
  data,      \* the protected data
  waiting    \* what each thread waits for, a set of at most one request

regionVars == <<holder, data, waiting>>

\* A request names the condition and says whether there is a deadline.
Requests == [cond : Conditions, timed : BOOLEAN]

Init ==
  /\ holder = NoThread
  /\ data \in Data
  /\ waiting = [t \in Threads |-> {}]

Enter(t) ==
  /\ holder = NoThread
  /\ waiting[t] = {}
  /\ holder' = t
  /\ UNCHANGED <<data, waiting>>

Leave(t) ==
  /\ holder = t
  /\ holder' = NoThread
  /\ UNCHANGED <<data, waiting>>

Update(t) ==
  /\ holder = t
  /\ data' \in Data
  /\ UNCHANGED <<holder, waiting>>

\* lock_when from outside the region.
Approach(t) ==
  /\ holder # t
  /\ waiting[t] = {}
  /\ \E r \in Requests : waiting' = [waiting EXCEPT ![t] = {r}]
  /\ UNCHANGED <<holder, data>>

\* await inside the region, for a condition that does not hold.
StepOut(t) ==
  /\ holder = t
  /\ holder' = NoThread
  /\ \E r \in Requests :
       data \notin r.cond /\ waiting' = [waiting EXCEPT ![t] = {r}]
  /\ UNCHANGED data

\* The wait ends because the condition holds ...
Resume(t) ==
  /\ holder = NoThread
  /\ \E r \in waiting[t] : data \in r.cond
  /\ holder' = t
  /\ waiting' = [waiting EXCEPT ![t] = {}]
  /\ UNCHANGED data

\* ... or because of its deadline; the thread is inside again in both cases.
GiveUp(t) ==
  /\ holder = NoThread
  /\ \E r \in waiting[t] : r.timed
  /\ holder' = t
  /\ waiting' = [waiting EXCEPT ![t] = {}]
  /\ UNCHANGED data

Next ==
  \E t \in Threads :
    \/ Enter(t) \/ Leave(t) \/ Update(t)
    \/ Approach(t) \/ StepOut(t) \/ Resume(t) \/ GiveUp(t)

Spec == Init /\ [][Next]_regionVars

=============================================================================
