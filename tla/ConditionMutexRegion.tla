------------------------ MODULE ConditionMutexRegion ------------------------
(***************************************************************************)
(* ConditionMutex implements ConditionalRegion: the refinement mapping.    *)
(***************************************************************************)
EXTENDS ConditionMutex

(***************************************************************************)
(* A thread counts as waiting from the call of lock_when, or from the      *)
(* first failed evaluation in await, until it returns; while it owns the   *)
(* mutex only to evaluate its condition it is not inside the region.  (A   *)
(* lock_when by the owner of the mutex fails and never waits.)             *)
(***************************************************************************)
Waits(t) ==
  \/ pc[t] \in {"notify", "wait", "sleep", "eval"}
  \/ fn[t] \in LockWhenFns /\ pc[t] = "await"
  \/ fn[t] \in LockWhenFns /\ pc[t] = "lock" /\ owner # t

RegionHolder ==
  IF owner = NoThread \/ Waits(owner) THEN NoThread ELSE owner

RequestOf(t) ==
  IF Waits(t) THEN {[cond |-> cond[t], timed |-> Timed(t)]} ELSE {}

RegionWaiting == [t \in Threads |-> RequestOf(t)]

Region == INSTANCE ConditionalRegion
            WITH holder <- RegionHolder, waiting <- RegionWaiting

\* While no thread dies, a condition mutex is a conditional critical region:
\* releasing, sleeping, waking and looking again are invisible, and a waiter
\* enters in one step that finds its condition true (or its deadline passed).
RegionSpec == Region!Spec

=============================================================================
