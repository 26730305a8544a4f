-------------------------- MODULE MCConditionMutex --------------------------
(***************************************************************************)
(* ConditionMutex and its refinement of ConditionalRegion on small         *)
(* instances: two values of the data are enough for a condition to become  *)
(* true and false again, and two conditions for threads to wait for each   *)
(* other.                                                                  *)
(***************************************************************************)
EXTENDS ConditionMutexRegion

MCData == {0, 1}
MCConditions == {{0}, {1}}
MCOneCondition == {{1}}

\* No action reads the error the last call left to an idle thread, nor does a
\* property of the run that uses this view: states that differ in it only
\* behave alike.
MCView ==
  <<owner, health, sleeping, data, pc, fn, cond,
    [t \in {u \in Threads : pc[u] # "idle"} |-> ret[t]]>>

=============================================================================
