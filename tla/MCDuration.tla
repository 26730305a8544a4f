----------------------------- MODULE MCDuration -----------------------------
(***************************************************************************)
(* Durations with integers of a few bits: what is computed with them and   *)
(* the calls that wait for them.  A behaviour is about one or the other:   *)
(* subject, chosen in the beginning, says which, and what the other module *)
(* describes rests.                                                        *)
(***************************************************************************)
EXTENDS DurationArithmetic, Timeouts

VARIABLE subject

\* Negative, short, longer than a DWORD of milliseconds, and without end.
SomeTimeouts ==
  {d \in FiniteDurations : d.secs \in {-1, 1, 2, 4} /\ d.ticks \in {0, 3}}
    \union {DURATION_INF, DURATION_NEG_INF}

MCInit ==
  /\ subject \in {"arithmetic", "timeouts"}
  /\ Init /\ TimeInit
  /\ subject = "arithmetic" => ~windows /\ lastError = "SUCCESS"

MCNext ==
  /\ \/ subject = "arithmetic" /\ Next /\ UNCHANGED timeVars
     \/ subject = "timeouts" /\ TimeNext /\ UNCHANGED vars
  /\ UNCHANGED subject

MCSpec == MCInit /\ [][MCNext]_<<vars, timeVars, subject>>

=============================================================================
