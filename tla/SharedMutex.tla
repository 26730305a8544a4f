---------------------------- MODULE SharedMutex ----------------------------
(***************************************************************************)
(* rbc_shared_mutex (sync/shared_mutex.c): readers and writers, of the     *)
(* three kinds a POSIX lock is made with on Linux and the one kind there   *)
(* is on Windows.  What the kinds promise is the C library's: only a       *)
(* writer of the kind "nonrecursive" keeps new readers out, and then also  *)
(* readers that read already.                                              *)
(***************************************************************************)
EXTENDS Naturals

CONSTANTS
  Callers,
  Recursive    \* whether callers read while they read

ASSUME RecursiveAssumption == Recursive \in BOOLEAN

VARIABLES
  sharedKind,  \* the kind given to init, or "srw"; fixed
  writer,      \* the callers that write: none or one
  reads,       \* how often each caller reads
  wants        \* what each caller waits for: "write", "read" or "nothing"

sharedVars == <<sharedKind, writer, reads, wants>>

SharedInit ==
  /\ sharedKind \in {"prefer_readers", "prefer_writers", "nonrecursive", "srw"}
  /\ writer = {}
  /\ reads = [t \in Callers |-> 0]
  /\ wants = [t \in Callers |-> "nothing"]

CanWrite == writer = {} /\ \A t \in Callers : reads[t] = 0

\* Seeded defect: the kind is not passed on.
CanReadOfAnyKind(t) == writer = {}

CanRead(t) ==
  /\ writer = {}
  /\ sharedKind = "nonrecursive" => \A u \in Callers : wants[u] # "write"

Writes(t) ==
  /\ writer' = {t}
  /\ wants' = [wants EXCEPT ![t] = "nothing"]
  /\ UNCHANGED <<sharedKind, reads>>

Reads(t) ==
  /\ reads' = [reads EXCEPT ![t] = @ + 1]
  /\ wants' = [wants EXCEPT ![t] = "nothing"]
  /\ UNCHANGED <<sharedKind, writer>>

\* A caller writes while it does nothing else; it may read twice if Recursive.
MayWrite(t) == wants[t] = "nothing" /\ t \notin writer /\ reads[t] = 0
MayRead(t) ==
  /\ wants[t] = "nothing" /\ t \notin writer
  /\ reads[t] < (IF Recursive THEN 2 ELSE 1)

\* lock and lock_shared begin to wait ...
lock_exclusive(t) ==
  /\ MayWrite(t)
  /\ wants' = [wants EXCEPT ![t] = "write"]
  /\ UNCHANGED <<sharedKind, writer, reads>>

lock_shared(t) ==
  /\ MayRead(t)
  /\ wants' = [wants EXCEPT ![t] = "read"]
  /\ UNCHANGED <<sharedKind, writer, reads>>

\* ... and return.
Locked(t) ==
  \/ wants[t] = "write" /\ CanWrite /\ Writes(t)
  \/ wants[t] = "read" /\ CanRead(t) /\ Reads(t)

\* What cannot be had at once is refused with EBUSY.
try_lock_exclusive(t) ==
  /\ MayWrite(t)
  /\ \/ CanWrite /\ Writes(t)
     \/ ~CanWrite /\ UNCHANGED sharedVars

try_lock_shared(t) ==
  /\ MayRead(t)
  /\ \/ CanRead(t) /\ Reads(t)
     \/ ~CanRead(t) /\ UNCHANGED sharedVars

\* The caller waits for nothing: it unlocks what it holds.
unlock_exclusive(t) ==
  /\ t \in writer
  /\ writer' = {}
  /\ UNCHANGED <<sharedKind, reads, wants>>

unlock_shared(t) ==
  /\ wants[t] = "nothing" /\ reads[t] > 0
  /\ reads' = [reads EXCEPT ![t] = @ - 1]
  /\ UNCHANGED <<sharedKind, writer, wants>>

Leaves(t) == unlock_exclusive(t) \/ unlock_shared(t)

SharedNext ==
  \E t \in Callers :
    \/ lock_exclusive(t) \/ lock_shared(t) \/ Locked(t)
    \/ try_lock_exclusive(t) \/ try_lock_shared(t) \/ Leaves(t)

\* Who may have the lock gets it, and who has it gives it back.
SharedFairness ==
  \A t \in Callers : WF_sharedVars(Locked(t)) /\ WF_sharedVars(Leaves(t))

\* While somebody waits to write, somebody comes to write, however many keep
\* coming to read: this is what the kind "nonrecursive" is for.  The two
\* other kinds do not promise it, and nor does this one if a caller that
\* reads can wait to read behind a writer that waits for it.
WriterGetsIn ==
  sharedKind = "nonrecursive" /\ ~Recursive =>
    ((\E t \in Callers : wants[t] = "write") ~> writer # {})

=============================================================================
