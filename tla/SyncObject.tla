----------------------------- MODULE SyncObject -----------------------------
(***************************************************************************)
(* The life of a synchronisation object (sync/impl.h and the _init and     *)
(* _destroy functions built from it): the memory behind the handle, the    *)
(* native object in it and the attribute object init makes for it, when    *)
(* any of the steps may fail.  A handle starts as NULL.  An object has one *)
(* part, or two as rbc_condition_mutex: its mutex, then its condition      *)
(* variable.                                                               *)
(*                                                                         *)
(* What a caller does after an error is a discipline: one destroys the     *)
(* object all the same, also again after a refused destroy ("always"); the *)
(* other may give the handle up.                                           *)
(***************************************************************************)
EXTENDS Naturals, Sequences

\* One row for each type: whether init makes attributes (mutex.c 23-34),
\* whether it frees the memory when the native init fails
\* (RBC_SYNC_CHECK_INIT), whether that can fail at all, whether destroy looks
\* for NULL before it touches the object, and whether it leaves NULL.
Recipe(attributes, cleans, fails, looks, leavesNull) ==
  [attributes |-> attributes, cleans |-> cleans, fails |-> fails,
   looks |-> looks, leavesNull |-> leavesNull]

PosixMutex          == Recipe(TRUE, FALSE, TRUE, TRUE, TRUE)
PosixRecursiveMutex == Recipe(TRUE, FALSE, TRUE, TRUE, TRUE)
PosixSharedMutex    == Recipe(TRUE, FALSE, TRUE, TRUE, TRUE)
PosixSemaphore      == Recipe(FALSE, FALSE, TRUE, TRUE, TRUE)
PosixCondVar        == Recipe(FALSE, TRUE, TRUE, TRUE, TRUE)
PosixBarrier        == Recipe(FALSE, TRUE, TRUE, TRUE, TRUE)
PosixSpinlock       == Recipe(FALSE, TRUE, TRUE, TRUE, TRUE)
PosixTls            == Recipe(FALSE, TRUE, TRUE, TRUE, TRUE)

\* Before Vista critical sections could fail.
WindowsMutex          == Recipe(FALSE, FALSE, TRUE, TRUE, FALSE)
WindowsRecursiveMutex == Recipe(FALSE, FALSE, TRUE, FALSE, TRUE)
WindowsSharedMutex    == Recipe(FALSE, FALSE, FALSE, TRUE, TRUE)
WindowsSemaphore      == Recipe(FALSE, FALSE, TRUE, TRUE, TRUE)
WindowsCondVar        == Recipe(FALSE, FALSE, FALSE, TRUE, TRUE)
WindowsBarrier        == Recipe(FALSE, FALSE, TRUE, FALSE, TRUE)
WindowsTls            == Recipe(FALSE, FALSE, TRUE, TRUE, TRUE)

PosixRecipes ==
  [mutex |-> PosixMutex, recursive_mutex |-> PosixRecursiveMutex,
   shared_mutex |-> PosixSharedMutex, semaphore |-> PosixSemaphore,
   cond_var |-> PosixCondVar, barrier |-> PosixBarrier,
   spinlock |-> PosixSpinlock, tls |-> PosixTls]

\* rbc_spinlock is not implemented.
WindowsRecipes ==
  [mutex |-> WindowsMutex, recursive_mutex |-> WindowsRecursiveMutex,
   shared_mutex |-> WindowsSharedMutex, semaphore |-> WindowsSemaphore,
   cond_var |-> WindowsCondVar, barrier |-> WindowsBarrier, tls |-> WindowsTls]

VARIABLES
  windows,   \* which half of the sources is built; fixed
  parts,     \* the types of the object's parts
  always,    \* the discipline of the caller
  at,        \* the step of init or destroy, or what the caller knows
  part,      \* the part that step is about
  impl,      \* the handle of each part: "NULL", "memory", or "freed"
  native,    \* the parts whose native object is initialised
  attr,      \* an attribute object is initialised
  lost,      \* a caller gave up a handle with memory behind it
  raw,       \* a native object was destroyed that was not initialised
  wrong      \* freed memory or NULL was touched or freed

vars == <<windows, parts, always, at, part, impl, native, attr, lost, raw, wrong>>
client == <<windows, parts, always>>
faults == <<lost, raw, wrong>>

Recipes == IF windows THEN WindowsRecipes ELSE PosixRecipes
Objects == {<<k>> : k \in DOMAIN Recipes} \cup {<<"mutex", "cond_var">>}

Parts == 1 .. Len(parts)
recipe == Recipes[parts[part]]

FirstStep(p) == IF Recipes[parts[p]].attributes THEN "attributes" ELSE "malloc"

Init ==
  /\ windows \in BOOLEAN
  /\ parts \in Objects
  /\ always \in BOOLEAN
  /\ at = "gone" /\ part = 1
  /\ impl = [p \in Parts |-> "NULL"]
  /\ native = {}
  /\ attr = FALSE
  /\ lost = FALSE /\ raw = FALSE /\ wrong = FALSE

(***************************************************************************)
(* init                                                                    *)
(***************************************************************************)
Create ==
  /\ at = "gone"
  /\ part' = 1
  /\ at' = FirstStep(1)
  /\ UNCHANGED <<client, impl, native, attr, faults>>

\* pthread_mutexattr_init, _settype and _setrobust, or those of the rwlock:
\* any of them fails, the attributes are released again.
Attributes ==
  /\ at = "attributes"
  /\ \/ at' = "malloc" /\ attr' = TRUE
     \/ at' = "failed" /\ attr' = FALSE
  /\ UNCHANGED <<client, part, impl, native, faults>>

Malloc ==
  /\ at = "malloc"
  /\ \/ at' = "native" /\ impl' = [impl EXCEPT ![part] = "memory"]
        /\ UNCHANGED attr
     \/ at' = "failed" /\ impl' = [impl EXCEPT ![part] = "NULL"]
        /\ attr' = FALSE
  /\ UNCHANGED <<client, part, native, faults>>

\* The next part's init, or the end of the last one.
NativeSucceeds ==
  /\ native' = native \cup {part}
  /\ IF part < Len(parts)
       THEN part' = part + 1 /\ at' = FirstStep(part + 1)
       ELSE at' = "live" /\ UNCHANGED part
  /\ UNCHANGED impl

\* Seeded defect: the memory is kept when the native init fails.
NativeFailsKeepingMemory ==
  /\ recipe.fails
  /\ at' = "failed"
  /\ UNCHANGED <<part, impl, native>>

\* Seeded defect: the error of the native init is not looked at.
NativeFailsUnnoticed ==
  /\ recipe.fails
  /\ at' = "live"
  /\ UNCHANGED <<part, impl, native>>

NativeFails ==
  /\ recipe.fails
  /\ at' = "failed"
  /\ impl' = IF recipe.cleans THEN [impl EXCEPT ![part] = "NULL"] ELSE impl
  /\ UNCHANGED <<part, native>>

\* The attributes are released whatever came of it.
Native ==
  /\ at = "native"
  /\ NativeSucceeds \/ NativeFails
  /\ attr' = FALSE
  /\ UNCHANGED <<client, faults>>

(***************************************************************************)
(* destroy: the parts from the last to the first, up to one that returns   *)
(* an error.                                                               *)
(***************************************************************************)
Destroy ==
  /\ \/ at \in {"live", "gone", "refused"}
     \/ at = "failed" /\ always
  /\ at' = "destroy"
  /\ part' = Len(parts)
  /\ UNCHANGED <<client, impl, native, attr, faults>>

NextPart ==
  IF part > 1 THEN at' = "destroy" /\ part' = part - 1
              ELSE at' = "gone" /\ UNCHANGED part

\* Nothing behind the handle.
DestroyNull ==
  /\ at = "destroy" /\ impl[part] = "NULL"
  /\ wrong' = (wrong \/ ~recipe.looks)
  /\ NextPart
  /\ UNCHANGED <<client, impl, native, attr, lost, raw>>

\* Seeded defect: the handle keeps pointing at what was freed.
DestroyMemoryKeepsHandle ==
  /\ at = "destroy" /\ impl[part] # "NULL"
  /\ wrong' = (wrong \/ impl[part] = "freed")
  /\ raw' = (raw \/ (impl[part] = "memory" /\ part \notin native))
  /\ native' = native \ {part}
  /\ impl' = [impl EXCEPT ![part] = "freed"]
  /\ NextPart \/ (at' = "refused" /\ UNCHANGED part)
  /\ UNCHANGED <<client, attr, lost>>

\* The memory goes also when the native destroy refuses, as it does for an
\* object in use, and the error is returned.
DestroyMemory ==
  /\ at = "destroy" /\ impl[part] # "NULL"
  /\ wrong' = (wrong \/ impl[part] = "freed")
  /\ raw' = (raw \/ (impl[part] = "memory" /\ part \notin native))
  /\ native' = native \ {part}
  /\ impl' = [impl EXCEPT ![part] = IF recipe.leavesNull THEN "NULL" ELSE "freed"]
  /\ NextPart \/ (at' = "refused" /\ UNCHANGED part)
  /\ UNCHANGED <<client, attr, lost>>

\* The other discipline: a caller whose init failed, or whose destroy was
\* refused, is left with the error.
GiveUp ==
  /\ at \in {"failed", "refused"} /\ ~always
  /\ at' = "gone"
  /\ lost' = (lost \/ \E p \in Parts : impl[p] = "memory")
  /\ impl' = [p \in Parts |-> "NULL"]
  /\ native' = {}
  /\ UNCHANGED <<client, part, attr, raw, wrong>>

Next ==
  \/ Create \/ Attributes \/ Malloc \/ Native
  \/ Destroy \/ DestroyNull \/ DestroyMemory \/ GiveUp

Spec == Init /\ [][Next]_vars

(***************************************************************************)
(* Properties                                                              *)
(***************************************************************************)
\* A single type whose init undoes what it did: the ones that end in
\* RBC_SYNC_CHECK_INIT, and those that cannot fail after the allocation.
UndoesItself ==
  Len(parts) = 1 /\ (Recipes[parts[1]].cleans \/ ~Recipes[parts[1]].fails)

\* A caller that destroys the object also after a failed init, and again after
\* a refused destroy, never leaks, be it memory or attributes, whichever step
\* failed; and for the types whose init undoes what it did, no caller does.
\* (One that gives up a mutex or a semaphore that could not be made does, and
\* one that gives up a condition mutex that could not be made or destroyed.)
NoLeak ==
  /\ at \in {"gone", "live", "failed"} => ~attr
  /\ lost => ~always /\ ~UndoesItself
  /\ at = "gone" => native = {} /\ \A p \in Parts : impl[p] # "memory"

\* Only the caller that destroys after a failed init can have a native object
\* destroyed that was never initialised, and only of a type whose init leaves
\* its memory behind: with NoLeak, for those types and a native init that
\* fails neither discipline is right.
OnlyInitialisedDestroyed == raw => always /\ ~UndoesItself

\* On POSIX no destroy touches NULL or freed memory: one of a handle that was
\* never made, whose init released its memory, or that is destroyed already,
\* be it by a destroy that was refused, does nothing.  (A mutex, recursive or
\* shared mutex or semaphore that could not be made has memory behind its
\* handle, and its destroy is no such one: OnlyInitialisedDestroyed.)  On
\* Windows that is so for the types whose destroy looks for NULL and leaves
\* NULL: the mutex keeps its handle, and two types do not look.
DestroyIsIdempotent ==
  wrong => windows /\ \E p \in Parts :
             parts[p] \in {"mutex", "recursive_mutex", "barrier"}

=============================================================================
