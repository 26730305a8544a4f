# A verification project for rubidium-c

rubidium-c is a C11 library: a portability core, containers, integer/character
conversion, a duration type, one serial protocol and a set of synchronisation
primitives over POSIX or Windows threads. This directory holds TLA+ modules for
its behaviour, TLC configurations that check them on small instances, and proofs
that TLAPS checks for instances of every size. Paths below are relative to
`src/src/rbc/`.

## 1. Inventory

| component | state it keeps | operations | what is hard | what makes it correct |
|---|---|---|---|---|
| `sync/condition_mutex` | a mutex and a condition variable; the data is the client's | lock, timed and try lock, unlock, await, lock_when and their timed forms | nobody signals: each release broadcasts and each waiter looks again; relocking after a wait can fail | no lost wakeup; conditions evaluated under the lock; a conditional critical region seen from outside |
| `sync/mutex`, `sync/recursive_mutex` | owner, depth, what an owner's death left behind | lock, timed and try lock, unlock | robust: the first lock after a death succeeds *and* returns an error; nothing ever repairs the mutex | one owner; the death of an owner is reported |
| `sync/cond_var` | the set of sleepers | notify, notify_all, wait, timed wait | spurious wakeups, timeouts that race a notification | release and sleep are one step |
| `sync/shared_mutex`, `semaphore`, `barrier`, `spinlock`, `once`, `tls` | the native object | forwarding calls | init that fails halfway, interrupted waits, destructor order | no state of their own beyond the life cycle |
| `sync/impl.h` | one heap object per primitive | init and destroy macros | destroy frees although the native destroy refused; handles are copied by value | no leak on a failed init, no use after free |
| `sync/thread` | a heap object shared by the creator and the new thread | start, join, detach, timed join, exit, destroy | destroy while the thread runs, a second start, an exit code that is written on failure | the thread reads only live memory, one start per object |
| `sync/lock_guard` | a pointer to the lockable | init, init_with, destroy | destroy unlocks although init failed | balanced lock and unlock |
| `core/assert` | one global handler | get, set, throw | two implementations, one with a lock created on first use | set returns each handler exactly once |
| `core/error`, `core/version`, `core/bits` | none | tables, packing, comparison | truncation | agree with a reference definition |
| `time/duration`, `time`, `timespec` | none (seconds and nanoseconds) | saturating arithmetic, conversions, deadlines | overflow, negative values, two fields with one meaning | agree with exact arithmetic, normalised results |
| `utils/charconv` | none | decimal digits to and from integers | overflow detected before it happens, the minimum value | round trip, exact range checks |
| `proto/dcp2` | a packet, inline or on the heap | encode, decode a prefix of a byte stream | lengths near the width of a byte, data that arrives in pieces | what is decoded is what was encoded, in order |
| `containers/vector`, `array` | buffer, size, capacity | create, clear, delete, access | several declared operations have no definition | one owner per buffer |

`core/source_location`, the sanitizer hooks, the attributes of
`sync/annotations.h`, the compiler and platform detection headers and the build
files keep no state. The components that interact are those of `sync`:
`condition_mutex` calls `mutex` and `cond_var`; `lock_guard` calls any lockable;
`thread` ends threads that may own a mutex; `core/assert` uses `mutex` and
`once`; every timed call goes through `time` for its deadline.

## 2. What is modelled

A reader who wants one file per part should start with these.

| module | part of the code | kind |
|---|---|---|
| `Mutex` | `sync/mutex.c` over a robust error-checking pthread mutex | state and actions used by the modules above it |
| `CondVar` | `sync/cond_var.c` | the same, on top of `Mutex` |
| `ConditionMutex` | `sync/condition_mutex.c` | component: threads calling every function of it |
| `ConditionalRegion` | what that component promises | abstract specification |
| `ConditionMutexRegion` | the mapping between the two | refinement |
| `Thread` | `sync/thread.c`, POSIX half | component |
| `Future` | what that component promises to one client | abstract specification |
| `Duration` | `time/duration.c` | operators, one per function |
| `DurationArithmetic` | a client that computes with durations | component over those operators, next to exact arithmetic |
| `Timeouts` | the sleeps and timed waits of `sync/thread.c`, both halves, and `time/time.c` | component over `Duration`, with a clock |
| `SyncObject` | `sync/impl.h` and every `_init` and `_destroy` of `sync` | component |
| `LockGuard` | `sync/lock_guard.h`, `mutex.c` and `recursive_mutex.c`, both halves | component: threads that nest guards and plain locks |
| `Semaphore` | `sync/semaphore.c`, both halves | component |
| `SharedMutex` | `sync/shared_mutex.c`, both halves | component |
| `AssertHandler` | `core/assert.c` with a mutex and `sync/once.c` | component |
| `HandlerCell` | `core/assert.c` with an atomic pointer: what the other promises | abstract specification |
| `FromChars` | `rbc_from_chars` of `utils/charconv.c` | component, one action per character |
| `ToChars` | `rbc_to_chars` | operators |
| `CharConv` | what one prints read by the other | composition |
| `ErrorText` | `core/error.c`: messages | component: calls on one buffer |
| `Vector` | `containers/vector.h` | component: a client of several vectors |
| `Dcp2` | `proto/dcp2/packet.c` | operators |
| `Dcp2Stream` | two ends of a serial line that use them | component |
| `PacketChannel` | what they promise | abstract specification |
| `MC...` | small instances for TLC | |
| `...Proofs`, `RecursionLemmas` | theorems for every instance, checked by TLAPS | |

`MCDuration`, `MCText` and `MCSync` put several components that have nothing to
do with each other into one instance: `subject`, chosen in the initial state,
names the one the behaviour is about, and the others rest in one state. It is
one run where there would be five, and nothing interleaves that does not in the
program.

`PROJECT.json` names, for each definition, the lines it stands for. A definition
under the comment "Seeded defect" models no code: it is a plausible mistake
that stands in for the definition after it, to see that the properties notice.

### Condition mutex (`Mutex`, `CondVar`, `ConditionMutex`)

*State.* `owner` and `health` are the pthread mutex: `health` is `consistent`,
`inconsistent` (an owner died) or `notrecoverable` (a thread unlocked it after
that; nothing in the library calls `pthread_mutex_consistent`, so this is what
always happens). `sleeping` is the set of threads blocked in the condition
variable. `data` stands for what the mutex protects and a condition is the set
of its values for which the client's predicate is true. `pc`, `fn`, `cond` and
`ret` are a thread's place in a call, the call, the condition it waits for and
the local `rbc_error`.

*Steps.* A call is cut where other threads can get in between: entering it,
acquiring the mutex, evaluating the condition, `notify_all`, releasing and
falling asleep (one step, as POSIX demands), waking up by a notification,
spuriously or by the deadline, and acquiring again. `await` follows the loop
`condition_mutex.c:40-52`, in which a waiter broadcasts before it first sleeps
and again after every wait that ended with the condition still false; the
timed form follows `:54-77`.

*Clients.* A thread in `idle` is the client. It writes the data and calls the
await functions only with the mutex in its hands. The header does not annotate
`await` with `RBC_REQUIRES_CAPABILITY`; the code cannot work without it. A
thread in `Mortal` may end between two calls, with or without the mutex.

*Two observations that are not properties.* Two waiters whose conditions are
both false wake each other for ever, because each broadcasts again before it
goes back to sleep (`:47`); nothing is lost by it, and `ConditionMet` holds. The
repeated broadcast matters only after the death of an owner: without it a
sleeper whose condition the dead owner made true is not woken.

### Threads (`Thread`)

*State.* For each object (a heap block): whether it is allocated, and the
members `impl`, `fn`, `arg` of `struct rbc_thread_impl`; of the stack size only
whether one was set. For each native handle: the state of the thread it names,
its `this_thread_impl` and what its function was called with. A handle is free
again when its thread has ended and was joined or detached, and the system may
then give it to another thread while an object still holds the old value; blocks
are allocated again in the same way. For each object there is a client, which
calls one function at a time, concurrently with the clients of other objects.

*Steps.* `Start` is the whole of `rbc_thread_start`: the check of the handle,
the failures of the attributes, the stores of `fn` and `arg`, and
`pthread_create`, which succeeds or fails leaving anything in the handle (POSIX
says its contents are undefined then). It is one step because glibc stores the
handle before it lets the thread run. `StartThread` is the new thread's own
read of the object, any time later. A join is a call and a later answer; a timed
one may also answer `TIMED_OUT`, even when the thread has just ended.

*Clients.* What POSIX asks for and nothing checks: one successful join or one
detach for a started thread; `destroy` for an object that was never started, or
joined, or whose detached thread has ended.

### Durations (`Duration`, `DurationArithmetic`)

`Duration` translates every function of `duration.c`. The widths of `i64`,
`u32` and `time_t` and the numbers of units are constants with the relations
between them that the code relies on (`WidthAssumption`, `UnitAssumption`).
`rbc_duration_add` and `_sub` compute in `i64` and look afterwards whether the
result fits. Signed overflow is undefined in C; `i64(n)` wraps modulo the width,
which is what gcc builds from these functions at every optimisation level
(`-O0` to `-O3`, gcc 12). A compiler that used its freedom would break `Exact`.

`DurationArithmetic` is a client with one accumulator, `acc`, and beside it
`exact`, the number of ticks computed with unbounded integers that stop at the
infinities. Each action makes, adds, subtracts, negates or converts both.

### dcp2 (`Dcp2`, `Dcp2Stream`)

`to_bytes`, `from_bytes` and the two checksums are operators over a byte whose
size is a constant; the nibbles and bit fields of the header are numbers below
smaller constants. In `Dcp2Stream` a sender appends encodings to a wire, the
line moves any number of bytes to the receiver's buffer and may damage one, and
the receiver runs `from_bytes` on what it has, consumes what it accepts and
stops at an error. A packet whose size wraps to 0 makes the decoder read outside
the packet; that has no value in the model and no run constructs it.

### Timed waits (`Timeouts`)

*State.* The clock in nanoseconds, whether the thread waited for has ended,
what `GetLastError` returns, and what the last call returned; of the call that
has not returned, the nanosecond of the call (`called`), the one the system
wakes it at (`until`) and the tick the caller asked for (`due`). `windows` says which half is built.

*Steps.* A call converts its timeout or deadline as the code does and is
refused or waits; the clock ticks; a sleep ends at its time or, on POSIX, by a
signal; a wait ends with the thread or at its time. The Windows half cuts
milliseconds to a `DWORD`, whose greatest value waits for ever, and takes the
last error for the answer to a timeout.

### Objects (`SyncObject`)

*State.* A handle is `NULL`, points at memory or at freed memory; an object has
one part, or two as a condition mutex has. `native` are the parts that are
initialised, `attr` an attribute object that init has not released. A `Recipe`
holds what distinguishes the types: attributes, an init that frees its memory
when the native init fails (`RBC_SYNC_CHECK_INIT`) or does not, a destroy that
looks for `NULL`, one that leaves `NULL`. There are fifteen, eight on POSIX.

*Steps.* Attributes, allocation and native init, each of which may fail, part
by part; destroy, part by part from the last one, each of which may be refused.
A caller destroys again what it likes. Its discipline after a failed init and
after a refused destroy is fixed in the beginning: to destroy the object all the
same, or to give it up.
For a mutex, a semaphore or a condition mutex neither is right, which is what
`NoLeak` and `OnlyInitialisedDestroyed` say together.

### Guards (`LockGuard`)

*State.* The owner and depth of one lockable (an error-checking mutex, a
recursive one or a critical section) and for each thread the results of the
locks it is in the scope of, the innermost last. *Steps* are `lock`, `try_lock`,
`lock_until` and the end of a scope, which unlocks: a guard does not know
whether its init succeeded. A `careful` thread destroys no guard whose init
failed; the others do. Unlocking a critical section that another thread owns is
undefined, and the behaviour ends there.

### Semaphores and shared mutexes (`Semaphore`, `SharedMutex`)

`Semaphore` counts the units and, for each thread, the units it was told it
has. A waiting thread may be told of a signal; anybody may release a unit it
never had, to signal something; a release at the greatest count fails. On Windows the
greatest count is the initial one. `SharedMutex` has the three kinds of lock of
Linux and the one of Windows. Which thread goes first is not in the library; that
`nonrecursive` is the only kind that keeps new readers out behind a writer is
the C library's documented behaviour, and `SharedMutex` says what the kinds
passed through by `shared_mutex.c` are worth.

### Assertion handler (`AssertHandler`, `HandlerCell`)

`HandlerCell` is the variant with an atomic pointer. `AssertHandler` is the
other one: `rbc_call_once`, the creation of the mutex by the first caller, the
lock, the read, the write, the unlock. A failed assertion gets the handler,
calls it without the mutex and exits; a handler may get and set itself. When
the creation fails, which the code does not notice, the next lock ends the
program: the model has no step for it. The refinement answers a call of `set`
at the write, one of `get` at the read.

### Texts (`FromChars`, `ToChars`, `CharConv`, `ErrorText`)

`FromChars` reads one character in each action, so that the text is the
behaviour and has any length, into an integer type of any width: `i8` and `u8`
in the instance, the same code in the source. `exact` is the number written so
far; only the properties look at it. The sum that overflows when the least
value is read is any value of the type. `CharConv` feeds `FromChars` with what
`ToChars` printed. `ErrorText` calls `rbc_error_to_string_s` again and again
with one buffer, for every error number and every size, on platforms where two
names are one number or are two.

### Vectors (`Vector`)

The structures in the client's variables are values and the blocks behind them
are a heap; the client makes, copies, moves, swaps, clears, deletes, reads and
stores in any order, also a vector with itself. `calloc` may fail, which no
constructor notices. A failed assertion and an access where there is no memory
end the behaviour. `failed` says whether a `calloc` has failed yet. `compare` is
what a comparison touches, which is the elements up to the smaller of the two
sizes, whether there is memory or not. `eq`, `lt`, `gt`, `le` and `ge` are what
it returns, recursive functions checked against the definition of the
lexicographic order for all contents that occur in vectors with memory.

## 3. Runs

Twelve runs, each of about a minute or less, `cm_live` of two.

| run | instance | what it shows |
|---|---|---|
| `cm_crash` | 3 threads of which 2 may die, 2 data values, 2 conditions, all calls; 306 182 states | no sleeper is forgotten; conditions are evaluated by the owner; `await` returns to an owner; the death of an owner is reported to the next |
| `cm_live` | 3 threads that do not die and release what they hold, 1 condition, fairness; `lock_until`, `try_lock`, `lock_when`, `lock_when_until`, `await_until`, `unlock`; 18 251 states | who waits for a condition that stays true gets in; no call with a deadline, and no `try_lock`, is for ever; the component implements `ConditionalRegion` |
| `cm_wait_requires` | 2 threads, deaths | **violated**: see finding 1 |
| `thread` | 2 objects, 2 handles, 2 functions, fairness; 314 432 states | a new thread reads allocated memory and its own function; a thread can be joined until it is; each object is a `Future` to its client; an untimed join answers |
| `thread_arg` | the same | **violated**: see finding 3 |
| `durations` | integers from -32 to 31, 8 ticks in a second; 10 timeouts, 12 nanoseconds of clock, a `DWORD` of 2 bits; 66 493 states | all results are exact, ordered and converted correctly; no sleep or wait on either platform is over before its time |
| `win_wait` | the same | **violated**: see finding 4 |
| `dcp2_line` | bytes below 16, 2 packets of up to 10 data bytes, 1 damaged byte, fairness; 280 641 states | what is received is what was sent, in order, or an error; without damage nothing is refused and all of it arrives |
| `dcp2_too_long` | 1 packet longer than that | **violated**: see finding 2 |
| `text` | `i8` and `u8`, rooms up to 5, buffers up to 9; 22 409 states | numbers are read exactly or refused; printing keeps to its room and is read back; messages are stored whole, cut or not at all |
| `vector` | 3 vectors of up to 3 elements, 3 blocks, any `calloc` may fail; 52 137 states | every block has one owner; the assertion keeps accesses inside; comparisons of vectors with memory are lexicographic |
| `sync` | all 15 recipes and the condition mutex; 2 threads and 3 nested locks; a semaphore of 2, greatest count 3; 3 callers of each kind of shared mutex, fairness; 3 threads at the assertion handler; 178 167 states | nothing leaks for a careful caller, destroying again what is destroyed is harmless; careful threads hold what their guards say; no unit is invented or lost; a writer gets in; the handler is an atomic cell |

*Why the bounds are enough.* Three threads are the least with which one waits,
one notifies and one takes the mutex in between; two data values let a condition
become true and false again before its waiter looks; two conditions let two
waiters wait for each other. `cm_live` leaves two calls out, `lock`, which is
`lock_until` without its timeout, and `await`, which is the inside of
`lock_when`; its view drops the error that the last call returned to an idle
thread, which nothing reads. Two objects and two handles are the least with
which a handle comes back while a stale copy of it exists. The durations are the
complete set of a small width: every finite one is reached and every pair is
added, subtracted and compared, so that all carries and overflows occur; the
timeouts are negative, shorter and longer than a `DWORD` when they are counted
from an early and from a late call, and without end. Two
packets are the least that can be confused with each other; a byte of sixteen
values leaves lengths on both sides of the wrap. All numbers of eight bits are
read and printed, and every text of digits up to the one that is refused. Two
threads suffice for guards, since a failed guard gives up only its own thread's
lock; three nested locks have an outer one, one that fails and one after it. A
semaphore of two units under a greatest count of three has a release that fails
and one that does not. Three callers are a writer that waits and two readers
that relieve each other. Three threads at the handler are one that creates the
mutex, one that waits for that and one that finds it made. Three vectors are a
source, its copy and one to swap with.

`MaxSent` and `MaxNoise` bound the dcp2 instance, `MaxClock` the clock,
`MaxNesting` the scopes, the number 2 in `SemaphoreNext` the signals, `MaxRoom`,
`MaxBuffer` and `MaxSize` the sizes tried. No counter is cut off in the other
modules: their state is finite.

*Deadlock* is checked in the condition mutex and thread runs. In the others the
system really ends: the dcp2 receiver stops at an error and its sender when it
has nothing more to send, the clock stops at its bound, a text is read once, a
failed assertion ends the program, and in `sync` every thread may have exited,
or wait for a lock whose owner waits as well.

*Fairness.* In `cm_live`: threads inside a call go on (weak); acquiring the
mutex is strong, since the mutex is free again and again and the scheduler does
not pass over the same thread for ever; a deadline passes although notifications
come in between (strong); a client that holds the mutex releases it in the end.
In `thread`: threads are scheduled, the clients' functions return, a join
whose thread has ended answers (all weak). In `dcp2_line`: bytes move and the
receiver reads (weak). In `sync`, of shared mutexes: a caller that may have the
lock gets it and one that has it gives it back (both weak): a reader need not
come, and the writer's turn must not depend on luck.

## 4. Findings

1. `cm_wait_requires`. `rbc_condition_mutex_await_until` looks only for a timeout
   (`condition_mutex.c:67`). When the relock after a wait fails with
   `ENOTRECOVERABLE` it evaluates the condition and waits again without the
   mutex, against the annotation in `sync/cond_var.h:21`.
2. `dcp2_too_long`. `from_bytes` computes the size of a packet in a `u8` and
   refuses what `to_bytes` made of 251 data bytes or more (`packet.c:63`).
3. `thread_arg`. `start_thread` passes the thread object to the client's
   function, not the `arg` it was given (`thread.c:37`, stored at `:98`).
4. `win_wait`. On Windows a wait whose time is over returns the last error
   (`thread.c:203`), which a timeout does not set: it may be `OK`, with no exit
   code written.

Properties that hold only with an exception written into them, because the code
has it:

- `NoLeak` and `OnlyInitialisedDestroyed`: a failed `pthread_mutex_init`, and
  `sem_init`, leaves memory behind that can neither be kept nor destroyed
  (`mutex.c:32`, `:40`); of a condition mutex whose condition variable refuses
  to be destroyed the mutex is left (`condition_mutex.c:15`).
- `DestroyIsIdempotent`: the Windows mutex keeps the handle of what it freed
  (`mutex.c:100`), and two Windows types do not look for `NULL`. It is about
  handles without memory; what the destroy of a failed POSIX mutex, recursive or
  shared mutex or semaphore does is the exception above.
- `WaitsOutItsTime`: a Windows call asked to wait, from the time of the call,
  for more milliseconds than a `DWORD` holds (`thread.c:177`, `:247`). The
  property does not look at which error a wait whose time is over returns on
  Windows, which is finding 4.
- `MessageStored`: `rbc_error_to_string_s` returns true also for a message it
  cut (`error.c:264`), and in three bytes or less that are too few it stores
  nothing, not even a null; `error.h:115-121` promises the null always and true
  for whole messages only. Where it returns false is stated exactly.
- `SizeIsMemory` and `OrderIsLexicographic`: a vector whose `calloc` failed has
  a size and no memory (`vector.h:81`). A comparison with one reads `NULL`
  (`:301`) unless the other is empty; then the sizes decide.
- `AwaitUnderLock`: finding 1.
- `TimedCallsReturn` is for threads that do not die and holders that release: a
  death makes `await_until` spin (finding 1), and `lock_when_until` takes the
  mutex with no deadline (`condition_mutex.c:88`). So it does not say that the
  call returns in time.

Seen while reading, and not the subject of a run:

- On Windows `rbc_semaphore_destroy` returns the value of `CloseHandle`
  (`semaphore.c:65`), which is not 0 when it succeeds, as an error; a semaphore
  of no units is refused.
- On Windows `rbc_shared_mutex_unlock` releases exclusive locks only, where
  `shared_mutex.h:30` announces one that releases either.
- `try_lock` and the timed locks return `OWNER_DEAD`, not 0, to a caller that
  has the mutex from then on; `mutex.h:22` says it is acquired when the result
  is 0.
- On Windows nothing closes the handle of a joined thread.
- `RBC_SYNC_DESTROY` frees the memory although the native destroy refused
  (`impl.h:73`).
- A `timespec` with negative nanoseconds is taken for a normalised one
  (`duration.c:195`).
- Two threads whose assertions fail at the same time both call `exit`
  (`assert.c:62`).

## 5. Proofs

Every invariant, action property and refinement that a passing run checks is
also a theorem. The theorems hold for every value of the constants that
satisfies the named assumptions, and those of dcp2 for the packets and the
damage named with them. The inductive invariants were checked with TLC on the
instances above before they were proved, that of dcp2 on its short packets; the
functions that `ConvInv` and `LineInv` say there is were given as witnesses.

| module | theorems about |
|---|---|
| `ConditionMutexProofs` | `ConditionMutex`, `ConditionMutexRegion` |
| `ThreadProofs` | `Thread` |
| `DurationProofs` | `DurationArithmetic`, `Timeouts` |
| `SyncProofs` | `LockGuard`, `AssertHandler`, `Semaphore`, `SyncObject` |
| `TextProofs` | `FromChars`, `CharConv` with `ToChars`, `ErrorText` |
| `VectorProofs` | `Vector` |
| `Dcp2Proofs` | `Dcp2Stream` with `Dcp2` |
| `RecursionLemmas` | lemmas on induction, recursive functions and sums |

**`ConditionMutexProofs`** (assumptions: data exist, conditions are sets of
data). `TypeCorrect`, `NoWakeupIsLost`, `AwaitsUnderLock`,
`AwaitsReturnHolding`, `OwnerDeathsReported`, `ImplementsRegion`. `NoLostWakeup`
alone is not inductive: it speaks of a free mutex, and the work is done before
the mutex becomes free. The strengthening says that a sleeper is not the owner
(`SleepersDoNotOwn`), that from the broadcast to the release nobody sleeps
(`ReleasesInSilence`: falling asleep needs the mutex, which is held), that a
waiter on its way to sleep has just seen its condition false and still holds the
mutex (`WaitsInVain`), and that a dead mutex has no owner (`DeadMutexIsFree`).
`ImplementsRegion` is for `Mortal = {}`: a region has no word for a dead thread.
Its mapping shows a thread inside when it owns the mutex outside the waiting
part of a call; the relocks, evaluations and spurious wakeups of a wait are
stuttering steps, and the one evaluation that finds the condition true is
`Resume`.

**`ThreadProofs`** (assumption: the model values differ, 0 is a code).
`TypeCorrect`, `ThreadsReadLive`, `ThreadsStayJoinable`,
`ThreadsRunTheirFunction`, `ImplementsFuture`. The invariant ties the two
directions of the relation between objects and threads together: a thread that
is not reclaimed is named by the handle of its object, whose client knows it as
started or detached (`OwnsObject`), and the handle of a started object names a
thread whose object it is (`NamesThread`). Neither is inductive without the
other once handles are used again. `KeepsHandle` is why a second start is
refused for ever, and with it why nothing overwrites a function that was not
read yet (`KeepsFunction`). For the refinement, `Unseen` says when a step leaves
what an object shows alone, and `Steps` which of the future's steps a change of
one object is.

**`DurationProofs`** (`WidthAssumption`, `UnitAssumption`). `TypeCorrect`,
`ExactArithmetic`, `OrderIsExact`, `TimespecsValid`, `UnitsAreExact`. The
invariant is `acc` is a duration and stands for `exact`; the weight is in the
lemmas. `Wrapping` says that a sum out of range is off by exactly one turn, so
the comparison with the left operand recognises it (`AddFinite`, `SubFinite`,
with the carried or borrowed second as a separate case). `SecondsDecide` and
`Clamping` say that with ticks below a second the seconds alone decide whether a
number fits. `FromUnits` needs that every unit divides a second,
`TimespecCorrect` that raising the ticks of a negative number turns rounding
down into truncation (`Raised`). `UnitsAreExact` rests on two lemmas about
truncated division (`DivisionTwice`, `QuotientTwice`): dividing by two ratios
one after the other is dividing by their product, which is what the conversions
to minutes and hours do.

**Timed waits** in `DurationProofs` (`TimeoutAssumption`: a `time_t` holds the
time, an i64 ends where a `DWORD` does, and `u32` is smaller).
`WaitsAreWaitedOut`, for both platforms and every wait whose time is over,
whichever error it returns. It stands on the exactness of the durations: the time read
from the clock, the deadline made of a timeout and the time remaining until a
deadline are exact or infinite (`NowCorrect`, `TimeoutAsked`, `DeadlineAsked`);
a timespec loses less than a nanosecond or is beyond the clock
(`TimespecKeeps`); milliseconds that fit a `DWORD` lose less than one of them
(`MillisecondsFit`), and an infinity becomes the greatest `DWORD`
(`LongestDword`). The invariant is that the system wakes a caller no sooner than
it asked for (`Kept`), or the time is past already, which it stays.

**Reading numbers** in `TextProofs` (`TypeAssumption`: a type holds at least 9,
and the greatest value of a signed one does not end in 9). `ReadsExactly`,
`TypeCorrect`. The invariant (`Reading`) says that `x` is the exact number until
`isMin`, and that `isMin` holds exactly when the number written is the least
value. The weight is in one lemma (`TenfoldBeyond`): a number above `Max div 10`
has no room for another digit, at the negative end neither, because `Max` does
not end in 9.

**Printing numbers** in `TextProofs` (`RoomAssumption`: the room `charconv.h`
names has as many digits as the greatest number of each type, and one more for a
sign). `BufferRespected`, `PrintedIsReadBack`. The digits that `to_chars` puts
down spell their number (`Spells`): there are numbers `v[0] = 0`, `v[i] = 10 *
v[i - 1] +` the i-th digit, the last of which is the number
(`EveryNumberPutDown`, by induction over the number). `MagnitudeOfValue` is the
least value, put down as the greatest one with its last digit incremented:
incrementing cannot carry, because `Max` does not end in 9. The invariant
(`ConvInv`) says that after k digits `from_chars` has read `v[k]`; that no
prefix is too large for the type follows from `v` growing up to the value.

**Messages** in `TextProofs` (`TextAssumption`). `MessagesStored`. The property
is inductive with the range of `sameNumber`; the cases are those of the code,
whole, cut and refused, the last of which is where not even the dots have room.

**The semaphore** in `SyncProofs` (`SemaphoreAssumption`: the threads are
finitely many and the initial count is none that `sem_init` refuses).
`UnitsStayAccounted`. What the threads hold is a sum over them that the
community modules compute with a fold. `FoldedSumIsSum` says what that fold is,
and `SumUpdate` that changing one term changes it by as much.

**Objects** in `SyncProofs` (no assumption: `SyncObject` has no constants, and
the theorems say nothing beyond TLC but why). `ObjectsDoNotLeak`,
`OthersDestroyWhatTheyMade`, `DestroyTwiceIsSafe`. The invariant (`ObjectInv`)
says which parts have memory and which a native object at each step of init and
destroy (`Behind`), and that memory without a native object is only left by a
part whose init may fail without cleaning up (`Hollow`). `TableFacts` is all
that the proof takes from the table of recipes.

**`VectorProofs`** (`VectorAssumption`). `TypeCorrect`, `Ownership`,
`AssertionSuffices`, `VectorsOrdered`. `OneOwner` is inductive with types;
`SizeIsMemory` needs it, since storing through one vector must not change the
length of another's block. `VectorsOrdered` is about vectors with memory, whose
sizes are the lengths of what they hold (`Sized`), and the loop of `_lt`, a
recursive function over what is left of both vectors: it exists and unfolds
(`LessUnfolds`), one turn of it is one turn of the definition of the order
(`BeforeIsTurn`), so the two agree from the end of the shorter vector back to
the beginning (`LessIsBefore`); and of two vectors that differ one comes before
the other (`Trichotomy`).

**Guards** in `SyncProofs` (`GuardAssumption`). `GuardsAlwaysHold`. The
invariant adds that a free lockable has depth 0 and an owned one a depth above.
A step appends to or cuts off a sequence of results; lemmas say what that does
to the number of `Successes`.

**The assertion handler** in `SyncProofs` (`HandlerAssumption`).
`HandlerIsAtomicCell`. The invariant is `OneCreator` (one thread creates the
mutex, while `once` is `running`), `InsideHolds` (nobody is at the mutex before
it is created, and who is in it is its holder) and `Seen` (a thread about to
write has seen the handler as it still is). From it each step maps to one of the
cell or to none.

**`Dcp2Proofs`** (`ByteAssumption`: the widths of the fields make up two bytes;
`StreamAssumption`: the packets have the fields of `struct rbc_dcp2_packet`).
`IntactIsAccepted`, `LineTyped`, `LineIsChannel` are about packets whose size
fits a `u8` (`Fits`), which are those of fewer bytes than a `u8` counts
(`SizeFitsShortPackets`); for longer ones they are false, which is finding 2.
`LineTyped` and `LineIsChannel` are for `MaxNoise <= 1`: two damaged bytes can
cancel each other in a sum. `IntactIsAccepted` is for any `MaxNoise`, since it
speaks of lines on which nothing was damaged yet.

- A checksum is a fold of a sum. Its order is that of the elements and its value
  is `SumUpdate` again: one byte changed by less than `Byte` changes the total
  by as much, which is no multiple of `Byte` (`NearApart`). So one damaged byte
  is found wherever it is, in the data or in the checksum.
- `FromBytesAnswers` is the heart: on the beginning of a packet in which at most
  the j-th byte is wrong, however much of it has arrived and whatever follows,
  `from_bytes` waits, refuses, or returns exactly that packet and its length;
  and it does not refuse if no byte is wrong.
- The invariant (`LineInv`): there are offsets `at` such that buffer and line
  together, between two of them, hold the bytes of a packet that was sent and
  not received, except perhaps the j-th byte of all (`Carries`). A send adds an
  offset at the end, arrival changes neither the bytes nor the offsets, damage
  sets j, and a receipt takes the first packet away.

**`RecursionLemmas`.** The library's induction theorems take operators as
parameters, which the provers cannot instantiate. Here a property is a set, and
what a recursive function does at each turn is a function: `NaturalInduction`
comes from the well-founded order of the naturals, `RecursiveFunction` says that
a function defined by recursion on a rank exists, and `FixpointIsSum` that the
fold over a finite set, whatever element it takes next, is the one sum.

*Only model-checked.* Liveness (`ConditionMet`, `TimedCallsReturn`,
`JoinAnswers`, `AllReceived`, `WriterGetsIn`): the prover handles no fairness.
`SharedMutex` has no theorem, since a liveness property is what its run is
about.

## 6. What is not modelled, and what could be next

- `thread.c`, Windows half: starting, detaching and closing handles. The sleeps
  and waits are in `Timeouts`. The order of the steps is that of the POSIX half,
  but a handle is not used again before it is closed, which only `detach` does.
- `cond_var.c`, Windows half, and with it the condition mutex over critical
  sections; `rbc_cond_var_notify`, which nothing in the library calls.
- `barrier`, `spinlock`, `tls` beyond their life cycle: each function forwards one
  call to the system, and what a barrier or a thread's destructors do there is
  not this library's.
- `dcp2`: where the data of a packet is kept (inline or allocated), whose
  allocation may fail unnoticed (`packet.c:15`).
- `core/error.c`: the table of Windows codes, of which the models have those
  the library's own calls leave.
- `Thread`: destroying an object whose detached thread still runs. The header
  does not forbid it and nothing tells a client when it may; the clients of the
  model wait.
- `core/version`, `core/bits`, `array`: functions of one line without state.
- Attributes, compile-time configuration, source locations, sanitizer hooks,
  build files and the vendored test framework: no behaviour.

The next steps would be a `WindowsThread` that implements the same `Future`, and
the condition mutex over the Windows condition variable.
