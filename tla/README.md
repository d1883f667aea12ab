# A verification development for wg14_signals

wg14_signals is the reference implementation of a proposed C signal API:
threadsafe installation of signal handlers, *global signal deciders* that any
library can add, *guarded sections* on a thread's stack (`sigguarded`), and an
async-signal-safe thread-specific storage. This directory models its POSIX
implementation, the exception dispatch of its Windows backend and the hash table
beneath in TLA+, checks them with TLC on small instances and proves the
invariants with TLAPS.

Paths below are relative to `src/include/wg14_signals/detail/impl/`:
*common* is `thrd_signal_handle_common.ipp.ipp`, *posix* is
`thrd_signal_handle_posix.c.ipp`, *windows* is
`thrd_signal_handle_windows.c.ipp`, *tss* is `tss_async_signal_safe.c.ipp`.

## Inventory

| Component | State | Operations | What makes it hard |
|---|---|---|---|
| Registry (common, posix) | `signo_to_sighandler_map`, `sighandlers_count`, the reference counted `sighandler_info` containers, the decider lists `global_handler` and `deferred_frees`, the kernel's dispositions, the handles held by clients | `siginstall`, `siguninstall`, `signal_decider_create`, `signal_decider_destroy`, `stdc_raise` after the frames, `raw_signal_handler`, `invoke_sigaction`, `sigdecider_abandon`/`_resume` | the lock is dropped around every decider call, so lists and containers change under a raise; some updates are not under the lock at all; installs fail half way |
| Guarded sections (posix) | `tss->front` and the chain of frames on the C stack | `sigguarded`, the frame walk of `stdc_raise`, recovery by `longjmp`, abandon and resume | nested raises, jumps over frames, signals delivered between two stores |
| Thread-specific storage (tss) | instance, map from a thread key to its value, shared `deinit_state`, generations | create, destroy, thread_init, get, exit-time deinit | user callbacks run without the lock, threads exit concurrently, ids are reused, destroy races exits |
| Thread exit callbacks (`thread_atexit.*`) | per-thread list of callbacks | register, run | registration fails after the state it protects is published |
| Spinlock (`lock_unlock.h`) | one word | LOCK, UNLOCK | signal handlers take it too |
| Per-thread state slot (common 301-415) | a TLS pointer to a block, or one shared TSS instance | create, init, get, destroy | made lazily by any thread, outside the lock; destroyed by the last uninstall; registration for freeing fails; the slot outlives the block |
| Signal map gate (common 235-278) | `map_inited` | first use | first calls race |
| Hash table (`verstable.h`) | buckets, metadata, count | insert, get_or_insert, get, erase, iteration, reserve, shrink, clear, cleanup, clone | keys are evicted and chains relinked by insertions and erasures of other keys; growth fails half way; erasure moves keys under an iterator |
| Windows backend (windows) | `tss->front`, `tss->stdc_raise_initiated_exception`, the per-thread memory of the last decision, the two process-wide handlers | `sigguarded` and its filter, `stdc_raise`, the unhandled exception filter, the vectored continue handler, abandon and resume | one exception reaches two handlers; exceptions nest in deciders; frames are left by unwinding, by `longjmp` and by jumps of the client |
| Signal sets, thread id cache | constants, a cached number | | not modelled, see the end |

Interaction: a delivered signal enters `raw_signal_handler`, which calls
`stdc_raise`; that walks the frames of the thread (GuardFrames) and, if none
claims the signal, the global deciders (DeciderRegistry), and finally hands it
to the handler that was installed before the library's. Deciders may call
`sigdecider_abandon` and leave by `longjmp`. Everything shared is protected by
one spinlock, except where the hazards say otherwise. Where the platform has no
async-signal-safe TLS the frames hang off a tss_async_signal_safe instance
(GlobalState, over TssAsyncSignalSafe), whose thread map, like the signal map of
platforms with many signals, is a `verstable.h` table (Verstable). On Windows a
raise is a structured exception: the frames are the filters the system calls on
its way down the stack, and the global deciders run from whichever of the two
handlers the system reaches first (WindowsDispatch).

Properties that make each component correct: references are counted exactly and
nothing is used after it is freed or leaked; every decider that stays linked is
called exactly once per raise; a failed install leaves no trace; the kernel
disposition agrees with the map; every call ends; the frame chain mirrors the C
stack; a thread sees only its own value, destroyed once; the lock excludes; the
global table is initialised once and the state a call uses exists while it does;
the hash table is a map; an exception is decided once and a raise is marked by
its own claims only.

## Modules

| Module | Models | Checked by |
|---|---|---|
| `DeciderRegistry` | the registry | `MCDeciderRegistry` and the configurations `MCCareful`, `MCContainers`, `MCProgress`, `VOrphanFree` |
| `DeciderRegistryProofs`, `DeciderNodeProofs` | proofs about the registry | TLAPS |
| `GuardFrames`, `GuardFramesProofs` | the guarded sections | `MCGuardFrames`, TLAPS |
| `TssAsyncSignalSafe`, `TssProofs` | thread-specific storage and thread exit | `MCTssAsyncSignalSafe`: `MCTss`, TLAPS |
| `SpinLock`, `SpinLockProofs` | LOCK/UNLOCK | `MCSpinLock`, TLAPS |
| `GlobalState`, `GlobalStateProofs` | the gate of the global state and the per-thread slot | `MCGlobalState`, `VGate`, TLAPS |
| `KeyedMap` | what a map promises; the abstract specification of the table | refined by `Verstable` |
| `Verstable`, `VerstableProofs` | `verstable.h` | `MCVerstable`, TLAPS |
| `WindowsDispatch`, `WindowsDispatchProofs` | exception dispatch on Windows, as one thread sees it | `MCWindowsDispatch`: `MCWindows`, `VWindowsAbandon`; TLAPS |

`PROJECT.json` maps every definition to the lines it models.

### DeciderRegistry

*Actors* are calls in flight: of threads, of delivered signals, and of code
inside a decider. Each has a control point and the locals of its call (`call`).
A section between LOCK and UNLOCK is one action, which `SpinLock` justifies;
what the code does outside the lock is an action of its own. Loops over
`1..NSIG-1` visit the signals of `todo` in increasing order, one locked section
at a time.

- `Siginstall` starts the loop; `InstallFirst`/`InstallAgain` are the two cases
  of `install_sighandler`; `InstallFails` (calloc or sigaction) and
  `InstallTssFails` (after the map and the kernel were changed) start the
  `Rollback`, which is the uninstall of the signals already done.
- `UninstallSighandler` retires `deferred_frees`, drops the counts and, with the
  last install, restores the old handler, erases the map entry and releases the
  container.
- `CreateUninstalled`, `CreateNode`, `CreateFails` are the cases of
  `signal_decider_create`; a failure goes on as a destroy of the half built
  handle. `DestroyLocked` and `DestroyUninstalled` are the locked part of
  `signal_decider_destroy`; the decrement after UNLOCK is two steps,
  `OrphanLoad` and `OrphanStore`, because it is a plain `int`.
- `StdcRaise`/`RawSignalHandler` start a raise; `RaiseEnter` pins container and
  first decider; `DeciderNext`, `DeciderExhausted`, `DeciderClaims` are the
  locked sections after a decider returned; `Abandon`, `AbandonResume...`,
  `LeaveAbandoned` are the client's other ways. Any non-zero decision claims the
  signal, as in the code.
- `InvokeOther`, `InvokeDefault`, `DefaultSet`, `DefaultKill`, `DefaultRestore`
  are `invoke_sigaction`, which holds no lock.

Memory is never reused: objects go from unused to live to freed. The next step
touching a freed object makes `UseAfterFree` true and the specification stops.
So does a raise that would unlink a node which is no longer linked
(`RemovesLinked`): `LIST_REMOVE` tests nothing, and a careful client never gets
there.
`Discipline` says what the client promises. `"none"` is nothing: the container
half of the accounting (`MCContainers`) and its theorem need no more. `"careful"`
is three promises, each a guard of the action that could break it:

- a decider whose container has left the map is destroyed only once the raises
  inside that container have ended (`DestroyAllowed`);
- between an abandon and its resume, or the thread's final departure, neither
  the decider is destroyed nor its signal uninstalled (`DestroyAllowed`,
  `UninstallAllowed`);
- a decider abandons only while its handle and the install are still held
  (`AbandonAllowed`).

Under `"careful"` the decider half holds too (`MCCareful`); `VOrphanFree` shows
what happens without the first promise, which nothing in the documentation asks
of a client. `"careful"` does not forbid the concurrency
that is meant to work: a decider of an installed signal may be destroyed while
raises are inside it, and a signal uninstalled while raises walk its container.

Abstractions: a handle of an empty signal set has no effect and is left out;
payloads (`value`, `siginfo`) are dropped; the process-directed
`kill` of the default action that lands in the library's handler again is a raise
of another actor; a signal delivered while a failing install has the handler in
place is covered by the raise that finds no container; how a call reaches the
per-thread state, and what it does when that fails, is in GlobalState. Returning
from a decider that stays abandoned is undefined by the proposed wording and is
not modelled.

### GuardFrames

One thread: `stack` holds the activations of `sigguarded` and `stdc_raise` on
its C stack. A delivered signal is a `stdc_raise` pushed on whatever runs;
`Interruptible` names the points inside the library where that may happen (in
`sigguarded` before the frame is linked, after a jump before `front` is
restored, and between two frames of a walk). A jump drops activations and kills
the frames among them. `GuardedReturns`, `GuardLanded` and `Abandon` are the
three ways `front` moves outwards. The early returns of `stdc_raise` before the
walk (signal 0, out of range, no per-thread state) leave the frames alone; what
they do to the per-thread state is in GlobalState.

`Abandon` has the guard the header states: only the topmost guard is abandoned.
A decider that has abandoned may jump to any code of the application still on
the stack, as long as it takes with it no `sigguarded` that is linked
(`LeaveAbandoned`). `Jumps = "any"` is just that. `Jumps = "outside"` is a client
that also leaves, together with a decider that has abandoned, the `sigguarded`
it abandoned, and so never jumps back into a decider or a guarded function inside
it; no document asks this of a client. With `"any"` the abort of
`sigdecider_abandon_resume` is reached (see Runs), as `plans/analysis.md:256`
(ABRS) says. A raise that reads a frame that is gone, and an abort, stop the
specification.

### TssAsyncSignalSafe

Threads are incarnations: each starts with a kernel id that no running thread
has (`ThreadStart`), and ids are reused. The locked sections of `thread_init`
(`ThreadInit`, `Insert`), of deinit (`DeinitLock`, `DeinitErase`) and of destroy
are actions, the callbacks between them are others. `Contract` says what the
caller of destroy guarantees: `"quiet"` (no thread is inside thread_init or
deinit while destroy runs), which is weaker than what the header demands (every
thread that initialised the instance has exited), or `"none"`, which is how
`uninstall_sighandler` calls it on platforms without async-safe TLS. Destroy is
done when its iterator is: if nothing was inserted meanwhile, with an empty map,
and otherwise at any point, as an insertion may lie behind the iterator or move
keys under it (`DestroyDone`). Thread exit callbacks are the list `atexit`, run in reverse order.

### SpinLock

Each thread runs a stack of contexts, its own code and the handlers nested on
it; only the innermost runs. The weak exchange may fail spuriously.

### GlobalState

Threads pass the gate (`GateLoad`, `GateExchange`, `GateSpin`, `InitTable`,
`GatePublish`: each atomic access is an action), take the lock, and make, use or
destroy the per-thread state. `Strategies` holds the two builds: `"tls"`, where
each thread has its own slot and a block freed by `thread_atexit`, and `"tss"`,
where the one slot all threads read holds a thread-specific storage instance. An
install or uninstall that makes or destroys the instance keeps the lock over
several steps; `sig_global_tss_state_init()` takes no lock, so `StateInit`,
`TssCreate`, `TssCreateStore`, `TssThreadInit` and `StateGet` interleave with
everything. Allocation, registration and creation may fail.

Nothing is asked of the clients: any thread installs, uninstalls, guards and
raises at any moment, and calls again after its exit callbacks ran. Two history
variables record what the code does not survive. `raced` is set by the two races
of a `"tss"` build (`Race`): the last uninstall destroys the instance while a
thread is inside `sigguarded` or `stdc_raise`, or two calls that found no
instance both make one. `exited` holds the threads whose exit callbacks have run.
The properties name these cases as the only exceptions. Use of a table that is
not initialised, or of a state that does not exist, stops the specification
(`Undefined`).

### Verstable and KeyedMap

A table is a value with a count, a mask, metadata and buckets; the helpers
(`Evict`, `InsertRaw`, `EraseRaw`, `Rehash`, ...) take one and return one. Every
caller holds the lock of the structure the table belongs to, so a call is one
action and no interleaving is lost. Keys and values are model values; the hash
of a key is a number, so that home buckets, fragments and displacements are
computed as in the code. A *platform* fixes the displacement limit and how many
allocations of a call succeed; growth that fails leaves the table as it was.
`ImplementsMap` is the refinement `INSTANCE KeyedMap WITH map <- Contents, left <-
Ahead`: `KeyedMap` knows a partial function from keys to values, the keys an
iteration has left, and what each call returns, and nothing about buckets.

### WindowsDispatch

`act` is the stack of one thread: guards, raises and exceptions being
dispatched. User code, in a guard or in a decider, may push more. The search
calls the filters from the innermost guard outwards (`FilterSearch`); an
exception no filter takes reaches `UnhandledExceptionFilter` (not under a
debugger) and, once something continued it, `VectoredContinueHandler`; both run
the global pass through the memory of the last decision, so that the second does
not decide again. That order is the system's and external; it is taken from the
comments at windows 447-465 and 969-999. Other threads are `Install` and
`Uninstall` at any moment. A frame is left by return, by the unwinding of a
recovery (`FilterRecover`), by the `longjmp` of a claim, or by a jump of a
decider that abandoned (`JumpOut`). Signals and exception codes convert as in
`win32_exception_code_from_signal` and its inverse, the cut to 30 bits included.

`AbandonRule = "any"` lets a decider abandon whenever it likes, which is what the
code and the documents allow; the code then pops a raise that may not be the
decider's own, and aborts (`VWindowsAbandon`). `"once"` is a narrower client: its
decider abandons before any other call of the library, makes none until it
resumes or jumps, and does not abandon a fault while a raise is in flight. No
document asks this. `MCWindows` and the theorems are about that client, and say
nothing about what abandoning does to others. In neither rule does a jump
go below a raise that is still linked. `KeepInstalled` keeps every
signal installed throughout under a debugger. The reference counts of the global pass are those of DeciderRegistry,
whose code the backend shares; the failure of the per-thread state and
`stdc_raise(0)` are those of GlobalState.

## Runs

All configurations use model values and the symmetry of interchangeable
identities where no liveness is checked.

| Run | Shows | Bounds, and why they suffice |
|---|---|---|
| `MCCareful` | no use after free, no leak, exact decider counts, each decider once per raise | three actors: two raises and a destroy, install or uninstall; abandons; two containers (one uninstalled, one of the reinstall), two nodes: a raise in one node while the other is destroyed |
| `MCContainers` | exact install and lifetime counts, no container freed under the map or a raise, the disposition of an ignored signal follows the map | two calls without discipline, abandons, failures everywhere; two signals, so that one is installed when the other fails, and one with a default action that stops the process, one that is ignored; two install handles, so that another call holds the same signal; three containers for the reinstalls |
| `MCProgress` | every call returns or the process terminates | two actors, two nodes: the list changes under the raise; a delivery races an uninstall into a terminating default action; no symmetry |
| `MCGuardFrames` | chain equals stack, local deciders first, and a dead frame is read only by a signal that arrives between a `longjmp` and the restore of `front` | three frames, five activations: a guard, a raise in it, a guard in its decider, and one more of each; signals at every point of the library; jumps that leave the abandoned guard (`Jumps = "outside"`) |
| `MCTss` | no use after free, own value, destroyed once, nothing left | three incarnations over two thread ids, so that an id is reused; failing registrations |
| `MCSpinLock` | exclusion, the UNLOCK assertion, spinning is served unless a handler runs on top of the holder | two threads with three contexts each: a handler on a handler |
| `MCGlobalState` | the state exists while used, unless one of the two races or the thread's own exit took it; it exists while signals are installed; only the races lose it; the table is initialised once, waiters at the gate pass | two threads, both builds, no promise of the client; two objects, one for each thread's block, or the instance and its successor after the last uninstall, or those of two makers; two installs, so that one uninstall is not the last; no symmetry, as liveness is checked |
| `MCVerstable` | chains well formed; the table is a map, also for an iteration that erases | five keys, three of one home bucket and two of the next, so that the first chain runs through the home of the second and a key is evicted; two share a fragment; tables of 0, 4 and 8 buckets; allocations that fail at once or at the second; a limit of three that chains reach |
| `MCWindows` | both chains match the stack, every exception is decided once, a raise is marked unclaimed exactly when nobody claimed its own exception, `stdc_raise` terminates the process only if its argument becomes signal 0 | six activations: a guard, a raise and its dispatch, and a guard, a raise or a fault in the decider; a native code that raises and faults share, an argument that is no signal (-1), one whose low 30 bits are 0 (-2^30), an unknown fault; with and without a debugger |

Several properties name the cases in which the code does not do what they say:
a signal delivered in the window after a `longjmp` (`DeadFrameOnlyInWindow`), a
handler on top of the holder of the lock (`LockTaken`), the two races of a `"tss"`
build and calls after a thread's exit callbacks (`StateWhileUsed`, `NothingLost`),
an argument that the cut to 30 bits makes signal 0 (`RaiseSurvives`), and the
default actions (`DispositionMatchesMap`). These cases happen in the runs; the
properties show that they are the only ones.

The `V...` runs are disagreements between the code and its own comments or header;
`findings` in `PROJECT.json` quotes each line.

- `VOrphanFree`: `signal_decider_destroy` of a decider whose container a
  `siguninstall` has taken out of the map frees the node while an in-flight raise
  of that container can still walk to it (common 838).
- `VGate`: a thread whose first load of `map_inited` sees 1 neither spins nor
  initialises, and uses the table before it is initialised (common 251).
- `VWindowsAbandon`: the decider of a raise runs a guarded function that faults;
  the decider of that fault abandons, which pops the raise; the outer decider's own
  abandon aborts (windows 672), where `thrd_signal_handle.h:620` tells it to call.

Further disagreements can be reproduced with the modules as they are:

| Configuration | Property that fails | What happens |
|---|---|---|
| `MCGuardFrames`, `Jumps = "any"` | `NoAbort` | the decider of a guard abandons, sets a jump target and raises; a decider of the guard around it abandons and jumps back there; the resume aborts (posix 557), where `thrd_signal_handle.h:622` offers it; `plans/analysis.md:256` |
| `MCGuardFrames` | `NoDeadFrame` | a signal between `longjmp` and the restore of `front` walks frames that are gone (posix 334), where `thrd_signal_handle.h:613-615` promises async signal safety |
| `MCGlobalState` | `GuardKeepsState` | in a `"tss"` build, the default on macOS, the last uninstall frees the instance under a guarded section of another thread (common 411; both calls are marked THREADSAFE, `thrd_signal_handle.h:598, 733`) |
| `MCGlobalState` | `NoInstanceLost` | there, two first calls each create an instance and one is lost (common 380, against the comment at 371-372) |
| `MCGlobalState`, `Strategies = {"tls"}` | `NoDanglingUse` | a call after the thread's exit callbacks uses the freed block, as the slot stays set (common 335) |
| `MCWindows` | `FrameRsiIsOwn` | the rsi a frame's decider holds is overwritten by an exception dispatched while the decider runs (windows 441; `test/nested_decider_rsi_test.c:20-21` says it is a fresh local) |
| `MCWindows` | `TrueIfDeciderCalled` | a raise whose deciders were called and all declined returns false (windows 658; `docs/proposed-wording.md:851`, `plans/analysis.md:278-281`) |
| `MCWindows`, `KeepInstalled = FALSE` | `DecidedOnce` | a frame's claim is recorded for a continue handler that is not installed; under a debugger a later equal exception takes the entry for its own and is never decided (windows 476, against the comment at 950-951) |
| `MCWindows`, `RaiseParams = {"access"}` | `UnclaimedMarkIsOwn` | a raise cannot be told from a fault of the same code and parameters |
| `MCCareful`, `Discipline = "none"`, `MayAbandon = FALSE`, one node and one decider handle | `NoLeak` | the decrement of `refcount` after UNLOCK is lost against a raise and the node leaks (common 860) |
| `MCTss`, `Contract = "none"` | `NoUseAfterFree` | destroy frees the instance an exit handler has read from `state->val` and not yet locked (tss 225) |

And these follow from the model without being stated as a property:

- a default action restores a saved disposition without the lock: after a
  `siguninstall` in between the library's handler is in place again with no
  container (posix 232, against the comment at 288-289), and of two that overlap
  the last puts back the other's SIG_DFL (posix 226);
- deciders of a signal that is uninstalled and installed again are not called,
  as the list of the new container is empty (common 195;
  `docs/proposed-wording.md:275` says a decider becomes active again);
- a resume after the abandoned container or decider was freed counts freed
  memory up (posix 565), and an abandon that drops the last reference frees
  nothing (posix 529), where `test/guard_abandon_test.c:34-37, 53` expects the
  steady state;
- a decider destroyed while one raise is inside it stays linked and is called by
  a raise that starts later (posix 460; `docs/proposed-wording.md:819`);
- deinit destroys a value before erasing it (tss 238), so a get in between
  returns a dying value, while destroy does it the other way round and says why
  (tss 196-200);
- a table whose chains reach the displacement limit while an allocation fails
  loses the key it was evicting (`verstable.h:1088`); with the real limit of 2047
  a table of fewer keys never gets there (proved below), and the platforms of
  `MCVerstable` keep the two apart. The caller at common 457 does not look for
  the end iterator that a failed insertion returns;
- on Windows an unclaimed `stdc_raise` terminates the process when no signal is
  installed, and the unhandled filter never calls the filter installed before it,
  which the comment at windows 920 announces.

The `hazards` of `PROJECT.json` that no run covers have no property and say why in
their note: the lost decrement, overlapping default actions, the reinstalled
deciders, the dying value, the unlocked read of `state->val`, the end iterator, the
evicted key and the stale decision. Nor does a raise ever walk a list that others
keep extending without end: nodes are finite and not reused, so `CallsReturn` is
about lists that stop growing.

Every property has a mutant of the code it is about, listed in `PROJECT.json`.

Deadlock is checked in `MCCareful`, `MCGuardFrames`, `MCVerstable` and
`MCWindows`. It is not where the system may stop: in `MCContainers`, which does not
exclude undefined behaviour, in `MCProgress`, whose process may terminate, in
`MCSpinLock`, where a handler may spin on top of the holder, and in the storage and
the global state, whose threads all exit.

### Fairness

`FairSpec` of the registry assumes weak fairness of each call in flight: threads
are scheduled and deciders return, as the wording asks of them. Nothing makes a
client start a call. `SpinLock` assumes weak fairness of the steps of a running
thread and strong fairness of the successful exchange: a weak compare-exchange
may fail spuriously, but not for ever. `GlobalState` assumes weak fairness of
the steps inside a call. A process that stops or terminates by a
default action satisfies `CallsReturn` by termination. `MCProgress` is run for a
careful client whose deciders do not abandon: a destroy that waits for raises to
end is served because they do.

## Proofs

All theorems hold for every value of the constants that satisfies the named
assumptions of the modules: any number of threads, signals, frames, thread ids,
keys, values and objects, and any nesting. Three of them ask for finiteness, which
counting needs: `FiniteAssumption` (signals are the numbers below NSIG, install
handles are heap objects), `ThreadsAssumption` (threads) and `ClientAssumption`
(the keys of a hash table). Some theorems have hypotheses, which narrow the
clients as the run of the same property does; each is given below with what fails
without it. The configuration of that run satisfies them, so none is empty; of the two platforms of `MCVerstable`, the one with a limit of 31 does.

### The registry

- `TypeCorrect` (`DeciderRegistryProofs`): `Spec => [](TypeOK /\ CallShape)`.
  `TypeOK` is not inductive: a loop must have a signal left, a raise must have
  its container and node. `CallShape` says so for each control point. The proof
  has one lemma per group of actions and one step per action.
- `ContainerLifetime`, `ContainersLive` (same module):
  `[]LifetimeAccounting` and `[]LiveWhileHeld`. The inductive invariant
  `Lifetime` adds that two signals never share a container and that the
  container of a raise has been allocated. Each action is one of a few frames:
  it leaves the counts alone (`QuietFrame`, `InsideFrame`), enters or resumes
  (`EnterFrame`), abandons (`AbandonFrame`) or releases (`ReleaseFrame`). No
  client discipline is assumed, so the container half of the reference counting
  is right even where the decider half is not.
- `InstallsCounted` (same module): `[]InstallAccounting`, again
  without discipline. `InstallInv` adds `Ownership`: a handle in a loop belongs
  to one call, that call's `todo` is a part of the handle's signals, and an
  install loop goes upwards, so that what a rollback undoes is what was done. The
  counts are cardinalities, and a step moves one signal of one handle in or out.
- `IgnoredSignalsFollowMap`: `[]DispositionMatchesMap`, without discipline: a
  signal whose default action is to ignore it has the library's handler exactly while it has
  a container, which keeps what the application had, whatever is done about the
  other signals.
- `NodeCounts`, `NodesNotFreed`, `NodesNotLeaked` (`DeciderNodeProofs`):
  `[]NodeRefAccounting`, `[]NoUseAfterFree` and `[]NoLeak` for
  `Discipline = "careful"`. Without the discipline a destroy races a raise on the
  count of an orphaned node, and freed memory is used (`VOrphanFree`). The
  inductive invariant `NodeInv` is `Lifetime` and six parts: the lists link no
  node twice; a live container has a reference; `NodeCore` says where a node is
  (linked nodes are live and counted, deferred ones have no reference, the node of
  a raise is linked in its container) and what its count is; `Handles` says that
  a handle in a loop belongs to one call and that its slots are, in order, those
  of its first signals, so that the slot a destroy reaches is the one of the
  signal it is at; `OrphanCore` and `AbandonCore` are what a destroy without the
  lock, and an abandoned decider, rely on. The parts are operators of the lists,
  counts and handles, with lemmas about one change of each (`CorePin`,
  `CoreUnpin`, `CoreDrain`, `CoreDisown`, `CoreNew`, `HandlePop`, `HandleFill`,
  `SlotPop`, ...); an action is a composition of such changes, and a client's
  promise is used exactly where it is needed: in `SlotPlace`, `NodesDestroy`,
  `NodesUninstall` and `NodesAbandon`.
- `RaisesComplete`, `NeverCalledTwice` (`DeciderNodeProofs`): `[]RaiseComplete`
  and `NoDeciderTwice`, for the same client. `OrderInv` adds to `NodeInv` where a
  walk stands (`WalkOf`): of the deciders it has called, those still linked lie
  before its current one, and of those it had to call and has not, the ones a
  handle still owns lie after it. A step of another call changes a list only by
  linking nodes never used before and by unlinking nodes no handle owns
  (`Evolves`), which keeps every walk in its place (`OrderKept`); the step of the
  walk itself is `WalkNext`. That a destroyed decider stays linked while a raise is
  inside it is what makes its `next` the right place to go on.

### Guarded sections

`GuardFramesProofs` proves four theorems, for any depth of nesting and with
signals delivered at any of the points of `Interruptible`.

- `FramesTyped` and `DeadFramesOnlyInWindow` have no hypothesis. Their inductive
  invariant `LiveInv` says that `front`, the `prev` of each frame and the frame
  each raise holds are linked frames of `sigguarded` calls further out than their
  holder, and none lies between a guard and the raise that has abandoned it
  (`Masked`), which is where a jump may strike; `front` is exempt directly after a
  jump. A raise delivered
  there with a dead `front` stops the specification: `StruckInv` is that state.
- `FrontInnermost` and `LocalBeforeGlobal` are for `Jumps = "outside"`. Their
  invariant `FrameInv` describes each position of the stack by the positions below
  it (`Pos`): the `prev` of a guard is the innermost active guard below, a raise
  that walks has called the deciders of the frames it passed and holds an active
  frame below it, an abandoned guard is the innermost one. `front` is the innermost
  active guard except directly after a jump; a raise that reads a dead frame there
  ends in `StoppedInv`. A client that jumps back inside a guard it abandoned finds a
  chain without a guard that is on the stack, and both properties are false.

### Thread-specific storage

`TssProofs` first states each action by what it does field by field
(`InsertDoes`, `DeinitEraseDoes`, ...), then proves three invariants over these
effects.

- `Base` holds whatever the caller of destroy guarantees: types, thread ids and
  generations (two threads share an id only if one has exited, and never a
  generation), the owner of each value in the map, and that a `deinit_state` is
  live while its count is not zero. It gives `StorageTyped` and, with the
  generations counted, `GetReturnsOwn`: `[]OwnValue` for as many threads as there
  are generations. With more, a generation wraps and together with a reused
  thread id makes the key of another thread; in the code that takes 2^32 thread
  starts.
- `QuietInv` (for `Contract = "quiet"`) adds the phases of the instance, that a
  thread has at most one handler and that it belongs to a value in the map
  unless destroy has begun, and that the count of a `deinit_state` is the number
  of calls and handlers that refer to it, or more if a registration failed. It
  gives `StorageNotFreed`: `[]NoUseAfterFree`. Without the contract destroy frees
  the instance under an exit handler.
- `ValueInv` adds where each value is: a live value is under exactly one key or
  carried by one thread, and a value destroyed and still in the map is the one
  its own thread is about to erase. It gives `DestroyedAtMostOnce` and
  `NothingLeftBehind`.

### Spinlock

`SpinLockTyped`, `SpinLockExcludes` and `LockWordExact` (`SpinLockProofs`), from
the lock word and the emptiness of contexts not yet entered.

### Global and per-thread state

- `GateInitialisesOnce` (`GlobalStateProofs`): `Spec => []InitialisedOnce` for
  any number of threads. The inductive invariant `GateInv` says that the thread
  that won the exchange is alone between it and the publishing store, and how far
  it is says whether the table is initialised. `OutsideGate` is the frame of
  every step outside the gate; the gate's own actions are taken one by one.
- `StateTyped`: `[]TypeOK`. That the install count never goes below zero is not
  local: `Base` counts the calls that may still take from it and those that may
  still add to it (`Counted`), and says which calls hold the lock.
- `StateLivesWhileUsed`, `InstalledKeepsState`, `StateNotLost`, for every client.
  `TlsInv` is about a build with thread-local blocks (each block is in one slot,
  and registered unless the registration failed or the thread's exit callbacks
  have run), `TssInv` about the shared instance (every slot is the same and live but between
  the destroy and the reset; until a race, a call finds there what it put there). The exceptions of
  the statements, `raced` and `exited`, are cases in which the unrestricted
  properties (`GuardKeepsState`, `NoInstanceLost`, `NoDanglingUse`) are false;
  `InstalledHasState` has none.

### Hash table

`VerstableProofs` proves `TableTyped` (`[]TypeOK`), `ChainsKept`
(`[]ChainsWellFormed`) and `TableIsMap`, the refinement of `KeyedMap`, for any keys,
hash function, values, fragments and failing allocations. The hypothesis is
`Roomy`: the platform's displacement limit is above the number of keys that
clients use. Without it the properties are false where an allocation fails too
(see above). The code's limit is 2047, so the theorems cover every table of fewer
than 2047 keys, however badly they hash: signal numbers up to an NSIG of 2047, and
the ids of as many threads.

- *Probes.* `Dyadic` is what is used of a power of two; from it `SlotsDiffer`
  proves that the quadratic probe meets no bucket twice before it has met all,
  and `PlaceExists` that the load factor leaves one within reach.
- *Chains.* `Chained` describes a set of buckets without a table: each bucket has
  a home in the set and a displacement from it, and links to the next larger
  displacement among those of its home, or ends. `ChainInsert`, `ChainRemove` and
  `ChainBegin` are the three ways the code changes it; `ChainWalk` says that
  following the links from a home meets its buckets, all of them and in order.
  The existential over displacements (`Laid`) makes it a property of a table.
- *Tables.* `WF` is the inductive invariant: the used buckets are chained, the
  others forgotten, keys differ, the mask is that of a power of two, the count is
  the number of used buckets and within the load factor. Then every helper has a
  lemma that says what it returns on such a table: `LookupIs`, `EvictIs`,
  `InsertRawIs`, `ReinsertedIs`, `RehashIs`, `InsertedIs`, `EraseRawIs`,
  `FastForwardIs`. The loops of the code are recursive functions; that such a
  function exists, and what it has come to after n rounds, is proved by induction
  over the rounds (`UpTo`, from the well-foundedness of the naturals).
- *The map.* `Ent` is the set of entries of a table, and what a call does is
  stated of it alone: adds one, replaces one, takes one, or nothing. `MapAdd`,
  `MapReplace` and `MapRemove` bring that to the functions of `KeyedMap`. For
  iterators, `EmptiedAhead` shows that the key which an erasure moves is ahead of
  the iterator afterwards exactly if it was before. There is one lemma per call
  (`InsertStep`, ..., `EraseItrStep`) and `NextStep` puts them together.

### Windows dispatch

`WindowsDispatchProofs` proves all the properties of `MCWindows`, for any depth of
the stack. Each step is first brought to a form that says what it does to the
exception on top and to the activations below it (`Moves`, `Asks`, `Returned`,
`Passed`, `Claims`, `Searches`, `SetsRsi`, `Pushes`, `Cuts`); three inductive
invariants, each resting on the one before, are then shown to survive the forms.

- `ChainInv` describes a position of the stack by the positions below it: a guard
  and a raise remember the innermost raise around them, the exception of a
  `stdc_raise` is right above it, a dispatch with something on top of it is
  inside a decider that has not abandoned. The heads are the innermost raise, or
  the next one while the decider of its exception has abandoned it, and then the
  decider's rsi says how to go back. It gives `DispatchTyped` and
  `ChainsFollowStack`, for `AbandonRule # "any"`, on which the others rest too.
- `DecideInv` says, phase by phase, how often an exception has been decided, that
  an exception on its way to the continue handler is the one the last decision
  was recorded for (or was not decided, under a debugger), and that under a
  debugger the memory is empty otherwise. It gives `ExceptionsDecidedOnce`, with
  the hypothesis `DebuggerKeeps` (under a debugger signals stay installed).
- `FlagInv` relates the marks of a raise to who claimed its exception. With
  `FaultsApart` (no genuine fault has both the code and the parameters of a
  raise) it gives `UnclaimedMarksAreOwn`, about the exit where `RaiseException`
  returns; on the exit by a claim's `longjmp` the mark is not looked at.
- `RaisesSurvive`, an action property, follows from the first two.

Each hypothesis excludes a deviation described above, for which a property is
false: `AbandonRule # "any"` that of `VWindowsAbandon`, `DebuggerKeeps` the stale
decision, and `FaultsApart` the raise with the parameters of a fault. `MCWindows` satisfies all of them.

### Only model-checked

Liveness (`CallsReturn`, `LockTaken`, `WaitersPass`), which is out of the
prover's reach; and the hash table on a platform whose displacement limit its
chains do reach, with memory for every table it needs: `MCVerstable` has one with
a limit of three. The runs that expect a violation have nothing to prove. Every
other property of a passing run is a theorem.

## Plan

1. An abstract registry (which deciders a raise calls, in which order, and when
   a signal is active) with DeciderRegistry shown to implement it for a
   careful client; the decision `call_recovery` of a global decider, which the code
   treats as resume, belongs there.

## Not modelled

- The signal set fillers: constants. The exclusion of SIGKILL, SIGSTOP and
  internal signals from installs is left out of `Signals`.
- The thread id cache, a cached system call; that it is stale in the child of a
  `fork` is documented (`plans/analysis.md:1003`).
- The array variant of the signal map: taken as a function. The `_Generic`
  front ends of `verstable.h` are wrappers of the modelled functions.
- The choice among thread exit mechanisms at build time, and
  `__cxa_thread_atexit`, whose result the code ignores.
- On Windows, the contents of the siginfo and what the system does beyond the
  order in which it calls the handlers.
- Weak memory: locked sections are atomic and atomics sequentially consistent;
  the one plain access that races is split into load and store.
- Out of the prover's reach: liveness under fairness.
