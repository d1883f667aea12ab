----------------------------- MODULE GlobalState -----------------------------
(***************************************************************************)
(* How threads reach the two pieces of state every call of wg14_signals    *)
(* works on: sig_global_state(), whose hash table is initialised behind an *)
(* atomic gate where NSIG >= 1024, and the per-thread state behind         *)
(* *sig_tss_state_raw(), made by the first call that needs it.             *)
(*                                                                         *)
(* A build keeps the per-thread state in one of two ways.  "tls": an       *)
(* async-signal-safe thread-local pointer to a block that thread_atexit()  *)
(* frees.  "tss": one shared pointer to a tss_async_signal_safe_t          *)
(* instance (module TssAsyncSignalSafe), made by whichever call finds none *)
(* and destroyed by the last uninstall.  The install of signals, the       *)
(* deciders and the frames are the subject of DeciderRegistry and          *)
(* GuardFrames; here a call only passes the gate, takes the lock, and      *)
(* makes, uses or destroys the state.                                      *)
(*                                                                         *)
(* Reading through a null or dangling pointer, and using the table before  *)
(* it is initialised, are undefined: the specification stops there.        *)
(***************************************************************************)
EXTENDS Integers, FiniteSets, FiniteSetsExt

CONSTANTS
  Threads,
  Objects,      \* addresses of blocks ("tls") or of instances ("tss")
  NULL,
  Strategies,   \* the builds: a subset of {"tls", "tss"}
  MaxInstalls   \* bound on sighandlers_count

ASSUME NullAssumption == NULL \notin Objects \cup Threads
ASSUME ThreadsAssumption == IsFiniteSet(Threads)
ASSUME StrategiesAssumption == Strategies \subseteq {"tls", "tss"}
ASSUME BoundAssumption == MaxInstalls \in Nat

VARIABLES
  strategy,           \* the build
  map_inited,         \* the gate: 0, 1 while one thread initialises, 2
  inits,              \* how often the table was initialised (history)
  sighandlers_count,
  lock,               \* the thread holding state->lock over several steps
  slot,               \* *sig_tss_state_raw() as each thread reads it
  obj,                \* the objects
  values,             \* "tss": the threads with a value in each instance
  items,              \* thread_atexit_items: the blocks to free at exit
  unregistered,       \* threads whose thread_atexit() failed (history)
  exited,             \* threads whose exit callbacks have run
  raced,              \* has there been a Race (history)
  guard,              \* tss in the sigguarded() each thread is inside
  call                \* what each thread is doing

gate == <<map_inited, inits>>
shared == <<sighandlers_count, lock>>
state == <<slot, obj, values, items, unregistered, exited>>
vars == <<strategy, map_inited, inits, sighandlers_count, lock, slot, obj,
          values, items, unregistered, exited, raced, guard, call>>

Ops == {"none", "install", "uninstall", "sigguarded", "raise", "setup"}
PCs == {"idle", "gate", "cas", "spin", "init_table", "publish", "lock",
        "init", "calloc", "atexit", "create", "store", "thread_init", "get",
        "destroy", "reset"}
Call == [pc : PCs, op : Ops]
Idle == [pc |-> "idle", op |-> "none"]

(* One type invariant: every variable holds a value of its C type.         *)
TypeOK ==
  /\ strategy \in Strategies
  /\ map_inited \in 0 .. 2 /\ inits \in Nat
  /\ sighandlers_count \in 0 .. MaxInstalls /\ lock \in Threads \cup {NULL}
  /\ slot \in [Threads -> Objects \cup {NULL}]
  /\ obj \in [Objects -> {"unused", "live", "freed"}]
  /\ values \in [Objects -> SUBSET Threads]
  /\ items \in [Threads -> SUBSET Objects] /\ unregistered \subseteq Threads
  /\ exited \subseteq Threads /\ raced \in BOOLEAN
  /\ guard \in [Threads -> Objects \cup {NULL}]
  /\ call \in [Threads -> Call]

Init ==
  /\ strategy \in Strategies
  /\ map_inited = 0 /\ inits = 0 /\ sighandlers_count = 0 /\ lock = NULL
  /\ slot = [t \in Threads |-> NULL]
  /\ obj = [o \in Objects |-> "unused"] /\ values = [o \in Objects |-> {}]
  /\ items = [t \in Threads |-> {}] /\ unregistered = {}
  /\ exited = {} /\ raced = FALSE
  /\ guard = [t \in Threads |-> NULL]
  /\ call = [t \in Threads |-> Idle]

-----------------------------------------------------------------------------
(* Can thread t read its state through pointer o?  An instance is live and *)
(* holds a value of this thread, or get() returned NULL.                   *)
Usable(t, o) == /\ o # NULL /\ obj[o] = "live"
                /\ strategy = "tss" => t \in values[o]

(* Thread t is about to use the table before anyone has initialised it.    *)
UninitialisedUse(t) == call[t].pc = "lock" /\ inits = 0

(* Thread t is about to use a state that is not there, or works in a       *)
(* guarded section on one that is gone.                                    *)
DanglingUse(t) ==
  \/ call[t].pc = "get" /\ call[t].op # "setup" /\ ~Usable(t, slot[t])
  \/ /\ call[t].pc \in {"thread_init", "destroy"}
     /\ IF slot[t] = NULL THEN TRUE ELSE obj[slot[t]] # "live"
  \/ guard[t] # NULL /\ ~Usable(t, guard[t])

Undefined == \E t \in Threads : UninitialisedUse(t) \/ DanglingUse(t)

At(t, p) == call[t].pc = p /\ ~Undefined
Goto(t, p) == call' = [call EXCEPT ![t].pc = p]
Return(t) == call' = [call EXCEPT ![t] = Idle]
Enter(t, p, op) == call' = [call EXCEPT ![t] = [pc |-> p, op |-> op]]
SetSlot(t, o) ==
  slot' = IF strategy = "tls" THEN [slot EXCEPT ![t] = o]
          ELSE [u \in Threads |-> o]

-----------------------------------------------------------------------------
(* The clients.                                                            *)

Inside(u) == guard[u] # NULL \/ call[u].op \in {"sigguarded", "raise", "setup"}

(* The two races of a "tss" build, whose instance no lock protects from    *)
(* sigguarded() and stdc_raise(): the last uninstall destroys it while a   *)
(* thread is inside one of them, or begins one before the slot is reset;   *)
(* and two calls have both found no instance and are making one.           *)
Race ==
  \E t, u \in Threads :
    \/ call[t].pc \in {"destroy", "reset"} /\ Inside(u)
    \/ t # u /\ call[t].pc = "store" /\ call[u].pc = "store"

(* install_sighandler() begins with sig_global_state().                    *)
InstallSighandler(t) ==
  /\ At(t, "idle")
  /\ sighandlers_count + Cardinality({u \in Threads : call[u].op = "install"})
       < MaxInstalls
  /\ Enter(t, "gate", "install")
  /\ UNCHANGED <<strategy, gate, shared, state, guard>>

(* uninstall_sighandler(), for an install that has returned.               *)
Pending == {u \in Threads : \/ call[u].op = "uninstall"
                                 /\ call[u].pc \notin {"destroy", "reset"}
                            \/ call[u].op = "install"
                                 /\ call[u].pc \in {"create", "store"}}
UninstallSighandler(t) ==
  /\ At(t, "idle")
  /\ sighandlers_count > Cardinality(Pending)
  /\ Enter(t, "gate", "uninstall")
  /\ UNCHANGED <<strategy, gate, shared, state, guard>>

(* sigguarded(), stdc_raise(signo) and stdc_raise(0) begin with            *)
(* sig_global_tss_state_init().                                            *)
Begin(t) ==
  /\ At(t, "idle")
  /\ \E op \in {"sigguarded", "raise", "setup"} :
       /\ op = "sigguarded" => guard[t] = NULL
       /\ Enter(t, "init", op)
  /\ UNCHANGED <<strategy, gate, shared, state, guard>>

-----------------------------------------------------------------------------
(* sig_global_state(): the gate in front of the hash table.                *)

GateLoad(t) ==
  /\ At(t, "gate")
  /\ Goto(t, IF map_inited = 0 THEN "cas" ELSE "lock")
  /\ UNCHANGED <<strategy, gate, shared, state, guard>>

(* Mutant of GateExchange: a store after a load, as before the gate.       *)
GateExchangeBlind(t) ==
  /\ At(t, "cas")
  /\ map_inited' = 1 /\ Goto(t, "init_table")
  /\ UNCHANGED <<strategy, inits, shared, state, guard>>

(* The compare-exchange from 0 to 1 chooses the thread that initialises.   *)
GateExchange(t) ==
  /\ At(t, "cas")
  /\ IF map_inited = 0 THEN map_inited' = 1 /\ Goto(t, "init_table")
     ELSE Goto(t, "spin") /\ UNCHANGED map_inited
  /\ UNCHANGED <<strategy, inits, shared, state, guard>>

GateSpin(t) ==
  /\ At(t, "spin") /\ map_inited = 2
  /\ Goto(t, "lock")
  /\ UNCHANGED <<strategy, gate, shared, state, guard>>

InitTable(t) ==
  /\ At(t, "init_table")
  /\ inits' = inits + 1
  /\ Goto(t, "publish")
  /\ UNCHANGED <<strategy, map_inited, shared, state, guard>>

(* Mutant of GatePublish: the store that lets the losers go is missing.    *)
GatePublishNothing(t) ==
  /\ At(t, "publish")
  /\ Goto(t, "lock")
  /\ UNCHANGED <<strategy, gate, shared, state, guard>>

GatePublish(t) ==
  /\ At(t, "publish")
  /\ map_inited' = 2
  /\ Goto(t, "lock")
  /\ UNCHANGED <<strategy, inits, shared, state, guard>>

-----------------------------------------------------------------------------
(* The section under state->lock.  A lookup is one step; an install or an  *)
(* uninstall that makes or destroys the instance keeps the lock.           *)

LookupLocked(t) ==
  /\ At(t, "lock") /\ lock = NULL /\ call[t].op = "raise"
  /\ Return(t)
  /\ UNCHANGED <<strategy, gate, shared, state, guard>>

(* The first install calls sig_global_tss_state_create(), which has        *)
(* nothing to do in a "tls" build.                                         *)
InstallLocked(t) ==
  /\ At(t, "lock") /\ lock = NULL /\ call[t].op = "install"
  /\ sighandlers_count' = sighandlers_count + 1
  /\ IF sighandlers_count = 0 /\ strategy = "tss"
     THEN lock' = t /\ Goto(t, "create")
     ELSE Return(t) /\ UNCHANGED lock
  /\ UNCHANGED <<strategy, gate, state, guard>>

(* Mutant of UninstallLocked: every uninstall destroys the instance.       *)
UninstallLockedAlways(t) ==
  /\ At(t, "lock") /\ lock = NULL /\ call[t].op = "uninstall"
  /\ sighandlers_count' = sighandlers_count - 1
  /\ IF strategy = "tss"
     THEN lock' = t /\ Goto(t, "destroy")
     ELSE Return(t) /\ UNCHANGED lock
  /\ UNCHANGED <<strategy, gate, state, guard>>

UninstallLocked(t) ==
  /\ At(t, "lock") /\ lock = NULL /\ call[t].op = "uninstall"
  /\ sighandlers_count' = sighandlers_count - 1
  /\ IF sighandlers_count = 1 /\ strategy = "tss"
     THEN lock' = t /\ Goto(t, "destroy")
     ELSE Return(t) /\ UNCHANGED lock
  /\ UNCHANGED <<strategy, gate, state, guard>>

(* sig_global_tss_state_destroy(): destroy the instance and every thread's *)
(* value, ...                                                              *)
TssDestroy(t) ==
  /\ At(t, "destroy")
  /\ obj' = [obj EXCEPT ![slot[t]] = "freed"]
  /\ values' = [values EXCEPT ![slot[t]] = {}]
  /\ Goto(t, "reset")
  /\ UNCHANGED <<strategy, gate, shared, slot, items, unregistered, exited,
                 guard>>

(* Mutant of ResetSlot: the reset is dead code after a return.             *)
ResetSlotDead(t) ==
  /\ At(t, "reset")
  /\ lock' = NULL /\ Return(t)
  /\ UNCHANGED <<strategy, gate, sighandlers_count, state, guard>>

(* ... then reset the slot, and unlock.                                    *)
ResetSlot(t) ==
  /\ At(t, "reset")
  /\ SetSlot(t, NULL)
  /\ lock' = NULL /\ Return(t)
  /\ UNCHANGED <<strategy, gate, sighandlers_count, obj, values, items,
                 unregistered, exited, guard>>

-----------------------------------------------------------------------------
(* sig_global_tss_state_init() and sig_global_tss_state().                 *)

(* "tls": nothing to do if the slot is set.  "tss": create the instance if *)
(* there is none.                                                          *)
StateInit(t) ==
  /\ At(t, "init")
  /\ Goto(t, CASE strategy = "tls" -> IF slot[t] = NULL THEN "calloc" ELSE "get"
               [] strategy = "tss" -> IF slot[t] = NULL THEN "create"
                                                        ELSE "thread_init")
  /\ UNCHANGED <<strategy, gate, shared, state, guard>>

StateAllocate(t) ==
  /\ At(t, "calloc")
  /\ \/ \E o \in Objects : /\ obj[o] = "unused"
                           /\ obj' = [obj EXCEPT ![o] = "live"]
                           /\ SetSlot(t, o)
        /\ Goto(t, "atexit")
     \/ Return(t) /\ UNCHANGED <<obj, slot>>
  /\ UNCHANGED <<strategy, gate, shared, values, items, unregistered, exited,
                 guard>>

(* thread_atexit(free, mem) pushes the block on this thread's list.  When  *)
(* it fails so does the call, but the slot stays set.                      *)
ThreadAtexit(t) ==
  /\ At(t, "atexit")
  /\ \/ /\ items' = [items EXCEPT ![t] = @ \cup {slot[t]}]
        /\ Goto(t, "get") /\ UNCHANGED unregistered
     \/ /\ unregistered' = unregistered \cup {t}
        /\ Return(t) /\ UNCHANGED items
  /\ UNCHANGED <<strategy, gate, shared, slot, obj, values, exited, guard>>

(* What sig_global_tss_state_create() returns to: an install still holds   *)
(* the lock, a guarded section or a raise goes on.                         *)
Created(t) == IF call[t].op = "install" THEN Return(t) /\ lock' = NULL
              ELSE Goto(t, "thread_init") /\ UNCHANGED lock

(* Mutant of TssCreate: an instance that exists is not reused.             *)
TssCreateAnew(t) ==
  /\ At(t, "create")
  /\ Goto(t, "store")
  /\ UNCHANGED <<strategy, gate, shared, state, guard>>

TssCreate(t) ==
  /\ At(t, "create")
  /\ IF slot[t] # NULL THEN Created(t) ELSE Goto(t, "store") /\ UNCHANGED lock
  /\ UNCHANGED <<strategy, gate, sighandlers_count, state, guard>>

(* tss_async_signal_safe_create() stores the new instance in the slot.     *)
TssCreateStore(t) ==
  /\ At(t, "store")
  /\ \E o \in Objects : /\ obj[o] = "unused"
                        /\ obj' = [obj EXCEPT ![o] = "live"]
                        /\ SetSlot(t, o)
  /\ Created(t)
  /\ UNCHANGED <<strategy, gate, sighandlers_count, values, items,
                 unregistered, exited, guard>>

(* Mutant of TssCreateFails: a count is taken back that nobody added.      *)
TssCreateFailsUncounted(t) ==
  /\ At(t, "store")
  /\ sighandlers_count' = sighandlers_count - 1 /\ lock' = NULL
  /\ Return(t)
  /\ UNCHANGED <<strategy, gate, state, guard>>

(* It may fail: an install is rolled back.                                 *)
TssCreateFails(t) ==
  /\ At(t, "store")
  /\ IF call[t].op = "install"
     THEN sighandlers_count' = sighandlers_count - 1 /\ lock' = NULL
     ELSE UNCHANGED shared
  /\ Return(t)
  /\ UNCHANGED <<strategy, gate, state, guard>>

(* tss_async_signal_safe_thread_init() of the instance read from the slot. *)
TssThreadInit(t) ==
  /\ At(t, "thread_init")
  /\ \/ /\ values' = [values EXCEPT ![slot[t]] = @ \cup {t}]
        /\ Goto(t, "get")
     \/ Return(t) /\ UNCHANGED values
  /\ UNCHANGED <<strategy, gate, shared, slot, obj, items, unregistered, exited,
                 guard>>

(* sig_global_tss_state() reads the slot again.  The setup call is done; a *)
(* guarded section keeps the pointer; a raise walks the frames, and goes   *)
(* on to the map.                                                          *)
StateGet(t) ==
  /\ At(t, "get")
  /\ \/ call[t].op = "setup" /\ Return(t) /\ UNCHANGED guard
     \/ /\ call[t].op = "sigguarded" /\ Return(t)
        /\ guard' = [guard EXCEPT ![t] = slot[t]]
     \/ call[t].op = "raise" /\ Goto(t, "gate") /\ UNCHANGED guard
  /\ UNCHANGED <<strategy, gate, shared, state>>

(* The guarded function returns: tss->front = old.                         *)
GuardedReturns(t) ==
  /\ At(t, "idle") /\ guard[t] # NULL
  /\ guard' = [guard EXCEPT ![t] = NULL]
  /\ UNCHANGED <<strategy, gate, shared, state, call>>

-----------------------------------------------------------------------------
(* The thread ends: its list of exit callbacks is taken and each block     *)
(* freed; a live instance loses the thread's value.  The slot stays, and a *)
(* destructor that runs later may call again; what such a call registers   *)
(* is freed when the callbacks run once more.                              *)
RunAtexit(t) ==
  /\ At(t, "idle") /\ guard[t] = NULL
  /\ t \in exited => items[t] # {} \/ \E o \in Objects : t \in values[o]
  /\ obj' = [o \in Objects |-> IF o \in items[t] THEN "freed" ELSE obj[o]]
  /\ items' = [items EXCEPT ![t] = {}]
  /\ values' = [o \in Objects |-> values[o] \ {t}]
  /\ exited' = exited \cup {t}
  /\ UNCHANGED <<strategy, gate, shared, slot, unregistered, guard, call>>

-----------------------------------------------------------------------------
Client(t) == \/ InstallSighandler(t) \/ UninstallSighandler(t) \/ Begin(t)
             \/ GuardedReturns(t) \/ RunAtexit(t)

Gate(t) == \/ GateLoad(t) \/ GateExchange(t) \/ GateSpin(t)
           \/ InitTable(t) \/ GatePublish(t)

Locked(t) == \/ LookupLocked(t) \/ InstallLocked(t) \/ UninstallLocked(t)
             \/ TssDestroy(t) \/ ResetSlot(t)

State(t) == \/ StateInit(t) \/ StateAllocate(t) \/ ThreadAtexit(t)
            \/ TssCreate(t) \/ TssCreateStore(t) \/ TssCreateFails(t)
            \/ TssThreadInit(t) \/ StateGet(t)

Witness == raced' = (raced \/ Race')

Next == /\ \E t \in Threads : Client(t) \/ Gate(t) \/ Locked(t) \/ State(t)
        /\ Witness

Spec == Init /\ [][Next]_vars

(* A thread inside a call keeps running; no thread has to begin one.       *)
FairSpec ==
  Spec /\ \A t \in Threads : WF_vars((Gate(t) \/ Locked(t) \/ State(t)) /\ Witness)

-----------------------------------------------------------------------------
(* Properties.                                                             *)

(* "Initialise it exactly once": whatever first calls race, the table is   *)
(* initialised by one thread only, and published only after that; no entry *)
(* can be wiped by a second initialisation.                                *)
InitialisedOnce == /\ inits <= 1
                   /\ map_inited = 2 => inits = 1

(* A thread that waits at the gate passes it.                              *)
WaitersPass ==
  \A t \in Threads : (call[t].pc \in {"gate", "cas", "spin"}) ~>
                        (call[t].pc = "lock" \/ Undefined)

(* "every loser spins on an acquire load until the table is visible, so    *)
(* the non-atomic table fields never race": no thread reaches the map      *)
(* before the table is initialised.                                        *)
NoUninitialisedUse == \A t \in Threads : ~UninitialisedUse(t)

(* No call reads a per-thread state that is not there or was freed, and no *)
(* guarded section works on one: what "THREADSAFE" promises of             *)
(* sigguarded(), stdc_raise(), siginstall() and siguninstall().            *)
NoDanglingUse == \A t \in Threads : ~DanglingUse(t)

(* A guarded section keeps the state it works on, unless its own thread    *)
(* uninstalls the last signal: siguninstall() in another thread is         *)
(* "THREADSAFE".                                                           *)
GuardKeepsState ==
  \A t \in Threads : guard[t] # NULL /\ call[t].op # "uninstall" =>
                       Usable(t, guard[t])

(* Whatever the clients do, a per-thread state is missing or gone in only  *)
(* three cases: one of the two races of a "tss" build has happened, or, in *)
(* a "tls" build, the thread's own exit callbacks have freed its block.    *)
(* Installs and uninstalls that leave the last one in place, first calls   *)
(* of threads, nested uses, failing allocations and registrations, and     *)
(* other threads' exits never take it away.                                *)
StateWhileUsed ==
  \A t \in Threads : DanglingUse(t) => \/ raced
                                       \/ strategy = "tls" /\ t \in exited

(* While signals are installed and no call is changing that, a "tss" build *)
(* has a live instance in its slot, so a delivered signal need not make    *)
(* one, whatever races there were.                                         *)
InstalledHasState ==
  strategy = "tss" /\ lock = NULL /\ sighandlers_count > 0 =>
    \A t \in Threads : slot[t] # NULL /\ obj[slot[t]] = "live"

(* A live instance is the one in the slot, and a live block the one in the *)
(* slot of a thread whose exit callbacks are to free it, or which is about *)
(* to register it or failed to: "reuse it rather than overwrite the slot   *)
(* and leak the old TSS together with every thread registration in it".    *)
NoInstanceLost ==
  \A o \in Objects : obj[o] = "live" =>
    \E t \in Threads :
      /\ slot[t] = o
      /\ strategy = "tls" => \/ o \in items[t] \/ t \in unregistered
                             \/ call[t].pc = "atexit"

(* Only the two races of a "tss" build lose an instance, and nothing loses *)
(* a block, a failed or a late registration included.                      *)
NothingLost == raced \/ NoInstanceLost
=============================================================================
