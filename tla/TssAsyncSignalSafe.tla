------------------------- MODULE TssAsyncSignalSafe --------------------------
(***************************************************************************)
(* tss_async_signal_safe_t: the thread-local storage that takes the place  *)
(* of async-signal-safe TLS where the platform has none, and the           *)
(* thread_atexit() registrations that end a thread's use of it.            *)
(*                                                                         *)
(* One instance, its map from a thread's key to the thread's value, and    *)
(* the deinit_state objects through which exiting threads find the         *)
(* instance.  A section under mem->lock is one action; the create and      *)
(* destroy callbacks run without the lock and are actions of their own.    *)
(* Objects are not reused, and a step that would touch a freed one is      *)
(* undefined: the specification stops there.                               *)
(***************************************************************************)
EXTENDS Integers, Sequences, FiniteSets, SequencesExt

CONSTANTS
  Threads,        \* thread incarnations
  Tids,           \* the kernel's thread ids, reused after an exit
  GenerationMod,  \* generations kept apart by the high half of a key
  Items,          \* values made by attr.create
  States,         \* addresses of struct deinit_state
  NULL,
  AtexitMayFail,  \* can thread_atexit() fail
  Contract        \* what the caller of destroy guarantees: "quiet", "none"

ASSUME NullAssumption == NULL \notin Items \cup States \cup Tids
ASSUME GenerationAssumption == GenerationMod \in Nat \ {0}
ASSUME ContractAssumption == Contract \in {"quiet", "none"}
                             /\ AtexitMayFail \in BOOLEAN

VARIABLES
  mem,         \* the instance: "none", "live", "freed"
  mstate,      \* mem->state
  tls,         \* mem->thread_id_to_tls_map, by key
  item,        \* the values
  dstate,      \* struct deinit_state, by address
  tid,         \* the kernel's id of each thread
  generation,  \* tss_generation_cached of each thread, 0 if not drawn
  counter,     \* tss_generation_counter
  atexit,      \* thread_atexit_items of each thread, the last one first
  call         \* what each thread is doing

vars == <<mem, mstate, tls, item, dstate, tid, generation, counter, atexit,
          call>>

Keys == (0 .. GenerationMod - 1) \X Tids
Value == [state : {"unused", "live", "destroyed"}, owner : Threads \cup {NULL},
          destroys : Nat]

(* lost is history: a registration of the state with thread_atexit() failed. *)
DeinitState == [state : {"unused", "live", "freed"}, count : Nat,
                val : BOOLEAN, lost : BOOLEAN]
PCs == {"unborn", "idle", "creating", "inserting", "registering",
        "exiting", "deinit_lock", "deinit_destroy", "deinit_erase", "exited",
        "destroying", "destroy_item"}
Call == [pc : PCs, item : Items \cup {NULL}, state : States \cup {NULL}]
Idle == [pc |-> "idle", item |-> NULL, state |-> NULL]

(* Every variable holds a value of its C type.                             *)
TypeOK ==
  /\ mem \in {"none", "live", "freed"} /\ mstate \in States \cup {NULL}
  /\ tls \in [Keys -> Items \cup {NULL}] /\ item \in [Items -> Value]
  /\ dstate \in [States -> DeinitState]
  /\ tid \in [Threads -> Tids \cup {NULL}]
  /\ generation \in [Threads -> Nat] /\ counter \in Nat
  /\ atexit \in [Threads -> Seq(States \cup {NULL})] /\ call \in [Threads -> Call]

Init ==
  /\ mem = "none" /\ mstate = NULL
  /\ tls = [k \in Keys |-> NULL]
  /\ item = [i \in Items |-> [state |-> "unused", owner |-> NULL, destroys |-> 0]]
  /\ dstate = [s \in States |-> [state |-> "unused", count |-> 0,
                              val |-> FALSE, lost |-> FALSE]]
  /\ tid = [t \in Threads |-> NULL]
  /\ generation = [t \in Threads |-> 0] /\ counter = 0
  /\ atexit = [t \in Threads |-> <<>>]
  /\ call = [t \in Threads |-> [Idle EXCEPT !.pc = "unborn"]]

-----------------------------------------------------------------------------
(* Mutant of Key: the thread id alone.                                     *)
KeyOfTid(t, gen) == <<0, tid[t]>>

(* The composite key: generation in the high half, thread id in the low.   *)
Key(t, gen) == <<gen % GenerationMod, tid[t]>>

(* my_current_thread_id() draws a generation at its first use on a thread. *)
Drawn(t) == IF generation[t] = 0 THEN counter + 1 ELSE generation[t]
Draw(t) == /\ generation' = [generation EXCEPT ![t] = Drawn(t)]
           /\ counter' = IF generation[t] = 0 THEN counter + 1 ELSE counter
MyKey(t) == Key(t, generation[t])

(* What tss_async_signal_safe_get() returns on thread t.                   *)
Get(t) == IF generation[t] = 0 THEN NULL ELSE tls[MyKey(t)]

Step(t, k) == call' = [call EXCEPT ![t] = k]
Goto(t, p) == Step(t, [call[t] EXCEPT !.pc = p])

(* attr.destroy(i).                                                        *)
Destroyed(i) == [item EXCEPT ![i] = [@ EXCEPT !.state = "destroyed",
                                              !.destroys = item[i].destroys + 1]]

(* A thread inside the library holds a pointer to a freed instance, or a   *)
(* thread or one of its exit handlers a freed or null deinit_state.        *)
UseAfterFree ==
  \E t \in Threads :
    \/ /\ mem = "freed"
       /\ call[t].pc \in {"creating", "inserting", "registering", "deinit_lock",
                          "deinit_destroy", "deinit_erase"}
    \/ call[t].state # NULL /\ dstate[call[t].state].state = "freed"
    \/ \E s \in ToSet(atexit[t]) : IF s = NULL THEN TRUE
                                    ELSE dstate[s].state = "freed"

At(t, p) == call[t].pc = p /\ ~UseAfterFree

(* "quiet": no thread is inside thread_init() or deinit() while destroy()   *)
(* runs.  The documentation demands more: that every thread that           *)
(* initialised the instance has exited.                                    *)
Outside == {"unborn", "idle", "exiting", "exited"}
DestroyAllowed ==
  Contract = "quiet" => \A t \in Threads : call[t].pc \in Outside
Destroying == \E t \in Threads : call[t].pc \in {"destroying", "destroy_item"}

-----------------------------------------------------------------------------
(* tss_async_signal_safe_create() and tss_async_signal_safe_thread_init(). *)

Create(t) ==
  /\ At(t, "idle") /\ mem = "none"
  /\ mem' = "live"
  /\ UNCHANGED <<mstate, tls, item, dstate, tid, generation, counter, atexit, call>>

(* A thread starts, with a kernel thread id that no other thread has now.  *)
ThreadStart(t) ==
  /\ At(t, "unborn")
  /\ \E k \in Tids :
       /\ \A u \in Threads : tid[u] = k => call[u].pc = "exited"
       /\ tid' = [tid EXCEPT ![t] = k]
  /\ Goto(t, "idle")
  /\ UNCHANGED <<mem, mstate, tls, item, dstate, generation, counter, atexit>>

(* A client uses the handle of a live instance.                            *)
Usable(t) == /\ At(t, "idle") /\ mem = "live"
             /\ Contract = "quiet" => ~Destroying

(* tss_async_signal_safe_get() may be a thread's first use of the library. *)
FirstGet(t) ==
  /\ Usable(t) /\ generation[t] = 0
  /\ Draw(t)
  /\ UNCHANGED <<mem, mstate, tls, item, dstate, tid, atexit, call>>

(* The first locked section: nothing to do if the thread is in the map.    *)
ThreadInit(t) ==
  /\ Usable(t)
  /\ Draw(t)
  /\ IF tls[Key(t, Drawn(t))] = NULL THEN Goto(t, "creating")
     ELSE UNCHANGED call
  /\ UNCHANGED <<mem, mstate, tls, item, dstate, tid, atexit>>

(* attr.create, which may fail.                                            *)
CreateItem(t) ==
  /\ At(t, "creating")
  /\ \/ \E i \in Items :
          /\ item[i].state = "unused"
          /\ item' = [item EXCEPT ![i] = [state |-> "live", owner |-> t,
                                          destroys |-> 0]]
          /\ Step(t, [call[t] EXCEPT !.pc = "inserting", !.item = i])
     \/ Step(t, Idle) /\ UNCHANGED item
  /\ UNCHANGED <<mem, mstate, tls, dstate, tid, generation, counter, atexit>>

(* Mutant of Insert: the reference of the thread is not counted.           *)
InsertUncounted(t) ==
  /\ At(t, "inserting")
  /\ \E s \in States :
       /\ IF mstate = NULL THEN dstate[s].state = "unused" ELSE s = mstate
       /\ mstate' = s
       /\ dstate' = [dstate EXCEPT ![s] = [state |-> "live", val |-> TRUE,
            lost |-> dstate[s].lost, count |-> IF mstate = NULL THEN 1 ELSE dstate[s].count]]
       /\ Step(t, [call[t] EXCEPT !.pc = "registering", !.state = s])
  /\ tls' = [tls EXCEPT ![MyKey(t)] = call[t].item]
  /\ UNCHANGED <<mem, item, tid, generation, counter, atexit>>

(* Mutant of Insert: the first thread's reference is not counted.          *)
InsertUnreferenced(t) ==
  /\ At(t, "inserting")
  /\ \E s \in States :
       /\ IF mstate = NULL THEN dstate[s].state = "unused" ELSE s = mstate
       /\ mstate' = s
       /\ dstate' = [dstate EXCEPT ![s] = [state |-> "live", val |-> TRUE,
            lost |-> dstate[s].lost, count |-> IF mstate = NULL THEN 0 ELSE dstate[s].count + 1]]
       /\ Step(t, [call[t] EXCEPT !.pc = "registering", !.state = s])
  /\ tls' = [tls EXCEPT ![MyKey(t)] = call[t].item]
  /\ UNCHANGED <<mem, item, tid, generation, counter, atexit>>

(* The second locked section: insert, and count a reference on mem->state, *)
(* which the first thread allocates.                                       *)
Insert(t) ==
  /\ At(t, "inserting")
  /\ \E s \in States :
       /\ IF mstate = NULL THEN dstate[s].state = "unused" ELSE s = mstate
       /\ mstate' = s
       /\ dstate' = [dstate EXCEPT ![s] = [state |-> "live", val |-> TRUE,
            lost |-> dstate[s].lost, count |-> IF mstate = NULL THEN 1 ELSE dstate[s].count + 1]]
       /\ Step(t, [call[t] EXCEPT !.pc = "registering", !.state = s])
  /\ tls' = [tls EXCEPT ![MyKey(t)] = call[t].item]
  /\ UNCHANGED <<mem, item, tid, generation, counter, atexit>>

(* The insertion or the allocation of mem->state fails: the map is as it   *)
(* was and the new value is destroyed.                                     *)
InsertFails(t) ==
  /\ At(t, "inserting")
  /\ item' = Destroyed(call[t].item)
  /\ Step(t, Idle)
  /\ UNCHANGED <<mem, mstate, tls, dstate, tid, generation, counter, atexit>>

(* thread_atexit() of mem->state, read again without the lock: push the    *)
(* registration, or fail.                                                  *)
ThreadAtexit(t) ==
  /\ At(t, "registering")
  /\ \/ /\ atexit' = [atexit EXCEPT ![t] = <<mstate>> \o @]
        /\ UNCHANGED dstate
     \/ /\ AtexitMayFail /\ UNCHANGED atexit
        /\ dstate' = [dstate EXCEPT ![call[t].state].lost = TRUE]
  /\ Step(t, Idle)
  /\ UNCHANGED <<mem, mstate, tls, item, tid, generation, counter>>

-----------------------------------------------------------------------------
(* The end of a thread: thread_atexit_run() calls the registered functions *)
(* in reverse order, here tss_async_signal_safe_thread_deinit().           *)

ThreadExit(t) ==
  /\ At(t, "idle")
  /\ Goto(t, "exiting")
  /\ UNCHANGED <<mem, mstate, tls, item, dstate, tid, generation, counter, atexit>>

ExitDone(t) ==
  /\ At(t, "exiting") /\ atexit[t] = <<>>
  /\ Goto(t, "exited")
  /\ UNCHANGED <<mem, mstate, tls, item, dstate, tid, generation, counter, atexit>>

(* Drop thread t's reference on deinit_state s; the last one frees it.     *)
DropReference(s) ==
  LET last == dstate[s].count = 1 IN
  /\ dstate' = [dstate EXCEPT ![s] =
       [@ EXCEPT !.count = dstate[s].count - 1,
                 !.state = IF last THEN "freed" ELSE "live"]]
  /\ mstate' = IF last /\ mstate = s THEN NULL ELSE mstate

(* mem = state->val, read without the lock; if the instance is gone only   *)
(* the reference is dropped.                                               *)
DeinitRead(t) ==
  /\ At(t, "exiting") /\ atexit[t] # <<>>
  /\ LET s == Head(atexit[t]) IN
       IF dstate[s].val
       THEN /\ Step(t, [Idle EXCEPT !.pc = "deinit_lock", !.state = s])
            /\ UNCHANGED <<dstate, mstate>>
       ELSE DropReference(s) /\ UNCHANGED call
  /\ atexit' = [atexit EXCEPT ![t] = Tail(@)]
  /\ UNCHANGED <<mem, tls, item, tid, generation, counter>>

(* The first locked section: without a value for the thread only the       *)
(* reference is dropped.                                                   *)
DeinitLock(t) ==
  /\ At(t, "deinit_lock")
  /\ IF tls[MyKey(t)] # NULL
     THEN /\ Step(t, [call[t] EXCEPT !.pc = "deinit_destroy",
                                     !.item = tls[MyKey(t)]])
          /\ UNCHANGED <<mstate, dstate>>
     ELSE /\ DropReference(call[t].state)
          /\ Step(t, [Idle EXCEPT !.pc = "exiting"])
  /\ UNCHANGED <<mem, tls, item, tid, generation, counter, atexit>>

DeinitDestroy(t) ==
  /\ At(t, "deinit_destroy")
  /\ item' = Destroyed(call[t].item)
  /\ Goto(t, "deinit_erase")
  /\ UNCHANGED <<mem, mstate, tls, dstate, tid, generation, counter, atexit>>

(* Mutant of DeinitErase: the entry stays in the map.                      *)
DeinitEraseForgets(t) ==
  /\ At(t, "deinit_erase")
  /\ DropReference(call[t].state)
  /\ Step(t, [Idle EXCEPT !.pc = "exiting"])
  /\ UNCHANGED <<mem, tls, item, tid, generation, counter, atexit>>

(* Mutant of DeinitErase: the last thread does not free the state.         *)
DeinitEraseKeeps(t) ==
  /\ At(t, "deinit_erase")
  /\ tls' = [tls EXCEPT ![MyKey(t)] = NULL]
  /\ dstate' = [dstate EXCEPT ![call[t].state].count = @ - 1]
  /\ Step(t, [Idle EXCEPT !.pc = "exiting"])
  /\ UNCHANGED <<mem, mstate, item, tid, generation, counter, atexit>>

(* The second locked section: erase the entry and drop the reference.      *)
DeinitErase(t) ==
  /\ At(t, "deinit_erase")
  /\ tls' = [tls EXCEPT ![MyKey(t)] = NULL]
  /\ DropReference(call[t].state)
  /\ Step(t, [Idle EXCEPT !.pc = "exiting"])
  /\ UNCHANGED <<mem, item, tid, generation, counter, atexit>>

-----------------------------------------------------------------------------
(* tss_async_signal_safe_destroy().                                        *)

(* The first locked section cuts the exiting threads off.                  *)
Destroy(t) ==
  /\ At(t, "idle") /\ mem = "live" /\ DestroyAllowed /\ ~Destroying
  /\ dstate' = IF mstate = NULL THEN dstate
               ELSE [dstate EXCEPT ![mstate].val = FALSE]
  /\ mstate' = NULL
  /\ Goto(t, "destroying")
  /\ UNCHANGED <<mem, tls, item, tid, generation, counter, atexit>>

(* Erase one entry under the lock, then destroy its value without it.      *)
DestroyErase(t) ==
  /\ At(t, "destroying")
  /\ \E k \in Keys :
       /\ tls[k] # NULL
       /\ tls' = [tls EXCEPT ![k] = NULL]
       /\ Step(t, [call[t] EXCEPT !.pc = "destroy_item", !.item = tls[k]])
  /\ UNCHANGED <<mem, mstate, item, dstate, tid, generation, counter, atexit>>

DestroyItem(t) ==
  /\ At(t, "destroy_item")
  /\ item' = Destroyed(call[t].item)
  /\ Step(t, [Idle EXCEPT !.pc = "destroying"])
  /\ UNCHANGED <<mem, mstate, tls, dstate, tid, generation, counter, atexit>>

(* The iterator is at the end: the table is empty, or a thread_init() put  *)
(* an entry in behind it or rehashed the table under it meanwhile, which   *)
(* gave the instance a new deinit_state.                                   *)
DestroyDone(t) ==
  /\ At(t, "destroying") /\ (mstate = NULL => \A k \in Keys : tls[k] = NULL)
  /\ mem' = "freed"
  /\ Step(t, Idle)
  /\ UNCHANGED <<mstate, tls, item, dstate, tid, generation, counter, atexit>>

-----------------------------------------------------------------------------
Next == \E t \in Threads :
  \/ ThreadStart(t) \/ Create(t) \/ FirstGet(t) \/ ThreadInit(t)
  \/ CreateItem(t) \/ Insert(t) \/ InsertFails(t)
  \/ ThreadAtexit(t) \/ ThreadExit(t) \/ ExitDone(t)
  \/ DeinitRead(t) \/ DeinitLock(t) \/ DeinitDestroy(t)
  \/ DeinitErase(t)
  \/ Destroy(t) \/ DestroyErase(t) \/ DestroyItem(t) \/ DestroyDone(t)

Spec == Init /\ [][Next]_vars

-----------------------------------------------------------------------------
(* Properties.                                                             *)

(* No thread inside the library, and no exit handler still to run, has a   *)
(* pointer to a freed instance or deinit_state.                            *)
NoUseAfterFree == ~UseAfterFree

(* get() on a thread that has not exited returns NULL or the value that    *)
(* very thread created, even when the kernel reuses the thread id of one   *)
(* that exited without its handler having run.                             *)
OwnValue ==
  \A t \in Threads : call[t].pc # "exited" /\ Get(t) # NULL
                       => item[Get(t)].owner = t

(* attr.destroy is called at most once for a value.                        *)
DestroyedOnce == \A i \in Items : item[i].destroys <= 1

(* Once the instance is destroyed every value has been destroyed and every *)
(* deinit_state freed, unless a thread still has its exit handler to run   *)
(* or could not register one.                                              *)
NothingLeft ==
  mem = "freed" =>
    /\ \A i \in Items : item[i].state # "live"
    /\ \A s \in States : dstate[s].state = "live" /\ ~dstate[s].lost =>
         \E t \in Threads : s \in ToSet(atexit[t])
=============================================================================
