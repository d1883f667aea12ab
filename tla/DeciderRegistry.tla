--------------------------- MODULE DeciderRegistry ---------------------------
(***************************************************************************)
(* The process-wide registry of wg14_signals on POSIX: the map from a      *)
(* signal number to its reference counted sighandler_info container, the   *)
(* global signal deciders linked in each container, the handles returned   *)
(* by siginstall() and signal_decider_create(), and the part of            *)
(* stdc_raise() that walks a container's deciders with the lock dropped    *)
(* around every call of a decider.                                         *)
(*                                                                         *)
(* An actor is one call in flight: a call of a thread, a signal delivered  *)
(* on it, or a call made from inside a decider.  A section between         *)
(* LOCK(state->lock) and UNLOCK(state->lock) is one action (module         *)
(* SpinLock is what makes that sound); everything outside the lock is an   *)
(* action of its own.                                                      *)
(*                                                                         *)
(* Memory is never reused: a container or node is "unused", then "live",   *)
(* then "freed", so a pointer that outlives its object stays recognisable. *)
(* A step that would touch freed memory is undefined in C; the             *)
(* specification stops there (UseAfterFree).                               *)
(***************************************************************************)
EXTENDS Integers, Sequences, FiniteSets, FiniteSetsExt,
        SequencesExt

CONSTANTS
  Actors,             \* calls in flight
  Signals,            \* signal numbers, SIGKILL and SIGSTOP left out
  Containers, Nodes,  \* addresses of sighandler_info / global_signal_decider_t
  InstallHandles, DeciderHandles,
  NULL,
  InitialDisposition, \* the application's disposition of each signal
  DefaultAction,      \* what SIG_DFL does: "ignore", "stop" or "terminate"
  TssCreateMayFail,   \* can sig_global_tss_state_create() fail in this build
  MayAbandon,         \* do deciders call sigdecider_abandon()
  Discipline          \* what the client promises, see Careful below

AppDispositions == {"SIG_DFL", "SIG_IGN", "app"}
Dispositions == AppDispositions \cup {"raw_signal_handler"}

ASSUME SignalsAssumption == Signals \subseteq Nat \ {0} /\ Signals # {}
ASSUME ActorsAssumption == IsFiniteSet(Actors)
ASSUME FiniteAssumption == IsFiniteSet(Signals) /\ IsFiniteSet(InstallHandles)
ASSUME NullAssumption == NULL \notin Containers \cup Nodes \cup Signals
                                 \cup InstallHandles \cup DeciderHandles
ASSUME DispositionAssumption ==
  /\ InitialDisposition \in [Signals -> AppDispositions]
  /\ DefaultAction \in [Signals -> {"ignore", "stop", "terminate"}]
ASSUME BuildAssumption == /\ TssCreateMayFail \in BOOLEAN
                          /\ MayAbandon \in BOOLEAN
                          /\ Discipline \in {"none", "careful"}

VARIABLES
  map,                \* signo_to_sighandler_map
  sighandlers_count,
  disposition,        \* the kernel's handler of each signal
  info,               \* struct sighandler_info, by address
  node,               \* struct global_signal_decider_t, by address
  ihandle,            \* handles of siginstall()
  dhandle,            \* handles of signal_decider_create()
  call                \* what each actor is doing

installed == <<map, sighandlers_count, disposition>>
registry == <<map, sighandlers_count, disposition, info, node>>
handles == <<ihandle, dhandle>>
vars == <<map, sighandlers_count, disposition, info, node, ihandle, dhandle,
          call>>

-----------------------------------------------------------------------------
(* Types.                                                                  *)

Memory == {"unused", "live", "freed"}

(* The array, or the hash table, from a signal to its container.           *)
SignoToSighandlerMap == [Signals -> Containers \cup {NULL}]

SighandlerInfo ==
  [state : Memory, install_count : Int, lifetime_refcount : Int,
   old_handler : Dispositions,
   global_handler : Seq(Nodes), deferred_frees : Seq(Nodes)]

Decider == [state : Memory, refcount : Int]

HandleState == {"unused", "busy", "open"}

(* "busy": a call is still building the handle or is consuming it.         *)
InstallHandle == [state : HandleState, guarded : (SUBSET Signals) \ {{}}]

(* slots: the node pointers from retp on; what lies beyond is NULL.        *)
(* callfirst: the argument of signal_decider_create() until it returns.    *)
DeciderHandle == [state : HandleState, guarded : SUBSET Signals,
                  callfirst : BOOLEAN, slots : Seq(Nodes \cup {NULL})]

PCs == {"idle", "installing", "rollback", "uninstalling",
        "creating", "destroying", "orphan_load", "orphan_store",
        "raising", "decider", "abandoned", "resuming",
        "handoff", "dfl_set", "dfl_kill", "dfl_restore", "terminated"}

NoInstallHandle == [state |-> "unused", guarded |-> Signals]
NoDeciderHandle == [state |-> "unused", guarded |-> {}, callfirst |-> FALSE,
                    slots |-> <<>>]

(* todo: the signals a loop over 1..NSIG-1 has still to visit.  must, seen *)
(* are history: the deciders linked when the raise began, and those it has *)
(* called.                                                                 *)
Call == [pc : PCs, todo : SUBSET Signals,
         h : InstallHandles \cup DeciderHandles \cup {NULL},
         signo : Signals \cup {NULL}, delivered : BOOLEAN,
         item : Containers \cup {NULL}, current : Nodes \cup {NULL},
         sa : Dispositions, reg : Int,
         must : SUBSET Nodes, seen : SUBSET Nodes]

Idle == [pc |-> "idle", todo |-> {}, h |-> NULL, signo |-> NULL,
         delivered |-> FALSE, item |-> NULL, current |-> NULL,
         sa |-> "SIG_DFL", reg |-> 0, must |-> {}, seen |-> {}]

(* One type invariant: every variable holds a value of its C type.         *)
TypeOK ==
  /\ map \in SignoToSighandlerMap
  /\ sighandlers_count \in Int
  /\ disposition \in [Signals -> Dispositions]
  /\ info \in [Containers -> SighandlerInfo]
  /\ node \in [Nodes -> Decider]
  /\ ihandle \in [InstallHandles -> InstallHandle]
  /\ dhandle \in [DeciderHandles -> DeciderHandle]
  /\ call \in [Actors -> Call]

Init ==
  /\ map = [s \in Signals |-> NULL]
  /\ sighandlers_count = 0
  /\ disposition = InitialDisposition
  /\ info = [c \in Containers |->
               [state |-> "unused", install_count |-> 0,
                lifetime_refcount |-> 0, old_handler |-> "SIG_DFL",
                global_handler |-> <<>>, deferred_frees |-> <<>>]]
  /\ node = [n \in Nodes |-> [state |-> "unused", refcount |-> 0]]
  /\ ihandle = [h \in InstallHandles |-> NoInstallHandle]
  /\ dhandle = [h \in DeciderHandles |-> NoDeciderHandle]
  /\ call = [a \in Actors |-> Idle]

-----------------------------------------------------------------------------
(* Helpers.                                                                *)

(* current->next while n is linked in list.                                *)
NextIn(list, n) ==
  LET after == {list[i + 1] : i \in {j \in 1 .. Len(list) - 1 : list[j] = n}}
  IN  IF after = {} THEN NULL ELSE CHOOSE m \in after : TRUE

(* LIST_INSERT_FRONT and LIST_INSERT_BACK.                                 *)
LIST_INSERT(list, n, front) == IF front THEN <<n>> \o list ELSE Append(list, n)

(* sighandler_info_has_decider().                                          *)
HasDecider(list, n) == n \in ToSet(list)

(* LIST_REMOVE of a node that is linked.  signal_decider_destroy() tests   *)
(* that it is, and leaves the list alone when it is not; a raise does not, *)
(* see RemovesLinked.                                                      *)
LIST_REMOVE(list, n) ==
  IF HasDecider(list, n)
  THEN LET i == CHOOSE j \in 1 .. Len(list) : list[j] = n
       IN  SubSeq(list, 1, i - 1) \o SubSeq(list, i + 1, Len(list))
  ELSE list

(* install_ and uninstall_sighandler_impl(): sigaction().                  *)
Sigaction(s, handler) == [disposition EXCEPT ![s] = handler]

FreeNodes(nodes, S) ==
  [n \in Nodes |-> IF n \in S THEN [nodes[n] EXCEPT !.state = "freed"]
                              ELSE nodes[n]]

(* Mutant of Release: free without looking at the count.                   *)
ReleaseUnchecked(infos, c) ==
  [infos EXCEPT ![c] =
     [@ EXCEPT !.lifetime_refcount = 0, !.state = "freed",
               !.global_handler = <<>>, !.deferred_frees = <<>>]]

(* sighandler_info_release(): the last reference detaches the deciders     *)
(* still linked and frees the container ...                                *)
Release(infos, c) ==
  IF infos[c].lifetime_refcount = 1
  THEN [infos EXCEPT ![c] =
          [@ EXCEPT !.lifetime_refcount = 0, !.state = "freed",
                    !.global_handler = <<>>, !.deferred_frees = <<>>]]
  ELSE [infos EXCEPT ![c].lifetime_refcount = @ - 1]

(* Mutant of FreedByRelease: the waiting nodes are forgotten.              *)
FreedByReleaseNone(infos, c) == {}

(* ... and frees the nodes that were waiting in deferred_frees.            *)
FreedByRelease(infos, c) ==
  IF infos[c].lifetime_refcount = 1 THEN ToSet(infos[c].deferred_frees) ELSE {}

Step(a, k) == call' = [call EXCEPT ![a] = k]
Return(a) == Step(a, Idle)

(* The raises inside, or abandoned by, a decider of container c.           *)
InDecider(a) == call[a].pc \in {"decider", "abandoned", "resuming"}
RaisesIn(c) == {a \in Actors : InDecider(a) /\ call[a].item = c}

(* The handle slots that own node n.                                       *)
Owned(n) == \E h \in DeciderHandles : n \in ToSet(dhandle[h].slots)

(* What a "careful" client promises; one of discipline "none" does not:    *)
(* a decider whose container has left the map is destroyed only once the   *)
(* raises inside that container have ended, ...                            *)
Careful == Discipline = "careful"
Abandoned(a) == call[a].pc \in {"abandoned", "resuming"}
DestroyAllowed(s, n) == Careful =>
  /\ \A c \in Containers :
       HasDecider(info[c].global_handler, n) /\ c # map[s] => RaisesIn(c) = {}
  /\ \A a \in Actors : Abandoned(a) => call[a].current # n

(* ... and between sigdecider_abandon() and its resume, or the end of the  *)
(* thread's use of it, neither the decider is destroyed nor its signal     *)
(* uninstalled, nor had they been before.                                  *)
UninstallAllowed(c) == Careful =>
  \A a \in RaisesIn(c) : ~Abandoned(a)
AbandonAllowed(a) == Careful =>
  Owned(call[a].current) /\ map[call[a].signo] = call[a].item

(* The signal the loop of actor a is at, and the loop moving past it.      *)
Signo(a) == Min(call[a].todo)
Rest(a) == call[a].todo \ {Signo(a)}

(* The slot of the signal the loop is at, NULL if it is not guarded.       *)
Slot(a) ==
  LET d == dhandle[call[a].h] IN
  IF Signo(a) \in d.guarded /\ d.slots # <<>> THEN Head(d.slots) ELSE NULL

(* Mutants of NextDecider: current->next read after a destroyed node was   *)
(* unlinked, and a walk that starts again at the front of the list.        *)
NextDeciderLate(a) ==
  IF node[call[a].current].refcount = 1 THEN NULL
  ELSE NextIn(info[call[a].item].global_handler, call[a].current)
NextDeciderRestart(a) ==
  LET list == info[call[a].item].global_handler IN
  IF list # <<>> /\ Head(list) # call[a].current THEN Head(list)
  ELSE NextIn(list, call[a].current)

(* current->next, read before the node is unlinked.                        *)
NextDecider(a) == NextIn(info[call[a].item].global_handler, call[a].current)

(* The next step of some actor dereferences, or frees again, freed memory. *)
Freed(n) == n # NULL /\ node[n].state = "freed"

UseAfterFree ==
  \/ \E a \in Actors : LET k == call[a] IN
       \/ /\ k.pc \in {"decider", "resuming"}
          /\ info[k.item].state = "freed" \/ Freed(k.current)
       \/ k.pc = "decider" /\ Freed(NextDecider(a))
       \/ k.pc = "destroying" /\ Freed(Slot(a))
       \/ k.pc \in {"orphan_load", "orphan_store"} /\ Freed(k.current)
  \/ \E s \in Signals : map[s] # NULL /\
       \/ info[map[s]].state = "freed"
       \/ \E n \in ToSet(info[map[s]].global_handler)
                     \cup ToSet(info[map[s]].deferred_frees) : Freed(n)

Terminated == \E a \in Actors : call[a].pc = "terminated"

(* Actor a is at p in a process that has met neither.                      *)
At(a, p) == call[a].pc = p /\ ~UseAfterFree /\ ~Terminated

-----------------------------------------------------------------------------
(* siginstall() and siguninstall().                                        *)

Siginstall(a) ==
  /\ At(a, "idle")
  /\ \E h \in InstallHandles, S \in (SUBSET Signals) \ {{}} :
       /\ ihandle[h].state = "unused"
       /\ ihandle' = [ihandle EXCEPT ![h] = [state |-> "busy", guarded |-> S]]
       /\ Step(a, [Idle EXCEPT !.pc = "installing", !.todo = S, !.h = h])
  /\ UNCHANGED <<registry, dhandle>>

InstallDone(a) ==
  LET h == call[a].h IN
  IF Rest(a) = {}
  THEN ihandle' = [ihandle EXCEPT ![h].state = "open"] /\ Return(a)
  ELSE UNCHANGED ihandle /\ Step(a, [call[a] EXCEPT !.todo = Rest(a)])

(* install_sighandler() of a signal with no container: calloc() the        *)
(* container, sigaction() the library's handler in, insert into the map.   *)
InstallFirst(a) ==
  /\ At(a, "installing") /\ map[Signo(a)] = NULL
  /\ \E c \in Containers :
       /\ info[c].state = "unused"
       /\ info' = [info EXCEPT ![c] =
            [state |-> "live", install_count |-> 1, lifetime_refcount |-> 1,
             old_handler |-> disposition[Signo(a)],
             global_handler |-> <<>>, deferred_frees |-> <<>>]]
       /\ map' = [map EXCEPT ![Signo(a)] = c]
  /\ disposition' = Sigaction(Signo(a), "raw_signal_handler")
  /\ sighandlers_count' = sighandlers_count + 1
  /\ InstallDone(a)
  /\ UNCHANGED <<node, dhandle>>

(* install_sighandler() of a signal some siginstall() already holds.       *)
InstallAgain(a) ==
  /\ At(a, "installing") /\ map[Signo(a)] # NULL
  /\ info' = [info EXCEPT ![map[Signo(a)]].install_count = @ + 1]
  /\ sighandlers_count' = sighandlers_count + 1
  /\ InstallDone(a)
  /\ UNCHANGED <<map, disposition, node, dhandle>>

(* Mutant of Rollback: the signal that failed is undone as well.           *)
RollbackIncluding(a) ==
  LET undo == {r \in ihandle[call[a].h].guarded : r <= Signo(a)}
  IN  UNCHANGED ihandle
      /\ Step(a, [call[a] EXCEPT !.pc = "rollback", !.todo = undo])

(* siginstall() undoes the signals below the one that failed.              *)
Rollback(a) ==
  LET h == call[a].h
      undo == {r \in ihandle[h].guarded : r < Signo(a)}
  IN  IF undo = {}
      THEN ihandle' = [ihandle EXCEPT ![h] = NoInstallHandle] /\ Return(a)
      ELSE UNCHANGED ihandle
           /\ Step(a, [call[a] EXCEPT !.pc = "rollback", !.todo = undo])

(* install_sighandler() fails in calloc() or in sigaction().               *)
InstallFails(a) ==
  /\ At(a, "installing") /\ map[Signo(a)] = NULL
  /\ Rollback(a)
  /\ UNCHANGED <<registry, dhandle>>

(* Mutant of InstallTssFails: the old disposition is not put back.         *)
InstallTssFailsKept(a) ==
  /\ At(a, "installing") /\ map[Signo(a)] = NULL
  /\ TssCreateMayFail /\ sighandlers_count = 0
  /\ \E c \in Containers :
       /\ info[c].state = "unused"
       /\ info' = [info EXCEPT ![c].state = "freed"]
  /\ disposition' = Sigaction(Signo(a), "raw_signal_handler")
  /\ Rollback(a)
  /\ UNCHANGED <<map, sighandlers_count, node, dhandle>>

(* install_sighandler() fails in sig_global_tss_state_create(), called for *)
(* the first handler of the process: the container just installed goes     *)
(* again, and the disposition sigaction() returned is put back.            *)
InstallTssFails(a) ==
  /\ At(a, "installing") /\ map[Signo(a)] = NULL
  /\ TssCreateMayFail /\ sighandlers_count = 0
  /\ \E c \in Containers :
       /\ info[c].state = "unused"
       /\ info' = [info EXCEPT ![c].state = "freed"]
  /\ Rollback(a)
  /\ UNCHANGED <<installed, node, dhandle>>

Siguninstall(a) ==
  /\ At(a, "idle")
  /\ \E h \in InstallHandles :
       /\ ihandle[h].state = "open"
       /\ ihandle' = [ihandle EXCEPT ![h].state = "busy"]
       /\ Step(a, [Idle EXCEPT !.pc = "uninstalling",
                               !.todo = ihandle[h].guarded, !.h = h])
  /\ UNCHANGED <<registry, dhandle>>

(* siguninstall() and the rollback loop of siginstall() free the handle    *)
(* after the last signal.                                                  *)
UninstallDone(a) ==
  LET h == call[a].h IN
  IF Rest(a) = {}
  THEN ihandle' = [ihandle EXCEPT ![h] = NoInstallHandle] /\ Return(a)
  ELSE UNCHANGED ihandle /\ Step(a, [call[a] EXCEPT !.todo = Rest(a)])

(* Container c drained of its deferred nodes and of one install.           *)
Uninstalled(c) ==
  [info EXCEPT ![c] = [@ EXCEPT !.install_count = info[c].install_count - 1,
                                !.deferred_frees = <<>>]]

(* uninstall_sighandler(): retire the deferred nodes, drop one install and *)
(* with the last one restore the old handler, erase the map's entry and    *)
(* release the map's reference.                                            *)
UninstallSighandler(a) ==
  /\ At(a, "uninstalling") \/ At(a, "rollback")
  /\ LET s == Signo(a)
         c == map[s]
     IN  IF c = NULL
         THEN UNCHANGED registry
         ELSE /\ UninstallAllowed(c)
              /\ node' = FreeNodes(node, ToSet(info[c].deferred_frees))
              /\ sighandlers_count' = sighandlers_count - 1
              /\ IF info[c].install_count = 1
                 THEN /\ disposition' = Sigaction(s, info[c].old_handler)
                      /\ map' = [map EXCEPT ![s] = NULL]
                      /\ info' = Release(Uninstalled(c), c)
                 ELSE info' = Uninstalled(c) /\ UNCHANGED <<disposition, map>>
  /\ UninstallDone(a)
  /\ UNCHANGED dhandle

-----------------------------------------------------------------------------
(* signal_decider_create().                                                *)

SignalDeciderCreate(a) ==
  /\ At(a, "idle")
  /\ \E h \in DeciderHandles, S \in (SUBSET Signals) \ {{}}, first \in BOOLEAN :
       /\ dhandle[h].state = "unused"
       /\ dhandle' = [dhandle EXCEPT ![h] =
                        [state |-> "busy", guarded |-> S,
                         callfirst |-> first, slots |-> <<>>]]
       /\ Step(a, [Idle EXCEPT !.pc = "creating", !.todo = S, !.h = h])
  /\ UNCHANGED <<registry, ihandle>>

(* Store p in the slot of the signal the loop is at.                       *)
CreateSlot(a, p) ==
  LET h == call[a].h
      filled == [dhandle EXCEPT ![h].slots = Append(@, p)]
  IN  IF Rest(a) = {}
      THEN /\ dhandle' = [filled EXCEPT ![h].state = "open",
                                        ![h].callfirst = FALSE]
           /\ Return(a)
      ELSE dhandle' = filled /\ Step(a, [call[a] EXCEPT !.todo = Rest(a)])

CreateUninstalled(a) ==
  /\ At(a, "creating") /\ map[Signo(a)] = NULL
  /\ CreateSlot(a, NULL)
  /\ UNCHANGED <<registry, ihandle>>

CreateNode(a) ==
  /\ At(a, "creating") /\ map[Signo(a)] # NULL
  /\ \E n \in Nodes :
       /\ node[n].state = "unused"
       /\ node' = [node EXCEPT ![n] = [state |-> "live", refcount |-> 1]]
       /\ info' = [info EXCEPT ![map[Signo(a)]].global_handler =
                     LIST_INSERT(@, n, dhandle[call[a].h].callfirst)]
       /\ CreateSlot(a, n)
  /\ UNCHANGED <<installed, ihandle>>

(* calloc() of the node fails: the partial handle is destroyed.            *)
CreateFails(a) ==
  /\ At(a, "creating") /\ map[Signo(a)] # NULL
  /\ Step(a, [call[a] EXCEPT !.pc = "destroying", !.todo = Signals])
  /\ UNCHANGED <<registry, handles>>

-----------------------------------------------------------------------------
(* signal_decider_destroy().                                               *)

SignalDeciderDestroy(a) ==
  /\ At(a, "idle")
  /\ \E h \in DeciderHandles :
       /\ dhandle[h].state = "open"
       /\ dhandle' = [dhandle EXCEPT ![h].state = "busy"]
       /\ Step(a, [Idle EXCEPT !.pc = "destroying", !.todo = Signals, !.h = h])
  /\ UNCHANGED <<registry, ihandle>>

(* retp++ if the signal is guarded; the handle is freed after the loop.    *)
SlotDone(a) ==
  LET h == call[a].h
      moved == IF Signo(a) \in dhandle[h].guarded /\ dhandle[h].slots # <<>>
               THEN [dhandle EXCEPT ![h].slots = Tail(@)] ELSE dhandle
  IN  IF Rest(a) = {}
      THEN dhandle' = [moved EXCEPT ![h] = NoDeciderHandle] /\ Return(a)
      ELSE /\ dhandle' = moved
           /\ Step(a, [call[a] EXCEPT !.pc = "destroying", !.todo = Rest(a),
                                      !.current = NULL])

(* The locked part for a signal with a container: retire its deferred      *)
(* nodes, drop the handle's reference on the node, and unlink and free it  *)
(* unless a raise is inside it.                                            *)
DestroyLocked(a) ==
  /\ At(a, "destroying") /\ map[Signo(a)] # NULL
  /\ DestroyAllowed(Signo(a), Slot(a))
  /\ LET c == map[Signo(a)]
         n == Slot(a)
         last == n # NULL /\ node[n].refcount = 1
         dropped == IF n = NULL THEN node ELSE [node EXCEPT ![n].refcount = @ - 1]
     IN  /\ info' = [info EXCEPT ![c] =
              [@ EXCEPT !.deferred_frees = <<>>,
                        !.global_handler =
                           IF last THEN LIST_REMOVE(info[c].global_handler, n)
                                   ELSE info[c].global_handler]]
         /\ node' = FreeNodes(dropped, ToSet(info[c].deferred_frees)
                                         \cup (IF last THEN {n} ELSE {}))
  /\ SlotDone(a)
  /\ UNCHANGED <<installed, ihandle>>

(* The locked part for a signal that is not installed does nothing.        *)
DestroyUninstalled(a) ==
  /\ At(a, "destroying") /\ map[Signo(a)] = NULL
  /\ DestroyAllowed(Signo(a), Slot(a))
  /\ IF Slot(a) = NULL
     THEN SlotDone(a)
     ELSE /\ Step(a, [call[a] EXCEPT !.pc = "orphan_load", !.current = Slot(a)])
          /\ UNCHANGED dhandle
  /\ UNCHANGED <<registry, ihandle>>

(* The decrement of the node's refcount after UNLOCK(): a load and a store *)
(* that the locked updates of an in-flight raise can come between.         *)
OrphanLoad(a) ==
  /\ At(a, "orphan_load")
  /\ Step(a, [call[a] EXCEPT !.pc = "orphan_store",
                             !.reg = node[call[a].current].refcount - 1])
  /\ UNCHANGED <<registry, handles>>

OrphanStore(a) ==
  /\ At(a, "orphan_store")
  /\ LET n == call[a].current
         dropped == [node EXCEPT ![n].refcount = call[a].reg]
     IN  node' = FreeNodes(dropped, IF call[a].reg = 0 THEN {n} ELSE {})
  /\ SlotDone(a)
  /\ UNCHANGED <<installed, info, ihandle>>

-----------------------------------------------------------------------------
(* stdc_raise() once no frame of the thread has claimed the signal, and    *)
(* the signals the kernel delivers to raw_signal_handler().                *)

StdcRaise(a) ==
  /\ At(a, "idle")
  /\ \E s \in Signals :
       Step(a, [Idle EXCEPT !.pc = "raising", !.signo = s])
  /\ UNCHANGED <<registry, handles>>

RawSignalHandler(a) ==
  /\ At(a, "idle")
  /\ \E s \in Signals :
       /\ disposition[s] = "raw_signal_handler"
       /\ Step(a, [Idle EXCEPT !.pc = "raising", !.signo = s,
                               !.delivered = TRUE])
  /\ UNCHANGED <<registry, handles>>

(* Mutant of RaiseUninstalled: a signal delivered while its container was  *)
(* uninstalled is not passed on.                                           *)
RaiseUninstalledWaits(a) ==
  /\ At(a, "raising") /\ map[call[a].signo] = NULL /\ ~call[a].delivered
  /\ Return(a)
  /\ UNCHANGED <<registry, handles>>

(* No container: stdc_raise() returns false, and raw_signal_handler()      *)
(* passes the signal to its default action.                                *)
RaiseUninstalled(a) ==
  /\ At(a, "raising") /\ map[call[a].signo] = NULL
  /\ IF call[a].delivered
     THEN Step(a, [call[a] EXCEPT !.pc = "handoff", !.sa = "SIG_DFL"])
     ELSE Return(a)
  /\ UNCHANGED <<registry, handles>>

(* A container without deciders: the reference taken is released in the    *)
(* same locked section.                                                    *)
RaiseNoDecider(a) ==
  /\ At(a, "raising") /\ map[call[a].signo] # NULL
  /\ LET c == map[call[a].signo] IN
       /\ info[c].global_handler = <<>>
       /\ Step(a, [call[a] EXCEPT !.pc = "handoff", !.sa = info[c].old_handler])
  /\ UNCHANGED <<registry, handles>>

(* Take a reference on the container and on its first decider, then call   *)
(* the decider with the lock released.                                     *)
RaiseEnter(a) ==
  /\ At(a, "raising") /\ map[call[a].signo] # NULL
  /\ LET c == map[call[a].signo]
         n == Head(info[c].global_handler)
     IN  /\ info[c].global_handler # <<>>
         /\ info' = [info EXCEPT ![c].lifetime_refcount = @ + 1]
         /\ node' = [node EXCEPT ![n].refcount = @ + 1]
         /\ Step(a, [call[a] EXCEPT !.pc = "decider", !.item = c,
                       !.current = n, !.sa = info[c].old_handler,
                       !.must = ToSet(info[c].global_handler), !.seen = {n}])
  /\ UNCHANGED <<installed, handles>>

(* Mutants of UnpinnedInfo and UnpinnedNode: the pointer is read after     *)
(* LIST_REMOVE() cleared it, and the pin is not dropped.                   *)
UnpinnedInfoCleared(a) ==
  [info EXCEPT ![call[a].item].deferred_frees = Append(@, NULL)]
UnpinnedNodeKept(a) == node

(* A raise that drops the last reference unlinks the decider without       *)
(* looking whether it is linked: unlinking one that another raise has      *)
(* moved to deferred_frees is undefined, and the call goes no further.     *)
RemovesLinked(a) ==
  node[call[a].current].refcount = 1 =>
    HasDecider(info[call[a].item].global_handler, call[a].current)

(* The lock is taken again: drop the pin on the decider, and if its handle *)
(* was destroyed meanwhile move the node to deferred_frees.                *)
UnpinnedInfo(a) ==
  LET c == call[a].item
      n == call[a].current
  IN  IF node[n].refcount = 1
      THEN [info EXCEPT ![c] =
              [@ EXCEPT !.global_handler = LIST_REMOVE(info[c].global_handler, n),
                        !.deferred_frees = LIST_INSERT(info[c].deferred_frees, n,
                                                       FALSE)]]
      ELSE info
UnpinnedNode(a) == [node EXCEPT ![call[a].current].refcount = @ - 1]

(* The decider asks for the next one: pin it and call it.                  *)
DeciderNext(a) ==
  /\ At(a, "decider") /\ RemovesLinked(a) /\ NextDecider(a) # NULL
  /\ info' = UnpinnedInfo(a)
  /\ node' = [UnpinnedNode(a) EXCEPT ![NextDecider(a)].refcount = @ + 1]
  /\ Step(a, [call[a] EXCEPT !.current = NextDecider(a),
                             !.seen = @ \cup {NextDecider(a)}])
  /\ UNCHANGED <<installed, handles>>

(* The raise drops its reference on the container.                         *)
RaiseRelease(a) ==
  LET c == call[a].item IN
  /\ info' = Release(UnpinnedInfo(a), c)
  /\ node' = FreeNodes(UnpinnedNode(a), FreedByRelease(UnpinnedInfo(a), c))

(* The last decider asks for the next one.                                 *)
DeciderExhausted(a) ==
  /\ At(a, "decider") /\ RemovesLinked(a) /\ NextDecider(a) = NULL
  /\ RaiseRelease(a)
  /\ Step(a, [call[a] EXCEPT !.pc = "handoff", !.item = NULL,
                             !.current = NULL])
  /\ UNCHANGED <<installed, handles>>

(* The decider claims the signal.                                          *)
DeciderClaims(a) ==
  /\ At(a, "decider") /\ RemovesLinked(a)
  /\ RaiseRelease(a)
  /\ Return(a)
  /\ UNCHANGED <<installed, handles>>

(* Mutant of Abandon: the container's reference is kept.                   *)
AbandonCounted(a) ==
  /\ MayAbandon /\ At(a, "decider") /\ AbandonAllowed(a)
  /\ node' = [node EXCEPT ![call[a].current].refcount = @ - 1]
  /\ Step(a, [call[a] EXCEPT !.pc = "abandoned"])
  /\ UNCHANGED <<installed, handles, info>>

(* sigdecider_abandon() from inside a global decider.                      *)
Abandon(a) ==
  /\ MayAbandon /\ At(a, "decider") /\ AbandonAllowed(a)
  /\ info' = [info EXCEPT ![call[a].item].lifetime_refcount = @ - 1]
  /\ node' = [node EXCEPT ![call[a].current].refcount = @ - 1]
  /\ Step(a, [call[a] EXCEPT !.pc = "abandoned"])
  /\ UNCHANGED <<installed, handles>>

(* The thread leaves the decider for good, e.g. with longjmp().            *)
LeaveAbandoned(a) ==
  /\ At(a, "abandoned")
  /\ Return(a)
  /\ UNCHANGED <<registry, handles>>

(* sigdecider_abandon_resume(): called, then the locked section.           *)
AbandonResume(a) ==
  /\ At(a, "abandoned")
  /\ Step(a, [call[a] EXCEPT !.pc = "resuming"])
  /\ UNCHANGED <<registry, handles>>

AbandonResumeLocked(a) ==
  /\ At(a, "resuming")
  /\ info' = [info EXCEPT ![call[a].item].lifetime_refcount = @ + 1]
  /\ node' = [node EXCEPT ![call[a].current].refcount = @ + 1]
  /\ Step(a, [call[a] EXCEPT !.pc = "decider"])
  /\ UNCHANGED <<installed, handles>>

-----------------------------------------------------------------------------
(* invoke_sigaction(): the previously installed handler, on a copy of its  *)
(* struct sigaction and without the lock.                                  *)

(* An application handler or SIG_IGN, and a default action of ignoring,    *)
(* leave the library's state alone.                                        *)
InvokeOther(a) ==
  /\ At(a, "handoff")
  /\ \/ call[a].sa \in {"app", "SIG_IGN"}
     \/ call[a].sa = "SIG_DFL" /\ DefaultAction[call[a].signo] = "ignore"
  /\ Return(a)
  /\ UNCHANGED <<registry, handles>>

(* The handler recorded as the previous one is the library's own.          *)
InvokeRawSignalHandler(a) ==
  /\ At(a, "handoff") /\ call[a].sa = "raw_signal_handler"
  /\ Step(a, [Idle EXCEPT !.pc = "raising", !.signo = call[a].signo,
                          !.delivered = TRUE])
  /\ UNCHANGED <<registry, handles>>

(* SIG_DFL: save the current handler, ...                                  *)
InvokeDefault(a) ==
  /\ At(a, "handoff") /\ call[a].sa = "SIG_DFL"
  /\ DefaultAction[call[a].signo] # "ignore"
  /\ Step(a, [call[a] EXCEPT !.pc = "dfl_set",
                             !.sa = disposition[call[a].signo]])
  /\ UNCHANGED <<registry, handles>>

(* ... set SIG_DFL, ...                                                    *)
DefaultSet(a) ==
  /\ At(a, "dfl_set")
  /\ disposition' = [disposition EXCEPT ![call[a].signo] = "SIG_DFL"]
  /\ Step(a, [call[a] EXCEPT !.pc = "dfl_kill"])
  /\ UNCHANGED <<handles, map, sighandlers_count, info, node>>

(* ... send the signal to this thread, which the process survives unless   *)
(* the default action is still in place and terminates it, ...             *)
DefaultKill(a) ==
  /\ At(a, "dfl_kill")
  /\ LET s == call[a].signo
         dies == disposition[s] = "SIG_DFL" /\ DefaultAction[s] = "terminate"
     IN  Step(a, [call[a] EXCEPT !.pc = IF dies THEN "terminated"
                                                ELSE "dfl_restore"])
  /\ UNCHANGED <<registry, handles>>

(* ... and restore the handler that was saved.                             *)
DefaultRestore(a) ==
  /\ At(a, "dfl_restore")
  /\ disposition' = [disposition EXCEPT ![call[a].signo] = call[a].sa]
  /\ Return(a)
  /\ UNCHANGED <<handles, map, sighandlers_count, info, node>>

-----------------------------------------------------------------------------
Install(a) == \/ Siginstall(a) \/ InstallFirst(a) \/ InstallAgain(a)
              \/ InstallFails(a) \/ InstallTssFails(a)
              \/ Siguninstall(a) \/ UninstallSighandler(a)

Deciders(a) == \/ SignalDeciderCreate(a) \/ CreateUninstalled(a)
               \/ CreateNode(a) \/ CreateFails(a)
               \/ SignalDeciderDestroy(a) \/ DestroyLocked(a)
               \/ DestroyUninstalled(a) \/ OrphanLoad(a) \/ OrphanStore(a)

Raise(a) == \/ StdcRaise(a) \/ RawSignalHandler(a) \/ RaiseUninstalled(a)
            \/ RaiseNoDecider(a) \/ RaiseEnter(a)
            \/ DeciderNext(a) \/ DeciderExhausted(a) \/ DeciderClaims(a)
            \/ Abandon(a) \/ LeaveAbandoned(a)
            \/ AbandonResume(a) \/ AbandonResumeLocked(a)

Invoke(a) == \/ InvokeOther(a) \/ InvokeRawSignalHandler(a)
             \/ InvokeDefault(a) \/ DefaultSet(a) \/ DefaultKill(a)
             \/ DefaultRestore(a)

Next == \E a \in Actors : Install(a) \/ Deciders(a) \/ Raise(a) \/ Invoke(a)

Spec == Init /\ [][Next]_vars

-----------------------------------------------------------------------------
(* Fairness.  Every call in flight keeps running and every decider returns *)
(* (7.14.4 asks deciders to return or to abandon); nothing makes a client  *)
(* start a call.                                                           *)

Progress(a) == /\ call[a].pc # "idle"
               /\ Install(a) \/ Deciders(a) \/ Raise(a) \/ Invoke(a)

FairSpec == Spec /\ \A a \in Actors : WF_vars(Progress(a))

-----------------------------------------------------------------------------
(* Properties.                                                             *)

(* The references on a container the code means to count: one for the map  *)
(* and one for each raise that is inside a decider and has not abandoned   *)
(* it.                                                                     *)
Holders(c) == {a \in Actors : call[a].pc = "decider" /\ call[a].item = c}
InMap(c) == \E s \in Signals : map[s] = c

(* A live container's lifetime_refcount is exactly the number of its       *)
(* references, whatever installs, uninstalls, raises, abandons and resumes *)
(* overlap (analysis.md 2.2/W4).                                           *)
LifetimeAccounting ==
  \A c \in Containers : info[c].state = "live" =>
    info[c].lifetime_refcount =
      Cardinality(Holders(c)) + (IF InMap(c) THEN 1 ELSE 0)

(* A container that the map or a raise inside a decider refers to has not  *)
(* been freed: siguninstall() during a raise leaves the raise its          *)
(* container.                                                              *)
LiveWhileHeld ==
  /\ \A s \in Signals : map[s] # NULL => info[map[s]].state = "live"
  /\ \A a \in Actors : call[a].pc = "decider" =>
       info[call[a].item].state = "live"

(* The raises inside the decider of node n.                                *)
Pins(n) == {a \in Actors : call[a].pc = "decider" /\ call[a].current = n}

(* A live node's refcount is one for the handle that owns it plus one for  *)
(* each raise inside its decider.                                          *)
NodeRefAccounting ==
  \A n \in Nodes : node[n].state = "live" =>
    node[n].refcount = Cardinality(Pins(n)) + (IF Owned(n) THEN 1 ELSE 0)

(* No step of any call touches a container or a node after its free().     *)
NoUseAfterFree == ~UseAfterFree

(* Nothing is leaked: a live container is in the map or held by a raise,   *)
(* and a live node is owned by a handle, pinned by a raise, or waiting in  *)
(* the deferred_frees of a live container.                                 *)
NoLeak ==
  /\ \A c \in Containers : info[c].state = "live" =>
       InMap(c) \/ Holders(c) # {}
  /\ \A n \in Nodes : node[n].state = "live" =>
       \/ Owned(n) \/ Pins(n) # {}
       \/ \E c \in Containers : /\ info[c].state = "live"
                                /\ n \in ToSet(info[c].deferred_frees)

(* The siginstall() calls that hold signal s installed, calls in progress  *)
(* included.                                                               *)
Installs(s) ==
  {h \in InstallHandles :
     /\ s \in ihandle[h].guarded
     /\ \/ ihandle[h].state = "open"
        \/ \E a \in Actors : call[a].h = h /\
             \/ call[a].pc = "installing" /\ s \notin call[a].todo
             \/ call[a].pc \in {"rollback", "uninstalling"}
                  /\ s \in call[a].todo}

(* install_count counts the holders of each signal, a signal without       *)
(* holders has no container, and sighandlers_count counts them all: a      *)
(* siginstall() that fails half way is undone to the last count.           *)
InstallAccounting ==
  /\ \A s \in Signals :
       IF map[s] = NULL THEN Installs(s) = {}
       ELSE info[map[s]].install_count = Cardinality(Installs(s))
  /\ sighandlers_count =
       Cardinality({p \in Signals \X InstallHandles : p[2] \in Installs(p[1])})

(* The kernel calls the library exactly for the signals that have a        *)
(* container, which keeps what the application had, and otherwise what the *)
(* application had installed: through overlapping installs, failures at    *)
(* every point, rollbacks and uninstalls, and whatever is done about other *)
(* signals.  Signals with a default action other than to ignore them are   *)
(* left out: invoke_sigaction() resets and restores their disposition      *)
(* without a lock, and a stale restore undoes an uninstall.                *)
DispositionMatchesMap ==
  \A s \in Signals : DefaultAction[s] = "ignore" =>
    /\ disposition[s] = IF map[s] = NULL THEN InitialDisposition[s]
                                         ELSE "raw_signal_handler"
    /\ map[s] # NULL => info[map[s]].old_handler = InitialDisposition[s]

(* A raise that hands the signal on to the old handler has called every    *)
(* decider that was registered when it began and still is, whatever was    *)
(* created, destroyed or uninstalled between two calls of a decider.       *)
RaiseComplete ==
  \A a \in Actors : call[a].pc = "handoff" =>
    \A n \in call[a].must \ call[a].seen :
      ~\E h \in DeciderHandles : /\ dhandle[h].state = "open"
                                 /\ n \in ToSet(dhandle[h].slots)

(* One raise calls no decider twice, though the list changes between the   *)
(* calls.                                                                  *)
NoDeciderTwice ==
  [][\A a \in Actors : call[a].pc = "decider" /\ call'[a].pc = "decider"
                       /\ call'[a].current # call[a].current
       => call'[a].current \notin call[a].seen]_vars

(* Every call that has begun returns: a raise reaches the end of the       *)
(* decider list, and no loop waits for another actor.                      *)
CallsReturn ==
  \A a \in Actors : (call[a].pc # "idle") ~> (call[a].pc = "idle" \/ Terminated)
=============================================================================
