------------------------ MODULE DeciderRegistryProofs ------------------------
(***************************************************************************)
(* TLAPS proofs about DeciderRegistry, for every set of actors, signals,   *)
(* containers, nodes and handles, every default action and every client    *)
(* discipline, abandoning deciders included.                               *)
(***************************************************************************)
EXTENDS DeciderRegistry, TLAPS, FiniteSetTheorems, WellFoundedInduction

(* Two abbreviations that every proof looks through.                       *)
USE DEF SignoToSighandlerMap, Sigaction

(* A non-empty set of signals has a least one, so Signo(a) is a signal the *)
(* loop has still to visit.                                                *)
LEMMA LeastSignal ==
  ASSUME NEW S \in SUBSET Signals, S # {}
  PROVE  Min(S) \in S /\ \A y \in S : Min(S) <= y
<1>1. S \subseteq Nat
  BY SignalsAssumption
<1>2. PICK x \in S : \A y \in S : <<y, x>> \notin OpToRel(<, Nat)
  BY <1>1, NatLessThanWellFounded, WFMin, Zenon
<1>3. ASSUME NEW y \in S PROVE x <= y
  <2>1. <<y, x>> \in Nat \X Nat /\ <<y, x>>[1] = y /\ <<y, x>>[2] = x
    BY <1>1
  <2>2. ~(y < x)
    BY <1>2, <2>1, Zenon DEF OpToRel
  <2> QED
    BY <1>1, <2>2
<1> QED
  BY <1>3, Zenon DEF Min

-----------------------------------------------------------------------------
(* What each control point knows of its call's arguments and locals.       *)
InstallPCs == {"installing", "rollback", "uninstalling"}
DeciderPCs == {"creating", "destroying", "orphan_load", "orphan_store"}
OrphanPCs == {"orphan_load", "orphan_store"}
InsidePCs == {"decider", "abandoned", "resuming"}
RaisePCs == {"raising", "handoff", "dfl_set", "dfl_kill", "dfl_restore"}
              \cup InsidePCs

ShapeOf(k) ==
  /\ k.pc \in InstallPCs => k.h \in InstallHandles /\ k.todo # {}
  /\ k.pc \in DeciderPCs => k.h \in DeciderHandles /\ k.todo # {}
  /\ k.pc \in RaisePCs => k.signo \in Signals
  /\ k.pc \in InsidePCs => k.item \in Containers
  /\ k.pc \in InsidePCs \cup OrphanPCs => k.current \in Nodes

CallShape == \A a \in Actors : ShapeOf(call[a])

IType == TypeOK /\ CallShape

(* The signal a loop is at, and the ones after it, are signals.            *)
LEMMA SignoType ==
  ASSUME IType, NEW a \in Actors, call[a].pc \in InstallPCs \cup DeciderPCs
  PROVE  Signo(a) \in Signals /\ Signo(a) \in call[a].todo
         /\ Rest(a) \in SUBSET Signals
<1>1. call[a] \in Call /\ call[a].todo # {}
  BY DEF IType, TypeOK, CallShape, ShapeOf
<1>2. call[a].todo \in SUBSET Signals
  BY <1>1 DEF Call
<1> QED
  BY <1>1, <1>2, LeastSignal DEF Signo, Rest

(* Literals, kept apart from the record types they occur in.               *)
LEMMA Literals ==
  /\ "unused" \in Memory /\ "live" \in Memory /\ "freed" \in Memory
  /\ "unused" \in HandleState /\ "busy" \in HandleState /\ "open" \in HandleState
  /\ "SIG_DFL" \in Dispositions /\ "raw_signal_handler" \in Dispositions
  /\ <<>> \in Seq(Nodes) /\ <<>> \in Seq(Nodes \cup {NULL})
  /\ 0 \in Int /\ 1 \in Int
  BY DEF Memory, HandleState, Dispositions, AppDispositions

(* The control points, for the same purpose.                               *)
LEMMA PCLiterals ==
  /\ "idle" \in PCs /\ "installing" \in PCs /\ "rollback" \in PCs
  /\ "uninstalling" \in PCs /\ "creating" \in PCs /\ "destroying" \in PCs
  /\ "orphan_load" \in PCs /\ "orphan_store" \in PCs /\ "raising" \in PCs
  /\ "decider" \in PCs /\ "abandoned" \in PCs /\ "resuming" \in PCs
  /\ "handoff" \in PCs /\ "dfl_set" \in PCs /\ "dfl_kill" \in PCs
  /\ "dfl_restore" \in PCs /\ "terminated" \in PCs
  BY DEF PCs

(* The record of an actor outside the library is a call.                   *)
LEMMA IdleType == Idle \in Call /\ ShapeOf(Idle) /\ Idle.pc = "idle"
<1>1. Idle \in Call
  BY Literals, PCLiterals DEF Idle, Call
<1> QED
  BY <1>1 DEF Idle, ShapeOf, InstallPCs, DeciderPCs, RaisePCs, InsidePCs,
              OrphanPCs

(* A step of one actor keeps the calls well formed if its new record is.   *)
LEMMA StepType ==
  ASSUME TypeOK, CallShape, NEW a \in Actors, NEW k \in Call, ShapeOf(k),
         call' = [call EXCEPT ![a] = k]
  PROVE  call' \in [Actors -> Call] /\ CallShape'
<1>1. call' \in [Actors -> Call]
  BY DEF TypeOK
<1>2. ASSUME NEW b \in Actors PROVE ShapeOf(call'[b])
  <2>1. CASE b = a
    BY <2>1 DEF TypeOK
  <2>2. CASE b # a
    <3>1. call'[b] = call[b]
      BY <2>2 DEF TypeOK
    <3> QED
      BY <3>1 DEF CallShape
  <2> QED
    BY <2>1, <2>2
<1> QED
  BY <1>1, <1>2 DEF CallShape, ShapeOf

(* Returning from the library keeps the calls well formed.                 *)
LEMMA ReturnType ==
  ASSUME TypeOK, CallShape, NEW a \in Actors, Return(a)
  PROVE  call' \in [Actors -> Call] /\ CallShape'
  BY StepType, IdleType DEF Return, Step

(* LIST_REMOVE of a list of nodes is a list of nodes.                      *)
LEMMA ListRemoveType ==
  ASSUME NEW list \in Seq(Nodes), NEW n
  PROVE  LIST_REMOVE(list, n) \in Seq(Nodes)
<1> SUFFICES ASSUME n \in ToSet(list)
             PROVE  LIST_REMOVE(list, n) \in Seq(Nodes)
  BY DEF LIST_REMOVE, HasDecider
<1> DEFINE i == CHOOSE j \in 1 .. Len(list) : list[j] = n
<1>1. i \in 1 .. Len(list)
  BY DEF ToSet
<1> HIDE DEF i
<1>2. SubSeq(list, 1, i - 1) \in Seq(Nodes)
  BY <1>1
<1>3. SubSeq(list, i + 1, Len(list)) \in Seq(Nodes)
  BY <1>1
<1>4. SubSeq(list, 1, i - 1) \o SubSeq(list, i + 1, Len(list)) \in Seq(Nodes)
  BY <1>2, <1>3
<1> QED
  BY <1>4 DEF LIST_REMOVE, HasDecider, i

(* So is LIST_INSERT of a node at either end.                              *)
LEMMA ListInsertType ==
  ASSUME NEW list \in Seq(Nodes), NEW n \in Nodes, NEW front
  PROVE  LIST_INSERT(list, n, front) \in Seq(Nodes)
<1>1. <<n>> \o list \in Seq(Nodes) /\ Append(list, n) \in Seq(Nodes)
  OBVIOUS
<1> QED
  BY <1>1 DEF LIST_INSERT

(* The successor of a node in a list is a node or null.                    *)
LEMMA NextInType ==
  ASSUME NEW list \in Seq(Nodes), NEW n
  PROVE  NextIn(list, n) \in Nodes \cup {NULL}
<1> DEFINE after == {list[i + 1] : i \in {j \in 1 .. Len(list) - 1 : list[j] = n}}
<1>1. after \subseteq Nodes
  OBVIOUS
<1>2. after # {} => (CHOOSE m \in after : TRUE) \in after
  OBVIOUS
<1> QED
  BY <1>1, <1>2 DEF NextIn

(* Freeing nodes keeps every node a record of its type.                    *)
LEMMA FreeNodesType ==
  ASSUME NEW nodes \in [Nodes -> Decider], NEW S
  PROVE  FreeNodes(nodes, S) \in [Nodes -> Decider]
  BY DEF FreeNodes, Decider, Memory

(* The fields of a container have the types of the C structure.            *)
LEMMA InfoType ==
  ASSUME NEW infos \in [Containers -> SighandlerInfo], NEW c \in Containers
  PROVE  /\ infos[c] \in SighandlerInfo
         /\ infos[c].state \in Memory
         /\ infos[c].install_count \in Int /\ infos[c].lifetime_refcount \in Int
         /\ infos[c].old_handler \in Dispositions
         /\ infos[c].global_handler \in Seq(Nodes)
         /\ infos[c].deferred_frees \in Seq(Nodes)
<1>1. infos[c] \in SighandlerInfo
  OBVIOUS
<1> QED
  BY <1>1 DEF SighandlerInfo

(* sighandler_info_release() keeps every container well typed.             *)
LEMMA ReleaseType ==
  ASSUME NEW infos \in [Containers -> SighandlerInfo], NEW c \in Containers
  PROVE  Release(infos, c) \in [Containers -> SighandlerInfo]
<1>1. ASSUME NEW r \in SighandlerInfo
      PROVE  [r EXCEPT !.lifetime_refcount = 0, !.state = "freed",
                       !.global_handler = <<>>, !.deferred_frees = <<>>]
               \in SighandlerInfo
  BY Literals DEF SighandlerInfo
<1>2. ASSUME NEW r \in SighandlerInfo, NEW x \in Int
      PROVE  [r EXCEPT !.lifetime_refcount = x] \in SighandlerInfo
  BY DEF SighandlerInfo
<1>3. infos[c] \in SighandlerInfo /\ infos[c].lifetime_refcount - 1 \in Int
  BY InfoType
<1> QED
  BY <1>1, <1>2, <1>3 DEF Release

(* Draining deferred_frees keeps every container well typed.               *)
LEMMA UninstalledType ==
  ASSUME TypeOK, NEW c \in Containers
  PROVE  Uninstalled(c) \in [Containers -> SighandlerInfo]
<1>1. ASSUME NEW r \in SighandlerInfo, NEW x \in Int
      PROVE  [r EXCEPT !.install_count = x, !.deferred_frees = <<>>]
               \in SighandlerInfo
  BY Literals DEF SighandlerInfo
<1>2. info[c] \in SighandlerInfo /\ info[c].install_count - 1 \in Int
  BY InfoType DEF TypeOK
<1>3. [info[c] EXCEPT !.install_count = info[c].install_count - 1,
                      !.deferred_frees = <<>>]
        \in SighandlerInfo
  BY <1>1, <1>2
<1> DEFINE r == [info[c] EXCEPT !.install_count = info[c].install_count - 1,
                                !.deferred_frees = <<>>]
<1>4. Uninstalled(c) = [info EXCEPT ![c] = r]
  BY DEF Uninstalled, TypeOK
<1> HIDE DEF r
<1>5. [info EXCEPT ![c] = r] \in [Containers -> SighandlerInfo]
  BY <1>3 DEF TypeOK, r
<1> QED
  BY <1>4, <1>5

(* The fields of a call have their types.                                  *)
LEMMA CallType ==
  ASSUME TypeOK, NEW a \in Actors
  PROVE  /\ call[a] \in Call
         /\ call[a].signo \in Signals \cup {NULL}
         /\ call[a].item \in Containers \cup {NULL}
         /\ call[a].current \in Nodes \cup {NULL}
         /\ call[a].sa \in Dispositions /\ call[a].reg \in Int
         /\ call[a].seen \in SUBSET Nodes
<1>1. call[a] \in Call
  BY DEF TypeOK
<1> QED
  BY <1>1 DEF Call

(* The records the loops step to.                                          *)
LEMMA LoopRecord ==
  ASSUME NEW k \in Call, NEW p \in PCs, NEW T \in SUBSET Signals, T # {},
         NEW h \in InstallHandles \cup DeciderHandles,
         p \in InstallPCs => h \in InstallHandles,
         p \in {"creating", "destroying"} => h \in DeciderHandles,
         p \in InstallPCs \cup {"creating", "destroying"}
  PROVE  /\ [k EXCEPT !.pc = p, !.todo = T, !.h = h] \in Call
         /\ ShapeOf([k EXCEPT !.pc = p, !.todo = T, !.h = h])
<1> DEFINE r == [k EXCEPT !.pc = p, !.todo = T, !.h = h]
<1>1. r \in Call
  BY DEF Call
<1>2. r.pc = p /\ r.todo = T /\ r.h = h
  BY DEF Call
<1> HIDE DEF r
<1>3. ShapeOf(r)
  BY <1>2 DEF ShapeOf, InstallPCs, DeciderPCs, RaisePCs, InsidePCs, OrphanPCs
<1> QED
  BY <1>1, <1>3 DEF r

(* The loops keep their handle and their control point.                    *)
LEMMA LoopNext ==
  ASSUME IType, NEW a \in Actors, NEW p \in PCs, NEW T \in SUBSET Signals,
         T # {},
         \/ call[a].pc \in InstallPCs /\ p \in InstallPCs
         \/ call[a].pc \in DeciderPCs /\ p \in {"creating", "destroying"}
  PROVE  /\ [call[a] EXCEPT !.pc = p, !.todo = T] \in Call
         /\ ShapeOf([call[a] EXCEPT !.pc = p, !.todo = T])
<1>1. call[a] \in Call /\ ShapeOf(call[a])
  BY DEF IType, TypeOK, CallShape
<1> DEFINE h == call[a].h
<1>2. /\ h \in InstallHandles \cup DeciderHandles
      /\ p \in InstallPCs => h \in InstallHandles
      /\ p \in {"creating", "destroying"} => h \in DeciderHandles
      /\ p \in InstallPCs \cup {"creating", "destroying"}
  BY <1>1 DEF ShapeOf, InstallPCs, DeciderPCs
<1>3. /\ [call[a] EXCEPT !.pc = p, !.todo = T, !.h = h] \in Call
      /\ ShapeOf([call[a] EXCEPT !.pc = p, !.todo = T, !.h = h])
  BY <1>1, <1>2, LoopRecord
<1>4. [call[a] EXCEPT !.pc = p, !.todo = T, !.h = h]
        = [call[a] EXCEPT !.pc = p, !.todo = T]
  BY <1>1 DEF Call
<1> QED
  BY <1>3, <1>4

(* ... as they do when they only move on to the rest of their signals.     *)
LEMMA LoopRest ==
  ASSUME IType, NEW a \in Actors, Rest(a) # {},
         call[a].pc \in InstallPCs \cup {"creating"}
  PROVE  /\ [call[a] EXCEPT !.todo = Rest(a)] \in Call
         /\ ShapeOf([call[a] EXCEPT !.todo = Rest(a)])
<1> DEFINE p == call[a].pc
<1>1. call[a] \in Call /\ p \in PCs
  BY DEF IType, TypeOK, Call
<1>2. Rest(a) \in SUBSET Signals
  BY SignoType DEF DeciderPCs
<1>3. /\ [call[a] EXCEPT !.pc = p, !.todo = Rest(a)] \in Call
      /\ ShapeOf([call[a] EXCEPT !.pc = p, !.todo = Rest(a)])
  BY <1>1, <1>2, LoopNext DEF DeciderPCs
<1>4. [call[a] EXCEPT !.pc = p, !.todo = Rest(a)]
        = [call[a] EXCEPT !.todo = Rest(a)]
  BY <1>1 DEF Call
<1> QED
  BY <1>3, <1>4

(* The handle tables under a change of one handle's fields.                *)
LEMMA InstallHandleState ==
  ASSUME TypeOK, NEW h \in InstallHandles, NEW st \in HandleState
  PROVE  [ihandle EXCEPT ![h].state = st] \in [InstallHandles -> InstallHandle]
<1>1. ihandle \in [InstallHandles -> InstallHandle]
  BY DEF TypeOK
<1>2. ASSUME NEW r \in InstallHandle
      PROVE  [r EXCEPT !.state = st] \in InstallHandle
  BY DEF InstallHandle
<1>3. [ihandle[h] EXCEPT !.state = st] \in InstallHandle
  BY <1>1, <1>2
<1> QED
  BY <1>1, <1>3

(* A change of state keeps the decider handles typed.                      *)
LEMMA DeciderHandleState ==
  ASSUME NEW ds \in [DeciderHandles -> DeciderHandle],
         NEW h \in DeciderHandles, NEW st \in HandleState
  PROVE  [ds EXCEPT ![h].state = st] \in [DeciderHandles -> DeciderHandle]
<1>1. ASSUME NEW r \in DeciderHandle
      PROVE  [r EXCEPT !.state = st] \in DeciderHandle
  BY DEF DeciderHandle
<1>2. [ds[h] EXCEPT !.state = st] \in DeciderHandle
  BY <1>1
<1> QED
  BY <1>2

(* A change of the node slots keeps the decider handles typed.             *)
LEMMA DeciderHandleSlots ==
  ASSUME NEW ds \in [DeciderHandles -> DeciderHandle],
         NEW h \in DeciderHandles, NEW sl \in Seq(Nodes \cup {NULL})
  PROVE  [ds EXCEPT ![h].slots = sl] \in [DeciderHandles -> DeciderHandle]
<1>1. ASSUME NEW r \in DeciderHandle
      PROVE  [r EXCEPT !.slots = sl] \in DeciderHandle
  BY DEF DeciderHandle
<1>2. [ds[h] EXCEPT !.slots = sl] \in DeciderHandle
  BY <1>1
<1> QED
  BY <1>2

(* A freed handle is a handle, and freeing one keeps the tables typed.     *)
LEMMA FreedHandleType ==
  /\ NoInstallHandle \in InstallHandle
  /\ NoDeciderHandle \in DeciderHandle
<1>1. [state |-> "unused", guarded |-> Signals] \in InstallHandle
  BY Literals, SignalsAssumption DEF InstallHandle
<1>2. [state |-> "unused", guarded |-> {}, callfirst |-> FALSE,
       slots |-> <<>>] \in DeciderHandle
  BY Literals DEF DeciderHandle
<1> QED
  BY <1>1, <1>2 DEF NoInstallHandle, NoDeciderHandle

(* signal_decider_create() returns a handle that is typed.                 *)
LEMMA DeciderHandleOpened ==
  ASSUME NEW ds \in [DeciderHandles -> DeciderHandle],
         NEW h \in DeciderHandles
  PROVE  [ds EXCEPT ![h].state = "open", ![h].callfirst = FALSE]
           \in [DeciderHandles -> DeciderHandle]
<1>1. ASSUME NEW es \in [DeciderHandles -> DeciderHandle]
      PROVE  [es EXCEPT ![h].callfirst = FALSE]
               \in [DeciderHandles -> DeciderHandle]
  <2>1. ASSUME NEW r \in DeciderHandle
        PROVE  [r EXCEPT !.callfirst = FALSE] \in DeciderHandle
    BY DEF DeciderHandle
  <2>2. [es[h] EXCEPT !.callfirst = FALSE] \in DeciderHandle
    BY <2>1
  <2> QED
    BY <2>2
<1>2. [ds EXCEPT ![h].state = "open"] \in [DeciderHandles -> DeciderHandle]
  BY DeciderHandleState, Literals
<1>3. [[ds EXCEPT ![h].state = "open"] EXCEPT ![h].callfirst = FALSE]
        \in [DeciderHandles -> DeciderHandle]
  BY <1>1, <1>2
<1> QED
  BY <1>3

(* siginstall() and siguninstall() keep the types.                         *)
LEMMA TypeInstall ==
  ASSUME IType, NEW a \in Actors, Install(a)
  PROVE  IType'
<1>0. TypeOK /\ CallShape /\ call[a] \in Call
  BY CallType DEF IType
<1>d. ASSUME call[a].pc \in InstallPCs, NEW hs,
             hs \in [InstallHandles -> InstallHandle],
             IF Rest(a) = {}
             THEN ihandle' = hs /\ Return(a)
             ELSE UNCHANGED ihandle /\ Step(a, [call[a] EXCEPT !.todo = Rest(a)])
      PROVE  /\ call' \in [Actors -> Call] /\ CallShape'
             /\ ihandle' \in [InstallHandles -> InstallHandle]
  <2>1. CASE Rest(a) = {}
    BY <1>0, <1>d, <2>1, ReturnType
  <2>2. CASE Rest(a) # {}
    <3>1. call' \in [Actors -> Call] /\ CallShape'
      BY <1>0, <1>d, <2>2, LoopRest, StepType DEF Step
    <3>2. ihandle' \in [InstallHandles -> InstallHandle]
      BY <1>0, <1>d, <2>2 DEF TypeOK
    <3> QED
      BY <3>1, <3>2
  <2> QED
    BY <2>1, <2>2
<1>h. ASSUME call[a].pc \in InstallPCs
      PROVE  /\ [ihandle EXCEPT ![call[a].h].state = "open"]
                   \in [InstallHandles -> InstallHandle]
             /\ [ihandle EXCEPT ![call[a].h] = NoInstallHandle]
                   \in [InstallHandles -> InstallHandle]
  <2>1. call[a].h \in InstallHandles
    BY <1>0, <1>h DEF CallShape, ShapeOf
  <2>2. ihandle \in [InstallHandles -> InstallHandle]
    BY <1>0 DEF TypeOK
  <2> QED
    BY <1>0, <2>1, <2>2, InstallHandleState, FreedHandleType, Literals
<1>r. ASSUME call[a].pc = "installing", Rollback(a)
      PROVE  /\ call' \in [Actors -> Call] /\ CallShape'
             /\ ihandle' \in [InstallHandles -> InstallHandle]
  <2> DEFINE undo == {r \in ihandle[call[a].h].guarded : r < Signo(a)}
  <2>h. call[a].h \in InstallHandles /\ call[a].pc \in InstallPCs
    BY <1>0, <1>r DEF CallShape, ShapeOf, InstallPCs
  <2>u. undo \in SUBSET Signals
    BY <1>0, <2>h DEF TypeOK, InstallHandle
  <2> HIDE DEF undo
  <2>1. CASE undo = {}
    <3>1. ihandle' = [ihandle EXCEPT ![call[a].h] = NoInstallHandle] /\ Return(a)
      BY <1>r, <2>1 DEF Rollback, undo
    <3> QED
      BY <1>0, <1>h, <2>h, <3>1, ReturnType
  <2>2. CASE undo # {}
    <3>1. UNCHANGED ihandle
          /\ Step(a, [call[a] EXCEPT !.pc = "rollback", !.todo = undo])
      BY <1>r, <2>2 DEF Rollback, undo
    <3>2. /\ [call[a] EXCEPT !.pc = "rollback", !.todo = undo] \in Call
          /\ ShapeOf([call[a] EXCEPT !.pc = "rollback", !.todo = undo])
      BY <2>2, <2>h, <2>u, LoopNext, PCLiterals DEF InstallPCs
    <3>3. call' \in [Actors -> Call] /\ CallShape'
      BY <1>0, <3>1, <3>2, StepType DEF Step
    <3>4. ihandle' \in [InstallHandles -> InstallHandle]
      BY <1>0, <3>1 DEF TypeOK
    <3> QED
      BY <3>3, <3>4
  <2> QED
    BY <2>1, <2>2
<1>s. ASSUME call[a].pc \in InstallPCs
      PROVE  Signo(a) \in Signals /\ map[Signo(a)] \in Containers \cup {NULL}
  BY <1>0, <1>s, SignoType DEF TypeOK
<1>1. CASE Siginstall(a)
  <2>1. PICK h \in InstallHandles, S \in (SUBSET Signals) \ {{}} :
          /\ ihandle' = [ihandle EXCEPT ![h] = [state |-> "busy", guarded |-> S]]
          /\ Step(a, [Idle EXCEPT !.pc = "installing", !.todo = S, !.h = h])
    BY <1>1 DEF Siginstall
  <2>2. [state |-> "busy", guarded |-> S] \in InstallHandle
    BY Literals DEF InstallHandle
  <2>3. ihandle' \in [InstallHandles -> InstallHandle]
    BY <1>0, <2>1, <2>2 DEF TypeOK
  <2>4. call' \in [Actors -> Call] /\ CallShape'
    BY <1>0, <2>1, LoopRecord, IdleType, PCLiterals, StepType
    DEF Step, InstallPCs
  <2> QED
    BY <1>0, <1>1, <2>3, <2>4 DEF Siginstall, IType, TypeOK, registry
<1>2. CASE InstallFirst(a)
  <2>1. call[a].pc = "installing" /\ call[a].pc \in InstallPCs
    BY <1>2 DEF InstallFirst, At, InstallPCs
  <2>2. PICK c \in Containers :
          /\ info' = [info EXCEPT ![c] =
               [state |-> "live", install_count |-> 1, lifetime_refcount |-> 1,
                old_handler |-> disposition[Signo(a)],
                global_handler |-> <<>>, deferred_frees |-> <<>>]]
          /\ map' = [map EXCEPT ![Signo(a)] = c]
    BY <1>2 DEF InstallFirst
  <2>3. disposition[Signo(a)] \in Dispositions
    BY <1>0, <1>s, <2>1 DEF TypeOK
  <2>4. info' \in [Containers -> SighandlerInfo]
    <3>1. [state |-> "live", install_count |-> 1, lifetime_refcount |-> 1,
           old_handler |-> disposition[Signo(a)],
           global_handler |-> <<>>, deferred_frees |-> <<>>] \in SighandlerInfo
      BY <2>3, Literals DEF SighandlerInfo
    <3> QED
      BY <1>0, <2>2, <3>1 DEF TypeOK
  <2>5. /\ map' \in [Signals -> Containers \cup {NULL}]
        /\ disposition' \in [Signals -> Dispositions]
        /\ sighandlers_count' \in Int
        /\ UNCHANGED <<node, dhandle>>
    <3>1. map' \in [Signals -> Containers \cup {NULL}]
      BY <1>0, <2>2 DEF TypeOK
    <3>2. disposition' = [disposition EXCEPT ![Signo(a)] = "raw_signal_handler"]
          /\ sighandlers_count' = sighandlers_count + 1
          /\ UNCHANGED <<node, dhandle>>
      BY <1>2 DEF InstallFirst
    <3>3. disposition' \in [Signals -> Dispositions]
      BY <1>0, <3>2, Literals DEF TypeOK
    <3> QED
      BY <1>0, <3>1, <3>2, <3>3 DEF TypeOK
  <2>6. /\ call' \in [Actors -> Call] /\ CallShape'
        /\ ihandle' \in [InstallHandles -> InstallHandle]
    BY <1>2, <1>d, <1>h, <2>1 DEF InstallFirst, InstallDone
  <2> QED
    BY <1>0, <2>4, <2>5, <2>6 DEF IType, TypeOK
<1>3. CASE InstallAgain(a)
  <2>1. call[a].pc = "installing" /\ call[a].pc \in InstallPCs
    BY <1>3 DEF InstallAgain, At, InstallPCs
  <2>2. map[Signo(a)] \in Containers
    BY <1>3, <1>s, <2>1 DEF InstallAgain
  <2>3. ASSUME NEW r \in SighandlerInfo, NEW x \in Int
        PROVE  [r EXCEPT !.install_count = x] \in SighandlerInfo
    BY DEF SighandlerInfo
  <2>4. info' \in [Containers -> SighandlerInfo]
    <3> DEFINE c == map[Signo(a)]
    <3>1. info[c] \in SighandlerInfo /\ info[c].install_count + 1 \in Int
      BY <1>0, <2>2, InfoType DEF TypeOK
    <3>2. [info[c] EXCEPT !.install_count = info[c].install_count + 1]
            \in SighandlerInfo
      BY <2>3, <3>1
    <3> QED
      BY <1>0, <1>3, <2>2, <3>2 DEF InstallAgain, TypeOK
  <2>5. /\ call' \in [Actors -> Call] /\ CallShape'
        /\ ihandle' \in [InstallHandles -> InstallHandle]
    BY <1>3, <1>d, <1>h, <2>1 DEF InstallAgain, InstallDone
  <2> QED
    BY <1>0, <1>3, <2>4, <2>5 DEF InstallAgain, IType, TypeOK
<1>4. CASE InstallFails(a)
  BY <1>0, <1>4, <1>r DEF InstallFails, At, IType, TypeOK, registry
<1>5. CASE InstallTssFails(a)
  <2>1. ASSUME NEW r \in SighandlerInfo
        PROVE  [r EXCEPT !.state = "freed"] \in SighandlerInfo
    BY Literals DEF SighandlerInfo
  <2>2. PICK c \in Containers : info' = [info EXCEPT ![c].state = "freed"]
    BY <1>5 DEF InstallTssFails
  <2>3. info' \in [Containers -> SighandlerInfo]
    <3>1. [info[c] EXCEPT !.state = "freed"] \in SighandlerInfo
      BY <1>0, <2>1 DEF TypeOK
    <3> QED
      BY <1>0, <2>2, <3>1 DEF TypeOK
  <2> QED
    BY <1>0, <1>5, <1>r, <2>3
    DEF InstallTssFails, At, IType, TypeOK, installed
<1>6. CASE Siguninstall(a)
  <2>1. PICK h \in InstallHandles :
          /\ ihandle' = [ihandle EXCEPT ![h].state = "busy"]
          /\ Step(a, [Idle EXCEPT !.pc = "uninstalling",
                                  !.todo = ihandle[h].guarded, !.h = h])
    BY <1>6 DEF Siguninstall
  <2>2. ihandle[h].guarded \in SUBSET Signals /\ ihandle[h].guarded # {}
    BY <1>0 DEF TypeOK, InstallHandle
  <2>3. ihandle' \in [InstallHandles -> InstallHandle]
    BY <1>0, <2>1, InstallHandleState, Literals
  <2>4. call' \in [Actors -> Call] /\ CallShape'
    BY <1>0, <2>1, <2>2, LoopRecord, IdleType, PCLiterals, StepType
    DEF Step, InstallPCs
  <2> QED
    BY <1>0, <1>6, <2>3, <2>4 DEF Siguninstall, IType, TypeOK, registry
<1>7. CASE UninstallSighandler(a)
  <2>1. call[a].pc \in InstallPCs
    BY <1>7 DEF UninstallSighandler, At, InstallPCs
  <2>2. /\ call' \in [Actors -> Call] /\ CallShape'
        /\ ihandle' \in [InstallHandles -> InstallHandle]
    BY <1>7, <1>d, <1>h, <2>1 DEF UninstallSighandler, UninstallDone
  <2> DEFINE c == map[Signo(a)]
  <2>3. CASE c = NULL
    BY <1>0, <1>7, <2>2, <2>3
    DEF UninstallSighandler, IType, TypeOK, registry
  <2>4. CASE c # NULL
    <3>1. c \in Containers /\ Signo(a) \in Signals
      BY <1>s, <2>1, <2>4
    <3>2. info[c].old_handler \in Dispositions
      BY <1>0, <3>1, InfoType DEF TypeOK
    <3>3. Uninstalled(c) \in [Containers -> SighandlerInfo]
      BY <1>0, <3>1, UninstalledType
    <3>6. Release(Uninstalled(c), c) \in [Containers -> SighandlerInfo]
      BY <3>1, <3>3, ReleaseType
    <3>7. /\ node' = FreeNodes(node, ToSet(info[c].deferred_frees))
          /\ sighandlers_count' = sighandlers_count - 1
          /\ IF info[c].install_count = 1
             THEN /\ disposition' =
                       [disposition EXCEPT ![Signo(a)] = info[c].old_handler]
                  /\ map' = [map EXCEPT ![Signo(a)] = NULL]
                  /\ info' = Release(Uninstalled(c), c)
             ELSE info' = Uninstalled(c) /\ UNCHANGED <<disposition, map>>
          /\ UNCHANGED dhandle
      BY <1>7, <2>4 DEF UninstallSighandler
    <3>8. node' \in [Nodes -> Decider]
      BY <1>0, <3>7, FreeNodesType DEF TypeOK
    <3>9. /\ info' \in [Containers -> SighandlerInfo]
          /\ map' \in [Signals -> Containers \cup {NULL}]
          /\ disposition' \in [Signals -> Dispositions]
          /\ sighandlers_count' \in Int
      BY <1>0, <3>1, <3>2, <3>3, <3>6, <3>7 DEF TypeOK
    <3> QED
      BY <1>0, <2>2, <3>7, <3>8, <3>9 DEF IType, TypeOK
  <2> QED
    BY <2>3, <2>4
<1> QED
  BY <1>1, <1>2, <1>3, <1>4, <1>5, <1>6, <1>7 DEF Install

(* The fields of a node have the types of the C structure.                 *)
LEMMA NodeType ==
  ASSUME NEW nodes \in [Nodes -> Decider], NEW n \in Nodes
  PROVE  /\ nodes[n].refcount \in Int
         /\ \A x \in Int :
              [nodes EXCEPT ![n].refcount = x] \in [Nodes -> Decider]
<1>1. ASSUME NEW r \in Decider, NEW x \in Int
      PROVE  [r EXCEPT !.refcount = x] \in Decider
  BY DEF Decider
<1>2. nodes[n] \in Decider
  OBVIOUS
<1>3. ASSUME NEW x \in Int
      PROVE  [nodes EXCEPT ![n].refcount = x] \in [Nodes -> Decider]
  <2>1. [nodes[n] EXCEPT !.refcount = x] \in Decider
    BY <1>1, <1>2
  <2> QED
    BY <2>1
<1> QED
  BY <1>2, <1>3 DEF Decider

(* Replacing the lists and counts of a container keeps it typed.           *)
LEMMA InfoLists ==
  ASSUME NEW infos \in [Containers -> SighandlerInfo], NEW c \in Containers,
         NEW g \in Seq(Nodes), NEW d \in Seq(Nodes), NEW x \in Int
  PROVE  /\ [infos EXCEPT ![c] = [@ EXCEPT !.global_handler = g,
                                           !.deferred_frees = d]]
              \in [Containers -> SighandlerInfo]
         /\ [infos EXCEPT ![c] = [@ EXCEPT !.deferred_frees = d,
                                           !.global_handler = g]]
              \in [Containers -> SighandlerInfo]
         /\ [infos EXCEPT ![c].global_handler = g]
              \in [Containers -> SighandlerInfo]
         /\ [infos EXCEPT ![c].lifetime_refcount = x]
              \in [Containers -> SighandlerInfo]
<1>1. ASSUME NEW r \in SighandlerInfo
      PROVE  /\ [r EXCEPT !.global_handler = g, !.deferred_frees = d]
                  \in SighandlerInfo
             /\ [r EXCEPT !.deferred_frees = d, !.global_handler = g]
                  \in SighandlerInfo
             /\ [r EXCEPT !.global_handler = g] \in SighandlerInfo
             /\ [r EXCEPT !.lifetime_refcount = x] \in SighandlerInfo
  BY DEF SighandlerInfo
<1>2. infos[c] \in SighandlerInfo
  OBVIOUS
<1> QED
  BY <1>1, <1>2

(* The slot of a loop is a pointer, and moving past it keeps the types.    *)
LEMMA SlotType ==
  ASSUME IType, NEW a \in Actors, call[a].pc \in DeciderPCs
  PROVE  /\ call[a].h \in DeciderHandles
         /\ dhandle \in [DeciderHandles -> DeciderHandle]
         /\ dhandle[call[a].h].slots \in Seq(Nodes \cup {NULL})
         /\ Slot(a) \in Nodes \cup {NULL}
<1>1. call[a].h \in DeciderHandles
  BY DEF IType, CallShape, ShapeOf
<1>2. dhandle \in [DeciderHandles -> DeciderHandle]
  BY DEF IType, TypeOK
<1>3. dhandle[call[a].h].slots \in Seq(Nodes \cup {NULL})
  BY <1>1, <1>2 DEF DeciderHandle
<1>4. Slot(a) \in Nodes \cup {NULL}
  BY <1>3 DEF Slot
<1> QED
  BY <1>1, <1>2, <1>3, <1>4

(* The end of an iteration of signal_decider_destroy() keeps the types.    *)
LEMMA SlotDoneType ==
  ASSUME IType, NEW a \in Actors, call[a].pc \in DeciderPCs, SlotDone(a)
  PROVE  /\ call' \in [Actors -> Call] /\ CallShape'
         /\ dhandle' \in [DeciderHandles -> DeciderHandle]
<1> DEFINE h == call[a].h
           moved == IF Signo(a) \in dhandle[h].guarded /\ dhandle[h].slots # <<>>
                    THEN [dhandle EXCEPT ![h].slots = Tail(dhandle[h].slots)]
                    ELSE dhandle
           k == [call[a] EXCEPT !.pc = "destroying", !.todo = Rest(a),
                                !.current = NULL]
<1>0. TypeOK /\ CallShape /\ call[a] \in Call /\ h \in DeciderHandles
  BY CallType, SlotType DEF IType
<1>1. moved \in [DeciderHandles -> DeciderHandle]
  <2>1. CASE dhandle[h].slots # <<>>
    <3>1. Tail(dhandle[h].slots) \in Seq(Nodes \cup {NULL})
      BY <2>1, SlotType
    <3> QED
      BY <3>1, SlotType, DeciderHandleSlots
  <2>2. CASE dhandle[h].slots = <<>>
    BY <2>2, SlotType
  <2> QED
    BY <2>1, <2>2
<1>2. IF Rest(a) = {}
      THEN dhandle' = [moved EXCEPT ![h] = NoDeciderHandle] /\ Return(a)
      ELSE dhandle' = moved /\ Step(a, k)
  BY DEF SlotDone
<1> HIDE DEF moved
<1>3. CASE Rest(a) = {}
  BY <1>0, <1>1, <1>2, <1>3, ReturnType, FreedHandleType
<1>4. CASE Rest(a) # {}
  <2>1. Rest(a) \in SUBSET Signals
    BY SignoType
  <2>2. k \in Call
    BY <1>0, <2>1, PCLiterals DEF Call
  <2>3. k.pc = "destroying" /\ k.todo = Rest(a) /\ k.h = call[a].h
    BY <1>0 DEF Call
  <2> HIDE DEF k
  <2>4. ShapeOf(k)
    BY <1>0, <1>4, <2>3
    DEF ShapeOf, InstallPCs, DeciderPCs, RaisePCs, InsidePCs, OrphanPCs
  <2> QED
    BY <1>0, <1>1, <1>2, <1>4, <2>2, <2>4, StepType DEF Step
<1> QED
  BY <1>3, <1>4

(* signal_decider_create() and signal_decider_destroy() keep the types.    *)
LEMMA TypeDeciders ==
  ASSUME IType, NEW a \in Actors, Deciders(a)
  PROVE  IType'
<1>0. TypeOK /\ CallShape /\ call[a] \in Call
  BY CallType DEF IType
<1>s. ASSUME call[a].pc \in DeciderPCs
      PROVE  Signo(a) \in Signals /\ map[Signo(a)] \in Containers \cup {NULL}
  BY <1>0, <1>s, SignoType DEF TypeOK
<1>c. ASSUME call[a].pc = "creating", NEW p \in Nodes \cup {NULL},
             CreateSlot(a, p)
      PROVE  /\ call' \in [Actors -> Call] /\ CallShape'
             /\ dhandle' \in [DeciderHandles -> DeciderHandle]
  <2> DEFINE h == call[a].h
             filled == [dhandle EXCEPT ![h].slots = Append(dhandle[h].slots, p)]
  <2>1. call[a].pc \in DeciderPCs
    BY <1>c DEF DeciderPCs
  <2>2. h \in DeciderHandles /\ dhandle[h].slots \in Seq(Nodes \cup {NULL})
        /\ dhandle \in [DeciderHandles -> DeciderHandle]
    BY <2>1, SlotType
  <2>a. Append(dhandle[h].slots, p) \in Seq(Nodes \cup {NULL})
    BY <2>2
  <2>3. filled \in [DeciderHandles -> DeciderHandle]
    <3> HIDE DEF h
    <3> QED
      BY <2>2, <2>a, DeciderHandleSlots
  <2>4. IF Rest(a) = {}
        THEN /\ dhandle' = [filled EXCEPT ![h].state = "open",
                                         ![h].callfirst = FALSE]
             /\ Return(a)
        ELSE dhandle' = filled /\ Step(a, [call[a] EXCEPT !.todo = Rest(a)])
    BY <1>c DEF CreateSlot
  <2> HIDE DEF filled
  <2>5. CASE Rest(a) = {}
    BY <1>0, <2>2, <2>3, <2>4, <2>5, ReturnType, DeciderHandleOpened
  <2>6. CASE Rest(a) # {}
    BY <1>0, <1>c, <2>3, <2>4, <2>6, LoopRest, StepType DEF Step
  <2> QED
    BY <2>5, <2>6
<1>1. CASE SignalDeciderCreate(a)
  <2>1. PICK h \in DeciderHandles, S \in (SUBSET Signals) \ {{}},
             first \in BOOLEAN :
          /\ dhandle' = [dhandle EXCEPT ![h] =
                           [state |-> "busy", guarded |-> S,
                            callfirst |-> first, slots |-> <<>>]]
          /\ Step(a, [Idle EXCEPT !.pc = "creating", !.todo = S, !.h = h])
    BY <1>1 DEF SignalDeciderCreate
  <2>2. [state |-> "busy", guarded |-> S, callfirst |-> first, slots |-> <<>>]
          \in DeciderHandle
    BY Literals DEF DeciderHandle
  <2>3. dhandle' \in [DeciderHandles -> DeciderHandle]
    BY <1>0, <2>1, <2>2 DEF TypeOK
  <2>4. call' \in [Actors -> Call] /\ CallShape'
    BY <1>0, <2>1, LoopRecord, IdleType, PCLiterals, StepType
    DEF Step, InstallPCs
  <2> QED
    BY <1>0, <1>1, <2>3, <2>4 DEF SignalDeciderCreate, IType, TypeOK, registry
<1>2. CASE CreateUninstalled(a)
  <2>1. /\ call' \in [Actors -> Call] /\ CallShape'
        /\ dhandle' \in [DeciderHandles -> DeciderHandle]
    BY <1>2, <1>c DEF CreateUninstalled, At
  <2> QED
    BY <1>0, <1>2, <2>1 DEF CreateUninstalled, IType, TypeOK, registry
<1>3. CASE CreateNode(a)
  <2> DEFINE c == map[Signo(a)]
  <2>1. call[a].pc = "creating" /\ c \in Containers
    BY <1>3, <1>s DEF CreateNode, At, DeciderPCs
  <2>2. PICK n \in Nodes :
          /\ node' = [node EXCEPT ![n] = [state |-> "live", refcount |-> 1]]
          /\ info' = [info EXCEPT ![c].global_handler =
                        LIST_INSERT(info[c].global_handler, n,
                                    dhandle[call[a].h].callfirst)]
          /\ CreateSlot(a, n)
    BY <1>3 DEF CreateNode
  <2>3. node' \in [Nodes -> Decider]
    <3>1. [state |-> "live", refcount |-> 1] \in Decider
      BY Literals DEF Decider
    <3> QED
      BY <1>0, <2>2, <3>1 DEF TypeOK
  <2>4. info' \in [Containers -> SighandlerInfo]
    <3>1. info[c].global_handler \in Seq(Nodes)
      BY <1>0, <2>1, InfoType DEF TypeOK
    <3>2. LIST_INSERT(info[c].global_handler, n,
                      dhandle[call[a].h].callfirst) \in Seq(Nodes)
      BY <3>1, ListInsertType
    <3> HIDE DEF c
    <3> QED
      BY <1>0, <2>1, <2>2, <3>2, InfoLists DEF TypeOK
  <2>5. /\ call' \in [Actors -> Call] /\ CallShape'
        /\ dhandle' \in [DeciderHandles -> DeciderHandle]
    BY <1>c, <2>1, <2>2
  <2> QED
    BY <1>0, <1>3, <2>3, <2>4, <2>5 DEF CreateNode, IType, TypeOK, installed
<1>4. CASE CreateFails(a)
  <2>1. call[a].pc = "creating" /\ Signals # {}
    BY <1>4, SignalsAssumption DEF CreateFails, At
  <2>2. /\ [call[a] EXCEPT !.pc = "destroying", !.todo = Signals] \in Call
        /\ ShapeOf([call[a] EXCEPT !.pc = "destroying", !.todo = Signals])
    BY <2>1, LoopNext, PCLiterals DEF DeciderPCs
  <2>3. call' \in [Actors -> Call] /\ CallShape'
    BY <1>0, <1>4, <2>2, StepType DEF CreateFails, Step
  <2> QED
    BY <1>0, <1>4, <2>3 DEF CreateFails, IType, TypeOK, registry, handles
<1>5. CASE SignalDeciderDestroy(a)
  <2>1. PICK h \in DeciderHandles :
          /\ dhandle' = [dhandle EXCEPT ![h].state = "busy"]
          /\ Step(a, [Idle EXCEPT !.pc = "destroying", !.todo = Signals, !.h = h])
    BY <1>5 DEF SignalDeciderDestroy
  <2>2. dhandle' \in [DeciderHandles -> DeciderHandle]
    BY <1>0, <2>1, DeciderHandleState, Literals DEF TypeOK
  <2>3. call' \in [Actors -> Call] /\ CallShape'
    BY <1>0, <2>1, LoopRecord, IdleType, PCLiterals, StepType, SignalsAssumption
    DEF Step, InstallPCs
  <2> QED
    BY <1>0, <1>5, <2>2, <2>3 DEF SignalDeciderDestroy, IType, TypeOK, registry
<1>6. CASE DestroyLocked(a)
  <2> DEFINE c == map[Signo(a)]
             n == Slot(a)
             last == n # NULL /\ node[n].refcount = 1
             g == IF last THEN LIST_REMOVE(info[c].global_handler, n)
                          ELSE info[c].global_handler
             dropped == IF n = NULL THEN node
                        ELSE [node EXCEPT ![n].refcount = node[n].refcount - 1]
  <2>1. call[a].pc \in DeciderPCs /\ c # NULL
    BY <1>6 DEF DestroyLocked, At, DeciderPCs
  <2>2. c \in Containers /\ n \in Nodes \cup {NULL}
    BY <1>s, <2>1, SlotType
  <2>3. /\ info' = [info EXCEPT ![c] = [@ EXCEPT !.deferred_frees = <<>>,
                                                 !.global_handler = g]]
        /\ node' = FreeNodes(dropped, ToSet(info[c].deferred_frees)
                                        \cup (IF last THEN {n} ELSE {}))
        /\ SlotDone(a)
    BY <1>6 DEF DestroyLocked
  <2>4. g \in Seq(Nodes)
    BY <1>0, <2>2, InfoType, ListRemoveType DEF TypeOK
  <2>5. dropped \in [Nodes -> Decider]
    <3>1. CASE n \in Nodes
      <4>1. node[n].refcount - 1 \in Int
        BY <1>0, <3>1, NodeType DEF TypeOK
      <4> QED
        BY <1>0, <3>1, <4>1, NodeType DEF TypeOK
    <3>2. CASE n = NULL
      BY <1>0, <3>2 DEF TypeOK
    <3> QED
      BY <2>2, <3>1, <3>2
  <2> HIDE DEF c, n, last, g, dropped
  <2>6. info' \in [Containers -> SighandlerInfo]
    BY <1>0, <2>2, <2>3, <2>4, InfoLists, Literals DEF TypeOK
  <2>7. node' \in [Nodes -> Decider]
    BY <2>3, <2>5, FreeNodesType
  <2>8. /\ call' \in [Actors -> Call] /\ CallShape'
        /\ dhandle' \in [DeciderHandles -> DeciderHandle]
    BY <2>1, <2>3, SlotDoneType
  <2> QED
    BY <1>0, <1>6, <2>6, <2>7, <2>8 DEF DestroyLocked, IType, TypeOK, installed
<1>7. CASE DestroyUninstalled(a)
  <2>1. call[a].pc = "destroying" /\ call[a].pc \in DeciderPCs
    BY <1>7 DEF DestroyUninstalled, At, DeciderPCs
  <2>2. CASE Slot(a) = NULL
    <3>1. /\ call' \in [Actors -> Call] /\ CallShape'
          /\ dhandle' \in [DeciderHandles -> DeciderHandle]
      BY <1>7, <2>1, <2>2, SlotDoneType DEF DestroyUninstalled
    <3> QED
      BY <1>0, <1>7, <3>1 DEF DestroyUninstalled, IType, TypeOK, registry
  <2>3. CASE Slot(a) # NULL
    <3> DEFINE k == [call[a] EXCEPT !.pc = "orphan_load", !.current = Slot(a)]
    <3>1. Slot(a) \in Nodes
      BY <2>1, <2>3, SlotType
    <3>2. k \in Call
      BY <1>0, <3>1, PCLiterals DEF Call
    <3>3. /\ k.pc = "orphan_load" /\ k.current = Slot(a)
          /\ k.h = call[a].h /\ k.todo = call[a].todo
      BY <1>0 DEF Call
    <3>4. call' = [call EXCEPT ![a] = k] /\ UNCHANGED dhandle
      BY <1>7, <2>3 DEF DestroyUninstalled, Step
    <3> HIDE DEF k
    <3>5. ShapeOf(call[a])
      BY <1>0 DEF CallShape
    <3>6. ShapeOf(k)
      BY <2>1, <3>1, <3>3, <3>5
      DEF ShapeOf, InstallPCs, DeciderPCs, RaisePCs, InsidePCs, OrphanPCs
    <3>7. call' \in [Actors -> Call] /\ CallShape'
      BY <1>0, <3>2, <3>4, <3>6, StepType
    <3> QED
      BY <1>0, <1>7, <3>4, <3>7 DEF DestroyUninstalled, IType, TypeOK, registry
  <2> QED
    BY <2>2, <2>3
<1>8. CASE OrphanLoad(a)
  <2> DEFINE x == node[call[a].current].refcount - 1
             k == [call[a] EXCEPT !.pc = "orphan_store", !.reg = x]
  <2>1. call[a].pc = "orphan_load" /\ ShapeOf(call[a])
    BY <1>0, <1>8 DEF OrphanLoad, At, CallShape
  <2>2. call[a].current \in Nodes
    BY <2>1 DEF ShapeOf, OrphanPCs
  <2>3. x \in Int
    BY <1>0, <2>2, NodeType DEF TypeOK
  <2>4. call' = [call EXCEPT ![a] = k]
    BY <1>8 DEF OrphanLoad, Step
  <2> HIDE DEF x
  <2>5. k \in Call
    BY <1>0, <2>3, PCLiterals DEF Call
  <2>6. /\ k.pc = "orphan_store" /\ k.current = call[a].current
        /\ k.h = call[a].h /\ k.todo = call[a].todo
    BY <1>0 DEF Call
  <2> HIDE DEF k
  <2>7. ShapeOf(k)
    BY <2>1, <2>6
    DEF ShapeOf, InstallPCs, DeciderPCs, RaisePCs, InsidePCs, OrphanPCs
  <2>8. call' \in [Actors -> Call] /\ CallShape'
    BY <1>0, <2>4, <2>5, <2>7, StepType
  <2> QED
    BY <1>0, <1>8, <2>8 DEF OrphanLoad, IType, TypeOK, registry, handles
<1>9. CASE OrphanStore(a)
  <2> DEFINE n == call[a].current
             dropped == [node EXCEPT ![n].refcount = call[a].reg]
  <2>1. call[a].pc = "orphan_store" /\ call[a].pc \in DeciderPCs
        /\ ShapeOf(call[a])
    BY <1>0, <1>9 DEF OrphanStore, At, CallShape, DeciderPCs
  <2>2. n \in Nodes /\ call[a].reg \in Int
    BY <1>0, <2>1, CallType DEF ShapeOf, OrphanPCs
  <2>3. dropped \in [Nodes -> Decider]
    BY <1>0, <2>2, NodeType DEF TypeOK
  <2>4. node' = FreeNodes(dropped, IF call[a].reg = 0 THEN {n} ELSE {})
        /\ SlotDone(a)
    BY <1>9 DEF OrphanStore
  <2> HIDE DEF dropped, n
  <2>5. node' \in [Nodes -> Decider]
    BY <2>3, <2>4, FreeNodesType
  <2>6. /\ call' \in [Actors -> Call] /\ CallShape'
        /\ dhandle' \in [DeciderHandles -> DeciderHandle]
    BY <2>1, <2>4, SlotDoneType
  <2> QED
    BY <1>0, <1>9, <2>5, <2>6 DEF OrphanStore, IType, TypeOK, installed
<1> QED
  BY <1>1, <1>2, <1>3, <1>4, <1>5, <1>6, <1>7, <1>8, <1>9 DEF Deciders

-----------------------------------------------------------------------------
(* The records a raise steps to.                                           *)
LEMMA RaiseRecord ==
  ASSUME TypeOK, CallShape, NEW a \in Actors, NEW k \in Call, Step(a, k),
         k.pc \in RaisePCs \cup {"terminated"},
         k.signo \in Signals,
         k.pc \in InsidePCs => k.item \in Containers /\ k.current \in Nodes
  PROVE  call' \in [Actors -> Call] /\ CallShape'
<1>1. ShapeOf(k)
  BY DEF ShapeOf, InstallPCs, DeciderPCs, RaisePCs, InsidePCs, OrphanPCs
<1> QED
  BY <1>1, StepType DEF Step

(* The call of an actor inside a decider, and what it unpins.              *)
LEMMA InsideType ==
  ASSUME IType, NEW a \in Actors, call[a].pc \in InsidePCs
  PROVE  /\ call[a].signo \in Signals /\ call[a].item \in Containers
         /\ call[a].current \in Nodes
         /\ NextDecider(a) \in Nodes \cup {NULL}
         /\ UnpinnedInfo(a) \in [Containers -> SighandlerInfo]
         /\ UnpinnedNode(a) \in [Nodes -> Decider]
<1>0. TypeOK /\ ShapeOf(call[a])
  BY DEF IType, CallShape
<1>1. /\ call[a].signo \in Signals /\ call[a].item \in Containers
      /\ call[a].current \in Nodes
  BY <1>0 DEF ShapeOf, RaisePCs
<1> DEFINE c == call[a].item
           n == call[a].current
           g == LIST_REMOVE(info[c].global_handler, n)
           d == LIST_INSERT(info[c].deferred_frees, n, FALSE)
<1>2. /\ info \in [Containers -> SighandlerInfo] /\ node \in [Nodes -> Decider]
      /\ info[c].global_handler \in Seq(Nodes)
      /\ info[c].deferred_frees \in Seq(Nodes)
  BY <1>0, <1>1, InfoType DEF TypeOK
<1>3. NextDecider(a) \in Nodes \cup {NULL}
  BY <1>2, NextInType DEF NextDecider
<1>4. g \in Seq(Nodes) /\ d \in Seq(Nodes)
  BY <1>1, <1>2, ListRemoveType, ListInsertType
<1>5. UnpinnedInfo(a) =
        IF node[n].refcount = 1
        THEN [info EXCEPT ![c] = [@ EXCEPT !.global_handler = g,
                                           !.deferred_frees = d]]
        ELSE info
  BY DEF UnpinnedInfo
<1>6. UnpinnedNode(a) = [node EXCEPT ![n].refcount = node[n].refcount - 1]
  BY DEF UnpinnedNode
<1>n. c \in Containers /\ n \in Nodes
  BY <1>1
<1> HIDE DEF c, n, g, d
<1>7. UnpinnedInfo(a) \in [Containers -> SighandlerInfo]
  <2>1. [info EXCEPT ![c] = [@ EXCEPT !.global_handler = g, !.deferred_frees = d]]
          \in [Containers -> SighandlerInfo]
    BY <1>2, <1>4, <1>n, InfoLists, Literals
  <2> QED
    BY <1>2, <1>5, <2>1
<1>8. UnpinnedNode(a) \in [Nodes -> Decider]
  <2>1. node[n].refcount - 1 \in Int
    BY <1>2, <1>n, NodeType
  <2> QED
    BY <1>2, <1>6, <1>n, <2>1, NodeType
<1> QED
  BY <1>1, <1>3, <1>7, <1>8

(* stdc_raise(), sigdecider_abandon() and sigdecider_abandon_resume() keep *)
(* the types.                                                              *)
LEMMA TypeRaise ==
  ASSUME IType, NEW a \in Actors, Raise(a)
  PROVE  IType'
<1>0. /\ TypeOK /\ CallShape /\ call[a] \in Call /\ ShapeOf(call[a])
      /\ info \in [Containers -> SighandlerInfo] /\ node \in [Nodes -> Decider]
  BY CallType DEF IType, CallShape, TypeOK
<1>s. ASSUME call[a].pc = "raising"
      PROVE  call[a].signo \in Signals
             /\ map[call[a].signo] \in Containers \cup {NULL}
  BY <1>0, <1>s DEF TypeOK, ShapeOf, RaisePCs
<1>r. ASSUME call[a].pc = "decider", RaiseRelease(a)
      PROVE  info' \in [Containers -> SighandlerInfo]
             /\ node' \in [Nodes -> Decider]
  <2>1. /\ call[a].item \in Containers
        /\ UnpinnedInfo(a) \in [Containers -> SighandlerInfo]
        /\ UnpinnedNode(a) \in [Nodes -> Decider]
    BY <1>r, InsideType DEF InsidePCs
  <2> QED
    BY <1>r, <2>1, ReleaseType, FreeNodesType DEF RaiseRelease
<1>1. CASE StdcRaise(a)
  <2>1. PICK s \in Signals : Step(a, [Idle EXCEPT !.pc = "raising", !.signo = s])
    BY <1>1 DEF StdcRaise
  <2>2. [Idle EXCEPT !.pc = "raising", !.signo = s] \in Call
    BY IdleType, PCLiterals DEF Call
  <2>3. call' \in [Actors -> Call] /\ CallShape'
    <3>1. /\ [Idle EXCEPT !.pc = "raising", !.signo = s].pc = "raising"
          /\ [Idle EXCEPT !.pc = "raising", !.signo = s].signo = s
      BY IdleType DEF Call
    <3> QED
      BY <1>0, <2>1, <2>2, <3>1, RaiseRecord DEF RaisePCs, InsidePCs
  <2> QED
    BY <1>0, <1>1, <2>3 DEF StdcRaise, IType, TypeOK, registry, handles
<1>2. CASE RawSignalHandler(a)
  <2>1. PICK s \in Signals :
          Step(a, [Idle EXCEPT !.pc = "raising", !.signo = s, !.delivered = TRUE])
    BY <1>2 DEF RawSignalHandler
  <2> DEFINE k == [Idle EXCEPT !.pc = "raising", !.signo = s, !.delivered = TRUE]
  <2>2. k \in Call /\ k.pc = "raising" /\ k.signo = s
    BY IdleType, PCLiterals DEF Call
  <2> HIDE DEF k
  <2>3. call' \in [Actors -> Call] /\ CallShape'
    BY <1>0, <2>1, <2>2, RaiseRecord DEF RaisePCs, InsidePCs, k
  <2> QED
    BY <1>0, <1>2, <2>3 DEF RawSignalHandler, IType, TypeOK, registry, handles
<1>3. CASE RaiseUninstalled(a)
  <2> DEFINE k == [call[a] EXCEPT !.pc = "handoff", !.sa = "SIG_DFL"]
  <2>1. call[a].signo \in Signals
    BY <1>3, <1>s DEF RaiseUninstalled, At
  <2>2. k \in Call /\ k.pc = "handoff" /\ k.signo = call[a].signo
    BY <1>0, PCLiterals, Literals DEF Call
  <2>3. Step(a, k) \/ Return(a)
    BY <1>3 DEF RaiseUninstalled
  <2> HIDE DEF k
  <2>4. call' \in [Actors -> Call] /\ CallShape'
    BY <1>0, <2>1, <2>2, <2>3, RaiseRecord, ReturnType DEF RaisePCs, InsidePCs
  <2> QED
    BY <1>0, <1>3, <2>4 DEF RaiseUninstalled, IType, TypeOK, registry, handles
<1>4. CASE RaiseNoDecider(a)
  <2> DEFINE c == map[call[a].signo]
             k == [call[a] EXCEPT !.pc = "handoff", !.sa = info[c].old_handler]
  <2>1. call[a].signo \in Signals /\ c \in Containers
    BY <1>4, <1>s DEF RaiseNoDecider, At
  <2>2. info[c].old_handler \in Dispositions
    BY <1>0, <2>1, InfoType
  <2>3. Step(a, k)
    BY <1>4 DEF RaiseNoDecider
  <2> HIDE DEF c
  <2>4. k \in Call /\ k.pc = "handoff" /\ k.signo = call[a].signo
    BY <1>0, <2>2, PCLiterals DEF Call
  <2> HIDE DEF k
  <2>5. call' \in [Actors -> Call] /\ CallShape'
    BY <1>0, <2>1, <2>3, <2>4, RaiseRecord DEF RaisePCs, InsidePCs
  <2> QED
    BY <1>0, <1>4, <2>5 DEF RaiseNoDecider, IType, TypeOK, registry, handles
<1>5. CASE RaiseEnter(a)
  <2> DEFINE c == map[call[a].signo]
             g == info[c].global_handler
             n == Head(g)
             o == info[c].old_handler
             k == [call[a] EXCEPT !.pc = "decider", !.item = c, !.current = n,
                                  !.sa = o, !.must = ToSet(g), !.seen = {n}]
  <2>1. call[a].signo \in Signals /\ c \in Containers
    BY <1>5, <1>s DEF RaiseEnter, At
  <2>2. /\ o \in Dispositions /\ g \in Seq(Nodes)
        /\ info[c].lifetime_refcount \in Int
    BY <1>0, <2>1, InfoType
  <2>3. g # <<>>
    BY <1>5 DEF RaiseEnter
  <2>4. n \in Nodes /\ ToSet(g) \in SUBSET Nodes
    BY <2>2, <2>3 DEF ToSet
  <2>5. /\ info' = [info EXCEPT ![c].lifetime_refcount =
                                   info[c].lifetime_refcount + 1]
        /\ node' = [node EXCEPT ![n].refcount = node[n].refcount + 1]
        /\ Step(a, k)
    BY <1>5 DEF RaiseEnter
  <2> HIDE DEF c, g, n, o
  <2>6. info' \in [Containers -> SighandlerInfo]
    <3>1. info[c].lifetime_refcount + 1 \in Int
      BY <2>2
    <3> QED
      BY <1>0, <2>1, <2>5, <3>1, InfoLists, Literals
  <2>7. node' \in [Nodes -> Decider]
    <3>1. node[n].refcount + 1 \in Int
      BY <1>0, <2>4, NodeType
    <3> QED
      BY <1>0, <2>4, <2>5, <3>1, NodeType
  <2>8. k \in Call /\ k.pc = "decider" /\ k.signo = call[a].signo
        /\ k.item = c /\ k.current = n
    BY <1>0, <2>1, <2>2, <2>4, PCLiterals DEF Call
  <2> HIDE DEF k
  <2>9. call' \in [Actors -> Call] /\ CallShape'
    BY <1>0, <2>1, <2>4, <2>5, <2>8, RaiseRecord DEF RaisePCs, InsidePCs
  <2> QED
    BY <1>0, <1>5, <2>6, <2>7, <2>9
    DEF RaiseEnter, IType, TypeOK, installed, handles
<1>6. CASE DeciderNext(a)
  <2> DEFINE n == NextDecider(a)
             k == [call[a] EXCEPT !.current = n, !.seen = call[a].seen \cup {n}]
  <2>1. call[a].pc = "decider" /\ call[a].pc \in InsidePCs /\ n # NULL
    BY <1>6 DEF DeciderNext, At, InsidePCs
  <2>2. /\ call[a].signo \in Signals /\ call[a].item \in Containers
        /\ n \in Nodes
        /\ UnpinnedInfo(a) \in [Containers -> SighandlerInfo]
        /\ UnpinnedNode(a) \in [Nodes -> Decider]
    BY <2>1, InsideType
  <2>3. /\ info' = UnpinnedInfo(a)
        /\ node' = [UnpinnedNode(a) EXCEPT ![n].refcount =
                                      UnpinnedNode(a)[n].refcount + 1]
        /\ Step(a, k)
    BY <1>6 DEF DeciderNext
  <2> HIDE DEF n
  <2>4. node' \in [Nodes -> Decider]
    <3>1. UnpinnedNode(a)[n].refcount + 1 \in Int
      BY <2>2, NodeType
    <3> QED
      BY <2>2, <2>3, <3>1, NodeType
  <2>5. k \in Call /\ k.pc = "decider" /\ k.signo = call[a].signo
        /\ k.item = call[a].item /\ k.current = n
    BY <1>0, <2>1, <2>2 DEF Call
  <2> HIDE DEF k
  <2>6. call' \in [Actors -> Call] /\ CallShape'
    BY <1>0, <2>2, <2>3, <2>5, RaiseRecord DEF RaisePCs, InsidePCs
  <2> QED
    BY <1>0, <1>6, <2>2, <2>3, <2>4, <2>6
    DEF DeciderNext, IType, TypeOK, installed, handles
<1>7. CASE DeciderExhausted(a)
  <2> DEFINE k == [call[a] EXCEPT !.pc = "handoff", !.item = NULL,
                                  !.current = NULL]
  <2>1. call[a].pc = "decider" /\ RaiseRelease(a) /\ Step(a, k)
    BY <1>7 DEF DeciderExhausted, At
  <2>2. call[a].signo \in Signals
    BY <2>1, InsideType DEF InsidePCs
  <2>3. k \in Call /\ k.pc = "handoff" /\ k.signo = call[a].signo
    BY <1>0, PCLiterals DEF Call
  <2> HIDE DEF k
  <2>4. call' \in [Actors -> Call] /\ CallShape'
    BY <1>0, <2>1, <2>2, <2>3, RaiseRecord DEF RaisePCs, InsidePCs
  <2> QED
    BY <1>0, <1>7, <1>r, <2>1, <2>4
    DEF DeciderExhausted, IType, TypeOK, installed, handles
<1>8. CASE DeciderClaims(a)
  <2>1. call[a].pc = "decider" /\ RaiseRelease(a) /\ Return(a)
    BY <1>8 DEF DeciderClaims, At
  <2> QED
    BY <1>0, <1>8, <1>r, <2>1, ReturnType
    DEF DeciderClaims, IType, TypeOK, installed, handles
<1>p. ASSUME call[a].pc \in InsidePCs, NEW p \in InsidePCs,
             Step(a, [call[a] EXCEPT !.pc = p])
      PROVE  call' \in [Actors -> Call] /\ CallShape'
  <2> DEFINE k == [call[a] EXCEPT !.pc = p]
  <2>1. /\ call[a].signo \in Signals /\ call[a].item \in Containers
        /\ call[a].current \in Nodes
    BY <1>p, InsideType
  <2>2. p \in PCs
    BY PCLiterals DEF InsidePCs
  <2>3. /\ k \in Call /\ k.pc = p /\ k.signo = call[a].signo
        /\ k.item = call[a].item /\ k.current = call[a].current
    BY <1>0, <2>2 DEF Call
  <2>4. Step(a, k)
    BY <1>p
  <2> HIDE DEF k
  <2> QED
    BY <1>0, <2>1, <2>3, <2>4, RaiseRecord DEF RaisePCs
<1>i. ASSUME call[a].pc \in InsidePCs, NEW x \in {-1, 1},
             info' = [info EXCEPT ![call[a].item].lifetime_refcount = @ + x],
             node' = [node EXCEPT ![call[a].current].refcount = @ + x]
      PROVE  info' \in [Containers -> SighandlerInfo]
             /\ node' \in [Nodes -> Decider]
  <2> DEFINE c == call[a].item
             n == call[a].current
  <2>1. c \in Containers /\ n \in Nodes
    BY <1>i, InsideType
  <2>2. /\ info' = [info EXCEPT ![c].lifetime_refcount =
                                   info[c].lifetime_refcount + x]
        /\ node' = [node EXCEPT ![n].refcount = node[n].refcount + x]
    BY <1>i
  <2> HIDE DEF c, n
  <2>3. info[c].lifetime_refcount + x \in Int /\ node[n].refcount + x \in Int
    BY <1>0, <2>1, InfoType, NodeType
  <2> QED
    BY <1>0, <2>1, <2>2, <2>3, InfoLists, Literals, NodeType
<1>9. CASE Abandon(a)
  <2>1. /\ call[a].pc \in InsidePCs /\ "abandoned" \in InsidePCs
        /\ Step(a, [call[a] EXCEPT !.pc = "abandoned"])
        /\ info' = [info EXCEPT ![call[a].item].lifetime_refcount = @ - 1]
        /\ node' = [node EXCEPT ![call[a].current].refcount = @ - 1]
    BY <1>9 DEF Abandon, At, InsidePCs
  <2>2. /\ info[call[a].item].lifetime_refcount \in Int
        /\ node[call[a].current].refcount \in Int
    BY <1>0, <2>1, InsideType, InfoType, NodeType
  <2>3. /\ info' = [info EXCEPT ![call[a].item].lifetime_refcount = @ + -1]
        /\ node' = [node EXCEPT ![call[a].current].refcount = @ + -1]
    BY <2>1, <2>2
  <2>4. info' \in [Containers -> SighandlerInfo] /\ node' \in [Nodes -> Decider]
    BY <1>i, <2>1, <2>3
  <2>5. call' \in [Actors -> Call] /\ CallShape'
    BY <1>p, <2>1
  <2> QED
    BY <1>0, <1>9, <2>4, <2>5 DEF Abandon, IType, TypeOK, installed, handles
<1>10. CASE LeaveAbandoned(a)
  <2>1. call' \in [Actors -> Call] /\ CallShape'
    BY <1>0, <1>10, ReturnType DEF LeaveAbandoned
  <2> QED
    BY <1>0, <1>10, <2>1 DEF LeaveAbandoned, IType, TypeOK, registry, handles
<1>11. CASE AbandonResume(a)
  <2>1. /\ call[a].pc \in InsidePCs /\ "resuming" \in InsidePCs
        /\ Step(a, [call[a] EXCEPT !.pc = "resuming"])
    BY <1>11 DEF AbandonResume, At, InsidePCs
  <2>2. call' \in [Actors -> Call] /\ CallShape'
    BY <1>p, <2>1
  <2> QED
    BY <1>0, <1>11, <2>2 DEF AbandonResume, IType, TypeOK, registry, handles
<1>12. CASE AbandonResumeLocked(a)
  <2>1. /\ call[a].pc \in InsidePCs /\ "decider" \in InsidePCs
        /\ Step(a, [call[a] EXCEPT !.pc = "decider"])
        /\ info' = [info EXCEPT ![call[a].item].lifetime_refcount = @ + 1]
        /\ node' = [node EXCEPT ![call[a].current].refcount = @ + 1]
    BY <1>12 DEF AbandonResumeLocked, At, InsidePCs
  <2>2. info' \in [Containers -> SighandlerInfo] /\ node' \in [Nodes -> Decider]
    BY <1>i, <2>1
  <2>3. call' \in [Actors -> Call] /\ CallShape'
    BY <1>p, <2>1
  <2> QED
    BY <1>0, <1>12, <2>2, <2>3
    DEF AbandonResumeLocked, IType, TypeOK, installed, handles
<1> QED
  BY <1>1, <1>2, <1>3, <1>4, <1>5, <1>6, <1>7, <1>8, <1>9, <1>10, <1>11, <1>12
  DEF Raise

(* invoke_sigaction() keeps the types.                                     *)
LEMMA TypeInvoke ==
  ASSUME IType, NEW a \in Actors, Invoke(a)
  PROVE  IType'
<1>0. TypeOK /\ CallShape /\ call[a] \in Call /\ ShapeOf(call[a])
  BY CallType DEF IType, CallShape
<1>k. ASSUME call[a].pc \in RaisePCs,
             NEW p \in {"dfl_set", "dfl_kill", "dfl_restore", "terminated"},
             NEW o \in Dispositions,
             Step(a, [call[a] EXCEPT !.pc = p, !.sa = o])
      PROVE  call' \in [Actors -> Call] /\ CallShape'
  <2> DEFINE k == [call[a] EXCEPT !.pc = p, !.sa = o]
  <2>1. call[a].signo \in Signals
    BY <1>0, <1>k DEF ShapeOf
  <2>2. p \in PCs
    BY PCLiterals
  <2>3. k \in Call /\ k.pc = p /\ k.signo = call[a].signo
    BY <1>0, <2>2 DEF Call
  <2>4. Step(a, k)
    BY <1>k
  <2> HIDE DEF k
  <2> QED
    BY <1>0, <2>1, <2>3, <2>4, RaiseRecord DEF RaisePCs, InsidePCs
<1>s. ASSUME call[a].pc \in RaisePCs,
             NEW p \in {"dfl_set", "dfl_kill", "dfl_restore", "terminated"},
             Step(a, [call[a] EXCEPT !.pc = p])
      PROVE  call' \in [Actors -> Call] /\ CallShape'
  <2>1. [call[a] EXCEPT !.pc = p] = [call[a] EXCEPT !.pc = p, !.sa = call[a].sa]
    BY <1>0 DEF Call
  <2>2. call[a].sa \in Dispositions
    BY <1>0, CallType
  <2> QED
    BY <1>k, <1>s, <2>1, <2>2
<1>d. ASSUME call[a].pc \in RaisePCs, NEW o \in Dispositions
      PROVE  /\ disposition[call[a].signo] \in Dispositions
             /\ [disposition EXCEPT ![call[a].signo] = o]
                   \in [Signals -> Dispositions]
  BY <1>0, <1>d DEF ShapeOf, TypeOK
<1>1. CASE InvokeOther(a)
  <2>1. call' \in [Actors -> Call] /\ CallShape'
    BY <1>0, <1>1, ReturnType DEF InvokeOther
  <2> QED
    BY <1>0, <1>1, <2>1 DEF InvokeOther, IType, TypeOK, registry, handles
<1>2. CASE InvokeRawSignalHandler(a)
  <2> DEFINE s == call[a].signo
             k == [Idle EXCEPT !.pc = "raising", !.signo = s, !.delivered = TRUE]
  <2>1. s \in Signals
    BY <1>0, <1>2 DEF InvokeRawSignalHandler, At, ShapeOf, RaisePCs
  <2>2. Step(a, k)
    BY <1>2 DEF InvokeRawSignalHandler
  <2>3. k \in Call /\ k.pc = "raising" /\ k.signo = s
    BY <2>1, IdleType, PCLiterals DEF Call
  <2> HIDE DEF k
  <2>4. call' \in [Actors -> Call] /\ CallShape'
    BY <1>0, <2>1, <2>2, <2>3, RaiseRecord DEF RaisePCs, InsidePCs
  <2> QED
    BY <1>0, <1>2, <2>4
    DEF InvokeRawSignalHandler, IType, TypeOK, registry, handles
<1>3. CASE InvokeDefault(a)
  <2>1. /\ call[a].pc \in RaisePCs
        /\ Step(a, [call[a] EXCEPT !.pc = "dfl_set",
                                   !.sa = disposition[call[a].signo]])
    BY <1>3 DEF InvokeDefault, At, RaisePCs
  <2>2. disposition[call[a].signo] \in Dispositions
    BY <1>d, <2>1, Literals
  <2>3. call' \in [Actors -> Call] /\ CallShape'
    BY <1>k, <2>1, <2>2
  <2> QED
    BY <1>0, <1>3, <2>3 DEF InvokeDefault, IType, TypeOK, registry, handles
<1>4. CASE DefaultSet(a)
  <2>1. call[a].pc \in RaisePCs /\ Step(a, [call[a] EXCEPT !.pc = "dfl_kill"])
    BY <1>4 DEF DefaultSet, At, RaisePCs
  <2>2. call' \in [Actors -> Call] /\ CallShape'
    BY <1>s, <2>1
  <2>3. disposition' \in [Signals -> Dispositions]
    BY <1>4, <1>d, <2>1, Literals DEF DefaultSet
  <2> QED
    BY <1>0, <1>4, <2>2, <2>3 DEF DefaultSet, IType, TypeOK, handles
<1>5. CASE DefaultKill(a)
  <2>1. /\ call[a].pc \in RaisePCs
        /\ \/ Step(a, [call[a] EXCEPT !.pc = "terminated"])
           \/ Step(a, [call[a] EXCEPT !.pc = "dfl_restore"])
    BY <1>5 DEF DefaultKill, At, RaisePCs
  <2>2. call' \in [Actors -> Call] /\ CallShape'
    BY <1>s, <2>1
  <2> QED
    BY <1>0, <1>5, <2>2 DEF DefaultKill, IType, TypeOK, registry, handles
<1>6. CASE DefaultRestore(a)
  <2>1. call[a].pc \in RaisePCs /\ call[a].sa \in Dispositions
    BY <1>0, <1>6, CallType DEF DefaultRestore, At, RaisePCs
  <2>2. call' \in [Actors -> Call] /\ CallShape'
    BY <1>0, <1>6, ReturnType DEF DefaultRestore
  <2>3. disposition' \in [Signals -> Dispositions]
    BY <1>6, <1>d, <2>1 DEF DefaultRestore
  <2> QED
    BY <1>0, <1>6, <2>2, <2>3 DEF DefaultRestore, IType, TypeOK, handles
<1> QED
  BY <1>1, <1>2, <1>3, <1>4, <1>5, <1>6 DEF Invoke

(* The initial state has the types.                                        *)
LEMMA TypeInit == Init => IType
<1> SUFFICES ASSUME Init PROVE IType
  OBVIOUS
<1>1. info \in [Containers -> SighandlerInfo]
  <2>1. [state |-> "unused", install_count |-> 0, lifetime_refcount |-> 0,
         old_handler |-> "SIG_DFL", global_handler |-> <<>>,
         deferred_frees |-> <<>>] \in SighandlerInfo
    BY Literals DEF SighandlerInfo
  <2> QED
    BY <2>1 DEF Init
<1>2. node \in [Nodes -> Decider]
  BY Literals DEF Init, Decider
<1>3. ihandle \in [InstallHandles -> InstallHandle]
  BY FreedHandleType DEF Init
<1>4. dhandle \in [DeciderHandles -> DeciderHandle]
  BY FreedHandleType DEF Init
<1>5. call \in [Actors -> Call] /\ CallShape
  BY IdleType DEF Init, CallShape
<1>6. disposition \in [Signals -> Dispositions]
  BY DispositionAssumption DEF Init, Dispositions
<1>7. map \in [Signals -> Containers \cup {NULL}] /\ sighandlers_count \in Int
  BY DEF Init
<1> QED
  BY <1>1, <1>2, <1>3, <1>4, <1>5, <1>6, <1>7 DEF IType, TypeOK

(* Every step keeps the types.                                             *)
LEMMA TypeNext == IType /\ [Next]_vars => IType'
<1>1. ASSUME IType, UNCHANGED vars PROVE IType'
  BY <1>1 DEF vars, IType, TypeOK, CallShape
<1> QED
  BY <1>1, TypeInstall, TypeDeciders, TypeRaise, TypeInvoke DEF Next

(* Every variable keeps its C type, every loop has a signal to visit and   *)
(* the handle it works on, and a raise inside, or abandoned by, a decider  *)
(* keeps its container and node pointers, in every behaviour of the        *)
(* registry.                                                               *)
THEOREM TypeCorrect == Spec => [](TypeOK /\ CallShape)
  BY TypeInit, TypeNext, PTL DEF Spec, IType

-----------------------------------------------------------------------------
(* The lifetime of the sighandler_info containers, for every client        *)
(* discipline and with abandoning deciders: lifetime_refcount is exact,    *)
(* and no container is freed under the map or under a raise that is inside *)
(* a decider.                                                              *)

(* Two signals never share a container.                                    *)
MapInjective ==
  \A s, t \in Signals : map[s] = map[t] /\ map[s] # NULL => s = t

(* The container of a raise has been allocated, abandoned raises included. *)
Opened == \A a \in Actors : call[a].pc \in InsidePCs =>
            info[call[a].item].state # "unused"

(* The inductive invariant.                                                *)
Lifetime == /\ IType /\ MapInjective /\ Opened
            /\ LiveWhileHeld /\ LifetimeAccounting

-----------------------------------------------------------------------------
(* Actor a takes a step that leaves it outside every decider.              *)
Quiet(a) == /\ \A b \in Actors \ {a} : call'[b] = call[b]
            /\ call'[a].pc \notin InsidePCs

(* What a change of info does not touch.                                   *)
SameCounts(infos) ==
  \A c \in Containers : infos[c].state = info[c].state
    /\ infos[c].lifetime_refcount = info[c].lifetime_refcount

(* A step to a control point outside the deciders is quiet.                *)
LEMMA StepQuiet ==
  ASSUME TypeOK, NEW a \in Actors, NEW k, Step(a, k), k.pc \notin InsidePCs
  PROVE  Quiet(a)
  BY DEF TypeOK, Step, Quiet

(* Returning from the library is quiet.                                    *)
LEMMA ReturnQuiet ==
  ASSUME TypeOK, NEW a \in Actors, Return(a)
  PROVE  Quiet(a)
  BY StepQuiet, IdleType DEF Return, InsidePCs

(* The end of every loop iteration leaves the actor outside a decider.     *)
LEMMA DoneQuiet ==
  ASSUME TypeOK, NEW a \in Actors, call[a].pc \notin InsidePCs,
         \/ InstallDone(a) \/ Rollback(a) \/ UninstallDone(a) \/ SlotDone(a)
         \/ \E p : CreateSlot(a, p)
  PROVE  Quiet(a)
<1>1. call[a] \in Call
  BY CallType
<1>2. ASSUME NEW T, Step(a, [call[a] EXCEPT !.todo = T]) PROVE Quiet(a)
  <2>1. [call[a] EXCEPT !.todo = T].pc = call[a].pc
    BY <1>1 DEF Call
  <2> QED
    BY <1>2, <2>1, StepQuiet
<1>3. ASSUME NEW T, Step(a, [call[a] EXCEPT !.pc = "rollback", !.todo = T])
      PROVE  Quiet(a)
  <2>1. [call[a] EXCEPT !.pc = "rollback", !.todo = T].pc = "rollback"
    BY <1>1 DEF Call
  <2> QED
    BY <1>3, <2>1, StepQuiet DEF InsidePCs
<1>4. ASSUME NEW T, Step(a, [call[a] EXCEPT !.pc = "destroying", !.todo = T,
                                            !.current = NULL])
      PROVE  Quiet(a)
  <2>1. [call[a] EXCEPT !.pc = "destroying", !.todo = T, !.current = NULL].pc
          = "destroying"
    BY <1>1 DEF Call
  <2> QED
    BY <1>4, <2>1, StepQuiet DEF InsidePCs
<1> QED
  BY <1>2, <1>3, <1>4, ReturnQuiet
  DEF InstallDone, Rollback, UninstallDone, SlotDone, CreateSlot

-----------------------------------------------------------------------------
(* The holders of a container after a quiet step.                          *)
LEMMA HoldersQuiet ==
  ASSUME TypeOK, NEW a \in Actors, Quiet(a), NEW c
  PROVE  /\ Holders(c)' = Holders(c) \ {a}
         /\ call[a].pc # "decider" => Holders(c)' = Holders(c)
  BY DEF Quiet, Holders, InsidePCs

(* Finitely many raises hold a container.                                  *)
LEMMA HoldersFinite ==
  ASSUME NEW c
  PROVE  /\ IsFiniteSet(Holders(c)) /\ Cardinality(Holders(c)) \in Nat
         /\ Cardinality(Holders(c)) = 0 => Holders(c) = {}
<1>1. Holders(c) \subseteq Actors
  BY DEF Holders
<1>2. IsFiniteSet(Holders(c))
  BY <1>1, ActorsAssumption, FS_Subset
<1> QED
  BY <1>2, FS_CardinalityType, FS_EmptySet

(* A step that leaves the map and the counts alone, and keeps its actor    *)
(* outside every decider, keeps the invariant.                             *)
LEMMA QuietFrame ==
  ASSUME Lifetime, IType', NEW a \in Actors, Quiet(a), call[a].pc # "decider",
         map' = map, SameCounts(info')
  PROVE  Lifetime'
<1>1. TypeOK
  BY DEF Lifetime, IType
<1>2. \A c \in Containers : Holders(c)' = Holders(c) /\ InMap(c)' = InMap(c)
  BY <1>1, HoldersQuiet DEF InMap
<1>3. MapInjective'
  BY DEF Lifetime, MapInjective
<1>4. ASSUME NEW b \in Actors, call'[b].pc \in InsidePCs
      PROVE  /\ call'[b] = call[b] /\ call[b].item \in Containers
             /\ info'[call[b].item].state = info[call[b].item].state
  <2>1. call'[b] = call[b]
    BY <1>4 DEF Quiet
  <2>2. call[b].item \in Containers
    BY <1>4, <2>1 DEF Lifetime, IType, CallShape, ShapeOf
  <2> QED
    BY <2>1, <2>2 DEF SameCounts
<1>5. Opened'
  BY <1>4 DEF Lifetime, Opened
<1>6. LiveWhileHeld'
  <2>1. ASSUME NEW s \in Signals, map[s] # NULL PROVE info'[map[s]].state = "live"
    BY <1>1, <2>1 DEF Lifetime, LiveWhileHeld, SameCounts, TypeOK
  <2>2. ASSUME NEW b \in Actors, call'[b].pc = "decider"
        PROVE  info'[call'[b].item].state = "live"
    BY <1>4, <2>2 DEF Lifetime, LiveWhileHeld, InsidePCs
  <2> QED
    BY <2>1, <2>2 DEF LiveWhileHeld
<1>7. LifetimeAccounting'
  BY <1>2 DEF Lifetime, LifetimeAccounting, SameCounts
<1> QED
  BY <1>3, <1>5, <1>6, <1>7 DEF Lifetime

-----------------------------------------------------------------------------
(* sighandler_info_release() and the counts.                               *)
LEMMA ReleaseCounts ==
  ASSUME NEW infos \in [Containers -> SighandlerInfo], NEW c \in Containers
  PROVE  /\ \A d \in Containers : d # c => Release(infos, c)[d] = infos[d]
         /\ Release(infos, c)[c].lifetime_refcount
              = infos[c].lifetime_refcount - 1
         /\ Release(infos, c)[c].state =
              IF infos[c].lifetime_refcount = 1 THEN "freed" ELSE infos[c].state
<1>1. infos[c] \in SighandlerInfo
  OBVIOUS
<1>2. CASE infos[c].lifetime_refcount = 1
  <2> DEFINE r == [infos[c] EXCEPT !.lifetime_refcount = 0, !.state = "freed",
                       !.global_handler = <<>>, !.deferred_frees = <<>>]
  <2>1. r.lifetime_refcount = 0 /\ r.state = "freed"
    BY <1>1 DEF SighandlerInfo
  <2>2. Release(infos, c) = [infos EXCEPT ![c] = r]
    BY <1>2 DEF Release
  <2> HIDE DEF r
  <2> QED
    BY <1>2, <2>1, <2>2
<1>3. CASE infos[c].lifetime_refcount # 1
  <2> DEFINE x == infos[c].lifetime_refcount - 1
             r == [infos[c] EXCEPT !.lifetime_refcount = x]
  <2>1. r.lifetime_refcount = x /\ r.state = infos[c].state
    BY <1>1 DEF SighandlerInfo
  <2>2. Release(infos, c) = [infos EXCEPT ![c] = r]
    BY <1>3 DEF Release
  <2> HIDE DEF r
  <2> QED
    BY <1>3, <2>1, <2>2
<1> QED
  BY <1>2, <1>3

(* Dropping a reference keeps the invariant, whether it is the map's or    *)
(* that of the raise that drops it.                                        *)
LEMMA ReleaseFrame ==
  ASSUME Lifetime, IType', NEW a \in Actors, Quiet(a), NEW c \in Containers,
         NEW infos \in [Containers -> SighandlerInfo], SameCounts(infos),
         info' = Release(infos, c),
         \/ call[a].pc = "decider" /\ call[a].item = c /\ map' = map
         \/ /\ call[a].pc # "decider"
            /\ \E s \in Signals : map[s] = c /\ map' = [map EXCEPT ![s] = NULL]
  PROVE  Lifetime'
<1> DEFINE m(d) == IF InMap(d) THEN 1 ELSE 0
<1>0. TypeOK /\ CallShape /\ c # NULL /\ info \in [Containers -> SighandlerInfo]
  BY NullAssumption DEF Lifetime, IType, TypeOK
<1>1. info[c].state = "live"
  BY <1>0 DEF Lifetime, LiveWhileHeld
<1>2. /\ info[c].lifetime_refcount = Cardinality(Holders(c)) + m(c)
      /\ info[c].lifetime_refcount \in Int
  BY <1>0, <1>1, InfoType DEF Lifetime, LifetimeAccounting
<1>3. /\ \A d \in Containers : d # c =>
           /\ info'[d].state = info[d].state
           /\ info'[d].lifetime_refcount = info[d].lifetime_refcount
      /\ info'[c].lifetime_refcount = info[c].lifetime_refcount - 1
      /\ info'[c].state =
           IF info[c].lifetime_refcount = 1 THEN "freed" ELSE "live"
  BY <1>1, ReleaseCounts DEF SameCounts
<1>4. /\ Cardinality(Holders(c)') + (IF InMap(c)' THEN 1 ELSE 0)
           = info[c].lifetime_refcount - 1
      /\ \A d \in Containers : d # c =>
           Holders(d)' = Holders(d) /\ InMap(d)' = InMap(d)
      /\ MapInjective'
  <2>1. CASE call[a].pc = "decider" /\ call[a].item = c /\ map' = map
    <3>1. a \in Holders(c) /\ Holders(c)' = Holders(c) \ {a}
      BY <1>0, <2>1, HoldersQuiet DEF Holders
    <3>2. /\ Cardinality(Holders(c)') = Cardinality(Holders(c)) - 1
          /\ Cardinality(Holders(c)) \in Nat
      BY <3>1, HoldersFinite, FS_RemoveElement
    <3>3. \A d : InMap(d)' = InMap(d)
      BY <2>1 DEF InMap
    <3>4. \A d \in Containers : d # c => Holders(d)' = Holders(d)
      BY <1>0, <2>1, HoldersQuiet DEF Holders
    <3>5. MapInjective'
      BY <2>1 DEF Lifetime, MapInjective
    <3> QED
      BY <1>2, <3>2, <3>3, <3>4, <3>5
  <2>2. CASE /\ call[a].pc # "decider"
             /\ \E s \in Signals : map[s] = c /\ map' = [map EXCEPT ![s] = NULL]
    <3>1. PICK s \in Signals : map[s] = c /\ map' = [map EXCEPT ![s] = NULL]
      BY <2>2
    <3>2. \A d : Holders(d)' = Holders(d)
      BY <1>0, <2>2, HoldersQuiet
    <3>3. \A t \in Signals : map'[t] = IF t = s THEN NULL ELSE map[t]
      BY <1>0, <3>1 DEF TypeOK
    <3>4. InMap(c) /\ ~InMap(c)'
      BY <1>0, <3>1, <3>3 DEF InMap, Lifetime, MapInjective
    <3>5. \A d \in Containers : d # c => InMap(d)' = InMap(d)
      BY <1>0, <3>1, <3>3, NullAssumption DEF InMap
    <3>6. MapInjective'
      BY <3>3 DEF Lifetime, MapInjective
    <3>7. Cardinality(Holders(c)) \in Nat
      BY HoldersFinite
    <3> QED
      BY <1>2, <3>2, <3>4, <3>5, <3>6, <3>7
  <2> QED
    BY <2>1, <2>2
<1>5. Cardinality(Holders(c)') \in Nat
      /\ (Cardinality(Holders(c)') = 0 => Holders(c)' = {})
  <2>1. Holders(c)' \subseteq Actors
    BY DEF Holders
  <2> QED
    BY <2>1, ActorsAssumption, FS_Subset, FS_CardinalityType, FS_EmptySet
<1>6. info[c].lifetime_refcount = 1 => Holders(c)' = {} /\ ~InMap(c)'
  BY <1>2, <1>4, <1>5
<1>7. ASSUME NEW b \in Actors, call'[b].pc \in InsidePCs
      PROVE  /\ call'[b] = call[b] /\ call[b].item \in Containers
             /\ info[call[b].item].state # "unused"
  <2>1. call'[b] = call[b]
    BY <1>7 DEF Quiet
  <2> QED
    BY <1>0, <1>7, <2>1 DEF CallShape, ShapeOf, Lifetime, Opened
<1>8. Opened'
  BY <1>3, <1>7 DEF Opened
<1>9. LiveWhileHeld'
  <2>1. ASSUME NEW t \in Signals, map'[t] # NULL
        PROVE  info'[map'[t]].state = "live"
    <3>1. map'[t] = map[t] /\ map[t] \in Containers /\ info[map[t]].state = "live"
      BY <1>0, <2>1 DEF Lifetime, LiveWhileHeld, TypeOK
    <3>2. map'[t] = c => InMap(c)'
      BY DEF InMap
    <3> QED
      BY <1>3, <1>6, <3>1, <3>2
  <2>2. ASSUME NEW b \in Actors, call'[b].pc = "decider"
        PROVE  info'[call'[b].item].state = "live"
    <3>1. /\ call'[b] = call[b] /\ call[b].item \in Containers
          /\ info[call[b].item].state = "live"
      BY <1>7, <2>2 DEF Lifetime, LiveWhileHeld, InsidePCs
    <3>2. call'[b].item = c => b \in Holders(c)'
      BY <2>2 DEF Holders
    <3> QED
      BY <1>3, <1>6, <3>1, <3>2
  <2> QED
    BY <2>1, <2>2 DEF LiveWhileHeld
<1>10. LifetimeAccounting'
  <2>1. ASSUME NEW d \in Containers, info'[d].state = "live"
        PROVE  info'[d].lifetime_refcount =
                 Cardinality(Holders(d)') + (IF InMap(d)' THEN 1 ELSE 0)
    <3>1. CASE d = c
      BY <1>3, <1>4, <3>1
    <3>2. CASE d # c
      BY <1>3, <1>4, <2>1, <3>2 DEF Lifetime, LifetimeAccounting
    <3> QED
      BY <3>1, <3>2
  <2> QED
    BY <2>1 DEF LifetimeAccounting
<1> QED
  BY <1>4, <1>8, <1>9, <1>10 DEF Lifetime

-----------------------------------------------------------------------------
(* The changes of info that leave the counts alone.                        *)
LEMMA UnpinnedCounts ==
  ASSUME IType, NEW a \in Actors, call[a].pc \in InsidePCs
  PROVE  SameCounts(UnpinnedInfo(a))
<1>1. /\ call[a].item \in Containers
      /\ info \in [Containers -> SighandlerInfo]
  BY InsideType DEF IType, TypeOK
<1>2. ASSUME NEW r \in SighandlerInfo, NEW g, NEW d
      PROVE  LET q == [r EXCEPT !.global_handler = g, !.deferred_frees = d]
             IN  q.state = r.state /\ q.lifetime_refcount = r.lifetime_refcount
  BY DEF SighandlerInfo
<1> QED
  BY <1>1, <1>2 DEF UnpinnedInfo, SameCounts

(* Draining deferred_frees touches no lifetime.                            *)
LEMMA UninstalledCounts ==
  ASSUME TypeOK, NEW c \in Containers
  PROVE  SameCounts(Uninstalled(c))
<1>1. ASSUME NEW r \in SighandlerInfo, NEW x, NEW d
      PROVE  LET q == [r EXCEPT !.install_count = x, !.deferred_frees = d]
             IN  q.state = r.state /\ q.lifetime_refcount = r.lifetime_refcount
  BY DEF SighandlerInfo
<1>2. info \in [Containers -> SighandlerInfo]
  BY DEF TypeOK
<1> QED
  BY <1>1, <1>2 DEF Uninstalled, SameCounts

(* siginstall() and siguninstall().                                        *)
LEMMA LifetimeInstall ==
  ASSUME Lifetime, IType', NEW a \in Actors, Install(a)
  PROVE  Lifetime'
<1>0. /\ IType /\ TypeOK /\ CallShape /\ call[a] \in Call
      /\ info \in [Containers -> SighandlerInfo]
      /\ map \in [Signals -> Containers \cup {NULL}]
  BY CallType DEF Lifetime, IType, TypeOK
<1>u. info' = info => SameCounts(info')
  BY DEF SameCounts
<1>s. ASSUME call[a].pc \in InstallPCs
      PROVE  Signo(a) \in Signals /\ map[Signo(a)] \in Containers \cup {NULL}
  BY <1>0, <1>s, SignoType
<1>1. CASE Siginstall(a)
  <2>1. PICK h, S : Step(a, [Idle EXCEPT !.pc = "installing", !.todo = S, !.h = h])
    BY <1>1 DEF Siginstall
  <2>2. [Idle EXCEPT !.pc = "installing", !.todo = S, !.h = h].pc = "installing"
    BY IdleType DEF Call
  <2>3. Quiet(a)
    BY <1>0, <2>1, <2>2, StepQuiet DEF InsidePCs
  <2> QED
    BY <1>1, <1>u, <2>3, QuietFrame DEF Siginstall, At, registry
<1>2. CASE InstallFirst(a)
  <2>1. call[a].pc = "installing" /\ Quiet(a)
    BY <1>0, <1>2, DoneQuiet DEF InstallFirst, At, InsidePCs
  <2> DEFINE s == Signo(a)
  <2>2. s \in Signals /\ map[s] = NULL
    BY <1>2, <1>s, <2>1 DEF InstallFirst, InstallPCs
  <2>3. PICK c \in Containers :
          /\ info[c].state = "unused"
          /\ info' = [info EXCEPT ![c] =
               [state |-> "live", install_count |-> 1, lifetime_refcount |-> 1,
                old_handler |-> disposition[s],
                global_handler |-> <<>>, deferred_frees |-> <<>>]]
          /\ map' = [map EXCEPT ![s] = c]
    BY <1>2 DEF InstallFirst
  <2> HIDE DEF s
  <2>4. /\ info'[c].state = "live" /\ info'[c].lifetime_refcount = 1
        /\ \A d \in Containers : d # c => info'[d] = info[d]
    BY <1>0, <2>3
  <2>5. \A t \in Signals : map'[t] = IF t = s THEN c ELSE map[t]
    BY <1>0, <2>3
  <2>6. \A d : Holders(d)' = Holders(d)
    BY <1>0, <2>1, HoldersQuiet
  <2>7. Holders(c) = {} /\ ~InMap(c) /\ c # NULL
    BY <2>3, NullAssumption DEF Holders, InMap, Lifetime, LiveWhileHeld
  <2>8. InMap(c)' /\ \A d \in Containers : d # c => InMap(d)' = InMap(d)
    BY <2>2, <2>5, NullAssumption DEF InMap
  <2>9. MapInjective'
    BY <2>5, <2>7 DEF Lifetime, MapInjective, InMap
  <2>10. ASSUME NEW b \in Actors, call'[b].pc \in InsidePCs
         PROVE  /\ call'[b] = call[b] /\ call[b].item \in Containers
                /\ info'[call'[b].item] = info[call[b].item]
    <3>1. call'[b] = call[b]
      BY <2>1, <2>10 DEF Quiet
    <3>2. call[b].item \in Containers /\ info[call[b].item].state # "unused"
      BY <1>0, <2>10, <3>1 DEF CallShape, ShapeOf, Lifetime, Opened
    <3> QED
      BY <2>3, <2>4, <3>1, <3>2
  <2>11. Opened'
    BY <2>10 DEF Opened, Lifetime
  <2>12. LiveWhileHeld'
    <3>1. ASSUME NEW t \in Signals, map'[t] # NULL
          PROVE  info'[map'[t]].state = "live"
      <4>1. CASE t = s
        BY <2>4, <2>5, <4>1
      <4>2. CASE t # s
        <5>1. /\ map'[t] = map[t] /\ map[t] \in Containers
              /\ info[map[t]].state = "live"
          BY <1>0, <2>5, <3>1, <4>2 DEF Lifetime, LiveWhileHeld
        <5> QED
          BY <2>4, <5>1
      <4> QED
        BY <4>1, <4>2
    <3>2. ASSUME NEW b \in Actors, call'[b].pc = "decider"
          PROVE  info'[call'[b].item].state = "live"
      BY <2>10, <3>2 DEF Lifetime, LiveWhileHeld, InsidePCs
    <3> QED
      BY <3>1, <3>2 DEF LiveWhileHeld
  <2>13. LifetimeAccounting'
    <3>1. Cardinality(Holders(c)') = 0
      BY <2>6, <2>7, FS_EmptySet
    <3>2. ASSUME NEW d \in Containers, info'[d].state = "live"
          PROVE  info'[d].lifetime_refcount =
                   Cardinality(Holders(d)') + (IF InMap(d)' THEN 1 ELSE 0)
      <4>1. CASE d = c
        BY <2>4, <2>8, <3>1, <4>1
      <4>2. CASE d # c
        BY <2>4, <2>6, <2>8, <3>2, <4>2 DEF Lifetime, LifetimeAccounting
      <4> QED
        BY <4>1, <4>2
    <3> QED
      BY <3>2 DEF LifetimeAccounting
  <2> QED
    BY <2>9, <2>11, <2>12, <2>13 DEF Lifetime
<1>3. CASE InstallAgain(a)
  <2> DEFINE c == map[Signo(a)]
  <2>1. call[a].pc = "installing" /\ Quiet(a)
    BY <1>0, <1>3, DoneQuiet DEF InstallAgain, At, InsidePCs
  <2>2. c \in Containers
    BY <1>3, <1>s, <2>1 DEF InstallAgain, InstallPCs
  <2>3. info' = [info EXCEPT ![c].install_count = info[c].install_count + 1]
        /\ map' = map
    BY <1>3 DEF InstallAgain
  <2> HIDE DEF c
  <2>4. ASSUME NEW r \in SighandlerInfo, NEW x
        PROVE  LET q == [r EXCEPT !.install_count = x]
               IN  q.state = r.state /\ q.lifetime_refcount = r.lifetime_refcount
    BY DEF SighandlerInfo
  <2>5. SameCounts(info')
    BY <1>0, <2>2, <2>3, <2>4 DEF SameCounts
  <2> QED
    BY <2>1, <2>3, <2>5, QuietFrame
<1>4. CASE InstallFails(a)
  <2>1. call[a].pc = "installing" /\ Quiet(a)
    BY <1>0, <1>4, DoneQuiet DEF InstallFails, At, InsidePCs
  <2> QED
    BY <1>4, <1>u, <2>1, QuietFrame DEF InstallFails, registry
<1>5. CASE InstallTssFails(a)
  <2>1. call[a].pc = "installing" /\ Quiet(a) /\ map' = map
    BY <1>0, <1>5, DoneQuiet DEF InstallTssFails, At, InsidePCs, installed
  <2>2. PICK c \in Containers : /\ info[c].state = "unused"
                                /\ info' = [info EXCEPT ![c].state = "freed"]
    BY <1>5 DEF InstallTssFails
  <2>3. \A d \in Containers : info[d].state # "unused" => info'[d] = info[d]
    BY <1>0, <2>2
  <2>4. info'[c].state = "freed" /\ \A d \in Containers : d # c => info'[d] = info[d]
    <3>1. info[c] \in SighandlerInfo
      BY <1>0
    <3>2. [info[c] EXCEPT !.state = "freed"].state = "freed"
      BY <3>1 DEF SighandlerInfo
    <3> QED
      BY <1>0, <2>2, <3>2
  <2>5. \A d \in Containers : Holders(d)' = Holders(d) /\ InMap(d)' = InMap(d)
    BY <1>0, <2>1, HoldersQuiet DEF InMap
  <2>6. ASSUME NEW b \in Actors, call'[b].pc \in InsidePCs
        PROVE  /\ call'[b] = call[b] /\ info'[call'[b].item] = info[call[b].item]
               /\ info[call[b].item].state # "unused"
    <3>1. call'[b] = call[b]
      BY <2>1, <2>6 DEF Quiet
    <3>2. call[b].item \in Containers /\ info[call[b].item].state # "unused"
      BY <1>0, <2>6, <3>1 DEF CallShape, ShapeOf, Lifetime, Opened
    <3> QED
      BY <2>3, <3>1, <3>2
  <2>7. Opened'
    BY <2>6 DEF Opened
  <2>8. LiveWhileHeld'
    <3>1. ASSUME NEW t \in Signals, map[t] # NULL
          PROVE  info'[map[t]].state = "live"
      <4>1. map[t] \in Containers /\ info[map[t]].state = "live"
        BY <1>0, <3>1 DEF Lifetime, LiveWhileHeld
      <4> QED
        BY <2>3, <4>1
    <3>2. ASSUME NEW b \in Actors, call'[b].pc = "decider"
          PROVE  info'[call'[b].item].state = "live"
      BY <2>6, <3>2 DEF Lifetime, LiveWhileHeld, InsidePCs
    <3> QED
      BY <2>1, <3>1, <3>2 DEF LiveWhileHeld
  <2>9. LifetimeAccounting'
    BY <2>4, <2>5 DEF Lifetime, LifetimeAccounting
  <2>10. MapInjective'
    BY <2>1 DEF Lifetime, MapInjective
  <2> QED
    BY <2>7, <2>8, <2>9, <2>10 DEF Lifetime
<1>6. CASE Siguninstall(a)
  <2>1. PICK h, S : Step(a, [Idle EXCEPT !.pc = "uninstalling", !.todo = S,
                                         !.h = h])
    BY <1>6 DEF Siguninstall
  <2>2. [Idle EXCEPT !.pc = "uninstalling", !.todo = S, !.h = h].pc
          = "uninstalling"
    BY IdleType DEF Call
  <2>3. Quiet(a)
    BY <1>0, <2>1, <2>2, StepQuiet DEF InsidePCs
  <2> QED
    BY <1>6, <1>u, <2>3, QuietFrame DEF Siguninstall, At, registry
<1>7. CASE UninstallSighandler(a)
  <2> DEFINE s == Signo(a)
             c == map[s]
  <2>1. call[a].pc \in {"uninstalling", "rollback"} /\ UninstallDone(a)
    BY <1>7 DEF UninstallSighandler, At
  <2>2. call[a].pc # "decider" /\ Quiet(a)
    BY <1>0, <2>1, DoneQuiet DEF InsidePCs
  <2>3. s \in Signals /\ c \in Containers \cup {NULL}
    BY <1>s, <2>1 DEF InstallPCs
  <2>4. CASE c = NULL
    BY <1>7, <1>u, <2>2, <2>4, QuietFrame DEF UninstallSighandler, registry
  <2>5. CASE c # NULL /\ info[c].install_count # 1
    <3>1. info' = Uninstalled(c) /\ map' = map
      BY <1>7, <2>5 DEF UninstallSighandler
    <3> QED
      BY <1>0, <2>2, <2>3, <2>5, <3>1, UninstalledCounts, QuietFrame
  <2>6. CASE c # NULL /\ info[c].install_count = 1
    <3>1. info' = Release(Uninstalled(c), c) /\ map' = [map EXCEPT ![s] = NULL]
      BY <1>7, <2>6 DEF UninstallSighandler
    <3>2. c \in Containers
      BY <2>3, <2>6
    <3>3. /\ Uninstalled(c) \in [Containers -> SighandlerInfo]
          /\ SameCounts(Uninstalled(c))
      BY <1>0, <3>2, UninstalledType, UninstalledCounts
    <3>4. \E t \in Signals : map[t] = c /\ map' = [map EXCEPT ![t] = NULL]
      BY <2>3, <3>1
    <3> HIDE DEF c, s
    <3> QED
      BY <2>2, <3>1, <3>2, <3>3, <3>4, ReleaseFrame
  <2> QED
    BY <2>4, <2>5, <2>6
<1> QED
  BY <1>1, <1>2, <1>3, <1>4, <1>5, <1>6, <1>7 DEF Install

(* signal_decider_create() and signal_decider_destroy() touch neither the  *)
(* map nor a count of a container.                                         *)
LEMMA LifetimeDeciders ==
  ASSUME Lifetime, IType', NEW a \in Actors, Deciders(a)
  PROVE  Lifetime'
<1>0. /\ IType /\ TypeOK /\ call[a] \in Call
      /\ info \in [Containers -> SighandlerInfo]
      /\ map \in [Signals -> Containers \cup {NULL}]
  BY CallType DEF Lifetime, IType, TypeOK
<1>s. ASSUME call[a].pc \in DeciderPCs
      PROVE  Signo(a) \in Signals /\ map[Signo(a)] \in Containers \cup {NULL}
  BY <1>0, <1>s, SignoType
<1>u. info' = info => SameCounts(info')
  BY DEF SameCounts
<1>q. ASSUME map' = map, SameCounts(info'), call[a].pc # "decider", Quiet(a)
      PROVE  Lifetime'
  BY <1>q, QuietFrame
<1>1. CASE SignalDeciderCreate(a)
  <2>1. PICK h, S : Step(a, [Idle EXCEPT !.pc = "creating", !.todo = S, !.h = h])
    BY <1>1 DEF SignalDeciderCreate
  <2>2. [Idle EXCEPT !.pc = "creating", !.todo = S, !.h = h].pc = "creating"
    BY IdleType DEF Call
  <2>3. Quiet(a)
    BY <1>0, <2>1, <2>2, StepQuiet DEF InsidePCs
  <2> QED
    BY <1>1, <1>q, <1>u, <2>3 DEF SignalDeciderCreate, At, registry
<1>2. CASE CreateUninstalled(a)
  <2>1. call[a].pc = "creating" /\ Quiet(a)
    BY <1>0, <1>2, DoneQuiet DEF CreateUninstalled, At, InsidePCs
  <2> QED
    BY <1>2, <1>q, <1>u, <2>1 DEF CreateUninstalled, registry
<1>3. CASE CreateNode(a)
  <2> DEFINE c == map[Signo(a)]
  <2>1. call[a].pc = "creating" /\ Quiet(a)
    BY <1>0, <1>3, DoneQuiet DEF CreateNode, At, InsidePCs
  <2>2. c \in Containers /\ map' = map
    BY <1>3, <1>s, <2>1 DEF CreateNode, DeciderPCs, installed
  <2>3. PICK g : info' = [info EXCEPT ![c].global_handler = g]
    BY <1>3 DEF CreateNode
  <2> HIDE DEF c
  <2>4. ASSUME NEW r \in SighandlerInfo
        PROVE  LET q == [r EXCEPT !.global_handler = g]
               IN  q.state = r.state /\ q.lifetime_refcount = r.lifetime_refcount
    BY DEF SighandlerInfo
  <2>5. SameCounts(info')
    BY <1>0, <2>2, <2>3, <2>4 DEF SameCounts
  <2> QED
    BY <1>q, <2>1, <2>2, <2>5
<1>4. CASE CreateFails(a)
  <2>1. /\ call[a].pc = "creating"
        /\ Step(a, [call[a] EXCEPT !.pc = "destroying", !.todo = Signals])
    BY <1>4 DEF CreateFails, At
  <2>2. [call[a] EXCEPT !.pc = "destroying", !.todo = Signals].pc = "destroying"
    BY <1>0 DEF Call
  <2>3. Quiet(a)
    BY <1>0, <2>1, <2>2, StepQuiet DEF InsidePCs
  <2> QED
    BY <1>4, <1>q, <1>u, <2>1, <2>3 DEF CreateFails, registry
<1>5. CASE SignalDeciderDestroy(a)
  <2>1. PICK h : Step(a, [Idle EXCEPT !.pc = "destroying", !.todo = Signals,
                                      !.h = h])
    BY <1>5 DEF SignalDeciderDestroy
  <2>2. [Idle EXCEPT !.pc = "destroying", !.todo = Signals, !.h = h].pc
          = "destroying"
    BY IdleType DEF Call
  <2>3. Quiet(a)
    BY <1>0, <2>1, <2>2, StepQuiet DEF InsidePCs
  <2> QED
    BY <1>5, <1>q, <1>u, <2>3 DEF SignalDeciderDestroy, At, registry
<1>6. CASE DestroyLocked(a)
  <2> DEFINE c == map[Signo(a)]
  <2>1. call[a].pc = "destroying" /\ Quiet(a)
    BY <1>0, <1>6, DoneQuiet DEF DestroyLocked, At, InsidePCs
  <2>2. c \in Containers /\ map' = map
    BY <1>6, <1>s, <2>1 DEF DestroyLocked, DeciderPCs, installed
  <2>3. PICK g : info' = [info EXCEPT ![c] = [@ EXCEPT !.deferred_frees = <<>>,
                                                      !.global_handler = g]]
    BY <1>6 DEF DestroyLocked
  <2> HIDE DEF c
  <2>4. ASSUME NEW r \in SighandlerInfo
        PROVE  LET q == [r EXCEPT !.deferred_frees = <<>>, !.global_handler = g]
               IN  q.state = r.state /\ q.lifetime_refcount = r.lifetime_refcount
    BY DEF SighandlerInfo
  <2>5. SameCounts(info')
    BY <1>0, <2>2, <2>3, <2>4 DEF SameCounts
  <2> QED
    BY <1>q, <2>1, <2>2, <2>5
<1>7. CASE DestroyUninstalled(a)
  <2>1. call[a].pc = "destroying"
    BY <1>7 DEF DestroyUninstalled, At
  <2>2. SlotDone(a) \/ Step(a, [call[a] EXCEPT !.pc = "orphan_load",
                                               !.current = Slot(a)])
    BY <1>7 DEF DestroyUninstalled
  <2>3. [call[a] EXCEPT !.pc = "orphan_load", !.current = Slot(a)].pc
          = "orphan_load"
    BY <1>0 DEF Call
  <2>4. Quiet(a)
    BY <1>0, <2>1, <2>2, <2>3, StepQuiet, DoneQuiet DEF InsidePCs
  <2> QED
    BY <1>7, <1>q, <1>u, <2>1, <2>4 DEF DestroyUninstalled, registry
<1>8. CASE OrphanLoad(a)
  <2>1. PICK x : Step(a, [call[a] EXCEPT !.pc = "orphan_store", !.reg = x])
    BY <1>8 DEF OrphanLoad
  <2>2. [call[a] EXCEPT !.pc = "orphan_store", !.reg = x].pc = "orphan_store"
    BY <1>0 DEF Call
  <2>3. Quiet(a)
    BY <1>0, <2>1, <2>2, StepQuiet DEF InsidePCs
  <2> QED
    BY <1>8, <1>q, <1>u, <2>3 DEF OrphanLoad, At, registry
<1>9. CASE OrphanStore(a)
  <2>1. call[a].pc = "orphan_store" /\ Quiet(a)
    BY <1>0, <1>9, DoneQuiet DEF OrphanStore, At, InsidePCs
  <2> QED
    BY <1>9, <1>q, <1>u, <2>1 DEF OrphanStore, installed
<1> QED
  BY <1>1, <1>2, <1>3, <1>4, <1>5, <1>6, <1>7, <1>8, <1>9 DEF Deciders

-----------------------------------------------------------------------------
(* A raise counts itself on a live container as it goes into a decider,    *)
(* for the first time or back from an abandoned one.                       *)
LEMMA EnterFrame ==
  ASSUME Lifetime, IType', NEW a \in Actors, NEW c \in Containers,
         call[a].pc # "decider", info[c].state = "live", map' = map,
         \A b \in Actors \ {a} : call'[b] = call[b],
         call'[a].pc = "decider" /\ call'[a].item = c,
         info' = [info EXCEPT ![c].lifetime_refcount =
                                info[c].lifetime_refcount + 1]
  PROVE  Lifetime'
<1>0. TypeOK /\ CallShape /\ info \in [Containers -> SighandlerInfo]
  BY DEF Lifetime, IType, TypeOK
<1>1. ASSUME NEW r \in SighandlerInfo, NEW x
      PROVE  LET q == [r EXCEPT !.lifetime_refcount = x]
             IN  q.state = r.state /\ q.lifetime_refcount = x
  BY DEF SighandlerInfo
<1>2. /\ \A d \in Containers : info'[d].state = info[d].state
      /\ info'[c].lifetime_refcount = info[c].lifetime_refcount + 1
      /\ \A d \in Containers : d # c => info'[d] = info[d]
  BY <1>0, <1>1
<1>3. /\ Holders(c)' = Holders(c) \cup {a} /\ a \notin Holders(c)
      /\ \A d \in Containers : d # c => Holders(d)' = Holders(d)
      /\ \A d : InMap(d)' = InMap(d)
  BY DEF Holders, InMap
<1>4. /\ Cardinality(Holders(c)') = Cardinality(Holders(c)) + 1
      /\ Cardinality(Holders(c)) \in Nat
  BY <1>3, HoldersFinite, FS_AddElement
<1>5. MapInjective'
  BY DEF Lifetime, MapInjective
<1>6. \A b \in Actors : b # a /\ call'[b].pc \in InsidePCs =>
        call'[b] = call[b] /\ call[b].item \in Containers
  BY <1>0 DEF CallShape, ShapeOf
<1>7. Opened'
  BY <1>2, <1>6 DEF Lifetime, Opened
<1>8. LiveWhileHeld'
  <2>1. ASSUME NEW s \in Signals, map[s] # NULL
        PROVE  info'[map[s]].state = "live"
    BY <1>0, <1>2, <2>1 DEF Lifetime, LiveWhileHeld, TypeOK
  <2>2. ASSUME NEW b \in Actors, call'[b].pc = "decider"
        PROVE  info'[call'[b].item].state = "live"
    <3>1. CASE b = a
      BY <1>2, <3>1
    <3>2. CASE b # a
      BY <1>2, <1>6, <2>2, <3>2 DEF Lifetime, LiveWhileHeld, InsidePCs
    <3> QED
      BY <3>1, <3>2
  <2> QED
    BY <2>1, <2>2 DEF LiveWhileHeld
<1>9. LifetimeAccounting'
  <2>1. ASSUME NEW d \in Containers, info'[d].state = "live"
        PROVE  info'[d].lifetime_refcount =
                 Cardinality(Holders(d)') + (IF InMap(d)' THEN 1 ELSE 0)
    <3>1. info[d].state = "live" /\ info[d].lifetime_refcount =
            Cardinality(Holders(d)) + (IF InMap(d) THEN 1 ELSE 0)
      BY <1>2, <2>1 DEF Lifetime, LifetimeAccounting
    <3>2. CASE d = c
      <4>1. InMap(c)' = InMap(c)
        BY <1>3
      <4> QED
        BY <1>2, <1>4, <3>1, <3>2, <4>1
    <3>3. CASE d # c
      BY <1>2, <1>3, <3>1, <3>3
    <3> QED
      BY <3>2, <3>3
  <2> QED
    BY <2>1 DEF LifetimeAccounting
<1> QED
  BY <1>5, <1>7, <1>8, <1>9 DEF Lifetime

(* An actor that stays inside its decider's container, or returns to       *)
(* wanting it, without being counted or uncounted.                         *)
LEMMA InsideFrame ==
  ASSUME Lifetime, IType', NEW a \in Actors, map' = map, SameCounts(info'),
         \A b \in Actors \ {a} : call'[b] = call[b],
         call[a].pc \in InsidePCs, call'[a].item = call[a].item,
         call'[a].pc = "decider" <=> call[a].pc = "decider"
  PROVE  Lifetime'
<1>0. TypeOK /\ CallShape
  BY DEF Lifetime, IType
<1>1. \A c : Holders(c)' = Holders(c) /\ InMap(c)' = InMap(c)
  BY DEF Holders, InMap
<1>2. \A b \in Actors : call'[b].pc \in InsidePCs =>
        /\ call'[b].item = call[b].item /\ call[b].item \in Containers
        /\ call[b].pc \in InsidePCs
        /\ call'[b].pc = "decider" => call[b].pc = "decider"
  BY <1>0 DEF CallShape, ShapeOf
<1>3. Opened'
  BY <1>2 DEF Lifetime, Opened, SameCounts
<1>4. LiveWhileHeld'
  <2>1. ASSUME NEW s \in Signals, map[s] # NULL
        PROVE  info'[map[s]].state = "live"
    BY <1>0, <2>1 DEF Lifetime, LiveWhileHeld, TypeOK, SameCounts
  <2>2. ASSUME NEW b \in Actors, call'[b].pc = "decider"
        PROVE  info'[call'[b].item].state = "live"
    BY <1>2, <2>2 DEF Lifetime, LiveWhileHeld, SameCounts, InsidePCs
  <2> QED
    BY <2>1, <2>2 DEF LiveWhileHeld
<1>5. LifetimeAccounting'
  BY <1>1 DEF Lifetime, LifetimeAccounting, SameCounts
<1>6. MapInjective'
  BY DEF Lifetime, MapInjective
<1> QED
  BY <1>3, <1>4, <1>5, <1>6 DEF Lifetime

(* sigdecider_abandon(): the raise is no longer counted, and the container *)
(* it leaves is not freed.                                                 *)
LEMMA AbandonFrame ==
  ASSUME Lifetime, IType', NEW a \in Actors, NEW c \in Containers, map' = map,
         \A b \in Actors \ {a} : call'[b] = call[b],
         call[a].pc = "decider" /\ call[a].item = c,
         call'[a].pc = "abandoned" /\ call'[a].item = c,
         info' = [info EXCEPT ![c].lifetime_refcount =
                                info[c].lifetime_refcount - 1]
  PROVE  Lifetime'
<1>0. TypeOK /\ CallShape /\ info \in [Containers -> SighandlerInfo]
  BY DEF Lifetime, IType, TypeOK
<1>1. ASSUME NEW r \in SighandlerInfo, NEW x
      PROVE  LET q == [r EXCEPT !.lifetime_refcount = x]
             IN  q.state = r.state /\ q.lifetime_refcount = x
  BY DEF SighandlerInfo
<1>2. /\ \A d \in Containers : info'[d].state = info[d].state
      /\ info'[c].lifetime_refcount = info[c].lifetime_refcount - 1
      /\ \A d \in Containers : d # c => info'[d] = info[d]
  BY <1>0, <1>1
<1>3. /\ Holders(c)' = Holders(c) \ {a} /\ a \in Holders(c)
      /\ \A d \in Containers : d # c => Holders(d)' = Holders(d)
      /\ \A d : InMap(d)' = InMap(d)
  BY DEF Holders, InMap
<1>4. /\ Cardinality(Holders(c)') = Cardinality(Holders(c)) - 1
      /\ Cardinality(Holders(c)) \in Nat
  BY <1>3, HoldersFinite, FS_RemoveElement
<1>5. MapInjective'
  BY DEF Lifetime, MapInjective
<1>6. \A b \in Actors : call'[b].pc \in InsidePCs =>
        /\ call'[b].item = call[b].item /\ call[b].item \in Containers
        /\ call[b].pc \in InsidePCs
        /\ call'[b].pc = "decider" => call[b].pc = "decider"
  BY <1>0 DEF CallShape, ShapeOf, InsidePCs
<1>7. Opened'
  BY <1>2, <1>6 DEF Lifetime, Opened
<1>8. LiveWhileHeld'
  <2>1. ASSUME NEW s \in Signals, map[s] # NULL
        PROVE  info'[map[s]].state = "live"
    BY <1>0, <1>2, <2>1 DEF Lifetime, LiveWhileHeld, TypeOK
  <2>2. ASSUME NEW b \in Actors, call'[b].pc = "decider"
        PROVE  info'[call'[b].item].state = "live"
    BY <1>2, <1>6, <2>2 DEF Lifetime, LiveWhileHeld, InsidePCs
  <2> QED
    BY <2>1, <2>2 DEF LiveWhileHeld
<1>9. LifetimeAccounting'
  <2>1. ASSUME NEW d \in Containers, info'[d].state = "live"
        PROVE  info'[d].lifetime_refcount =
                 Cardinality(Holders(d)') + (IF InMap(d)' THEN 1 ELSE 0)
    <3>1. info[d].state = "live" /\ info[d].lifetime_refcount =
            Cardinality(Holders(d)) + (IF InMap(d) THEN 1 ELSE 0)
      BY <1>2, <2>1 DEF Lifetime, LifetimeAccounting
    <3>2. CASE d = c
      <4>1. InMap(c)' = InMap(c)
        BY <1>3
      <4> QED
        BY <1>2, <1>4, <3>1, <3>2, <4>1
    <3>3. CASE d # c
      BY <1>2, <1>3, <3>1, <3>3
    <3> QED
      BY <3>2, <3>3
  <2> QED
    BY <2>1 DEF LifetimeAccounting
<1> QED
  BY <1>5, <1>7, <1>8, <1>9 DEF Lifetime

(* stdc_raise(), sigdecider_abandon() and sigdecider_abandon_resume().     *)
LEMMA LifetimeRaise ==
  ASSUME Lifetime, IType', NEW a \in Actors, Raise(a)
  PROVE  Lifetime'
<1>0. /\ IType /\ TypeOK /\ CallShape /\ call[a] \in Call
      /\ info \in [Containers -> SighandlerInfo]
      /\ map \in [Signals -> Containers \cup {NULL}]
  BY CallType DEF Lifetime, IType, TypeOK
<1>u. info' = info => SameCounts(info')
  BY DEF SameCounts
<1>o. ASSUME NEW k, Step(a, k)
      PROVE  call'[a] = k /\ \A b \in Actors \ {a} : call'[b] = call[b]
  BY <1>0, <1>o DEF Step, TypeOK
<1>s. ASSUME call[a].pc = "raising"
      PROVE  /\ call[a].signo \in Signals
             /\ map[call[a].signo] \in Containers \cup {NULL}
  BY <1>0, <1>s DEF CallShape, ShapeOf, RaisePCs
<1>1. CASE StdcRaise(a)
  <2>1. PICK s : Step(a, [Idle EXCEPT !.pc = "raising", !.signo = s])
    BY <1>1 DEF StdcRaise
  <2>2. [Idle EXCEPT !.pc = "raising", !.signo = s].pc = "raising"
    BY IdleType DEF Call
  <2>3. Quiet(a)
    BY <1>0, <2>1, <2>2, StepQuiet DEF InsidePCs
  <2> QED
    BY <1>1, <1>u, <2>3, QuietFrame DEF StdcRaise, At, registry
<1>2. CASE RawSignalHandler(a)
  <2>1. PICK s : Step(a, [Idle EXCEPT !.pc = "raising", !.signo = s,
                                      !.delivered = TRUE])
    BY <1>2 DEF RawSignalHandler
  <2>2. [Idle EXCEPT !.pc = "raising", !.signo = s, !.delivered = TRUE].pc
          = "raising"
    BY IdleType DEF Call
  <2>3. Quiet(a)
    BY <1>0, <2>1, <2>2, StepQuiet DEF InsidePCs
  <2> QED
    BY <1>2, <1>u, <2>3, QuietFrame DEF RawSignalHandler, At, registry
<1>3. CASE RaiseUninstalled(a) \/ RaiseNoDecider(a)
  <2>1. \/ Return(a)
        \/ \E o : Step(a, [call[a] EXCEPT !.pc = "handoff", !.sa = o])
    BY <1>3 DEF RaiseUninstalled, RaiseNoDecider
  <2>2. \A o : [call[a] EXCEPT !.pc = "handoff", !.sa = o].pc = "handoff"
    BY <1>0 DEF Call
  <2>3. Quiet(a)
    BY <1>0, <2>1, <2>2, StepQuiet, ReturnQuiet DEF InsidePCs
  <2> QED
    BY <1>3, <1>u, <2>3, QuietFrame
    DEF RaiseUninstalled, RaiseNoDecider, At, registry
<1>5. CASE RaiseEnter(a)
  <2> DEFINE c == map[call[a].signo]
  <2>1. call[a].pc = "raising" /\ c # NULL /\ map' = map
    BY <1>5 DEF RaiseEnter, At, installed
  <2>2. call[a].signo \in Signals /\ c \in Containers
    BY <1>s, <2>1
  <2>3. info[c].state = "live"
    BY <2>1, <2>2 DEF Lifetime, LiveWhileHeld
  <2>4. PICK n, o, m, e :
          Step(a, [call[a] EXCEPT !.pc = "decider", !.item = c, !.current = n,
                                  !.sa = o, !.must = m, !.seen = e])
    BY <1>5 DEF RaiseEnter
  <2>5. info' = [info EXCEPT ![c].lifetime_refcount =
                               info[c].lifetime_refcount + 1]
    BY <1>5 DEF RaiseEnter
  <2> HIDE DEF c
  <2>6. /\ call'[a].pc = "decider" /\ call'[a].item = c
        /\ \A b \in Actors \ {a} : call'[b] = call[b]
    <3> DEFINE k == [call[a] EXCEPT !.pc = "decider", !.item = c, !.current = n,
                                    !.sa = o, !.must = m, !.seen = e]
    <3>1. k.pc = "decider" /\ k.item = c
      BY <1>0 DEF Call
    <3>2. Step(a, k)
      BY <2>4
    <3> HIDE DEF k
    <3> QED
      BY <1>o, <3>1, <3>2
  <2> QED
    BY <2>1, <2>2, <2>3, <2>5, <2>6, EnterFrame
<1>6. CASE DeciderNext(a)
  <2>1. call[a].pc = "decider" /\ call[a].pc \in InsidePCs
    BY <1>6 DEF DeciderNext, At, InsidePCs
  <2>2. info' = UnpinnedInfo(a) /\ map' = map
    BY <1>6 DEF DeciderNext, installed
  <2>3. PICK n, e : Step(a, [call[a] EXCEPT !.current = n, !.seen = e])
    BY <1>6 DEF DeciderNext
  <2>4. /\ [call[a] EXCEPT !.current = n, !.seen = e].pc = call[a].pc
        /\ [call[a] EXCEPT !.current = n, !.seen = e].item = call[a].item
    BY <1>0 DEF Call
  <2>5. /\ call'[a].pc = "decider" /\ call'[a].item = call[a].item
        /\ \A b \in Actors \ {a} : call'[b] = call[b]
    BY <1>o, <2>1, <2>3, <2>4
  <2>6. SameCounts(info')
    BY <1>0, <2>1, <2>2, UnpinnedCounts
  <2> QED
    BY <2>1, <2>2, <2>5, <2>6, InsideFrame
<1>7. CASE DeciderExhausted(a) \/ DeciderClaims(a)
  <2>1. call[a].pc = "decider" /\ RaiseRelease(a) /\ map' = map
    BY <1>7 DEF DeciderExhausted, DeciderClaims, At, installed
  <2>2. Return(a) \/ Step(a, [call[a] EXCEPT !.pc = "handoff", !.item = NULL,
                                             !.current = NULL])
    BY <1>7 DEF DeciderExhausted, DeciderClaims
  <2>3. [call[a] EXCEPT !.pc = "handoff", !.item = NULL, !.current = NULL].pc
          = "handoff"
    BY <1>0 DEF Call
  <2>4. Quiet(a)
    BY <1>0, <2>2, <2>3, StepQuiet, ReturnQuiet DEF InsidePCs
  <2>5. /\ call[a].item \in Containers
        /\ UnpinnedInfo(a) \in [Containers -> SighandlerInfo]
        /\ SameCounts(UnpinnedInfo(a))
    BY <1>0, <2>1, InsideType, UnpinnedCounts DEF InsidePCs
  <2>6. info' = Release(UnpinnedInfo(a), call[a].item)
    BY <2>1 DEF RaiseRelease
  <2> QED
    BY <2>1, <2>4, <2>5, <2>6, ReleaseFrame
<1>p. ASSUME NEW p, Step(a, [call[a] EXCEPT !.pc = p])
      PROVE  /\ call'[a].pc = p /\ call'[a].item = call[a].item
             /\ \A b \in Actors \ {a} : call'[b] = call[b]
  <2>1. /\ [call[a] EXCEPT !.pc = p].pc = p
        /\ [call[a] EXCEPT !.pc = p].item = call[a].item
    BY <1>0 DEF Call
  <2> QED
    BY <1>o, <1>p, <2>1
<1>8. CASE Abandon(a)
  <2>1. /\ call[a].pc = "decider" /\ map' = map
        /\ Step(a, [call[a] EXCEPT !.pc = "abandoned"])
        /\ info' = [info EXCEPT ![call[a].item].lifetime_refcount =
                                   info[call[a].item].lifetime_refcount - 1]
    BY <1>8 DEF Abandon, At, installed
  <2>2. call[a].item \in Containers
    BY <1>0, <2>1, InsideType DEF InsidePCs
  <2> QED
    BY <1>p, <2>1, <2>2, AbandonFrame
<1>9. CASE LeaveAbandoned(a)
  <2>1. Quiet(a) /\ call[a].pc = "abandoned"
    BY <1>0, <1>9, ReturnQuiet DEF LeaveAbandoned, At
  <2> QED
    BY <1>9, <1>u, <2>1, QuietFrame DEF LeaveAbandoned, registry
<1>10. CASE AbandonResume(a)
  <2>1. call[a].pc = "abandoned" /\ Step(a, [call[a] EXCEPT !.pc = "resuming"])
    BY <1>10 DEF AbandonResume, At
  <2>2. /\ call'[a].pc = "resuming" /\ call'[a].item = call[a].item
        /\ \A b \in Actors \ {a} : call'[b] = call[b]
    BY <1>p, <2>1
  <2>3. map' = map /\ SameCounts(info')
    BY <1>10, <1>u DEF AbandonResume, registry
  <2> QED
    BY <2>1, <2>2, <2>3, InsideFrame DEF InsidePCs
<1>11. CASE AbandonResumeLocked(a)
  <2>1. /\ call[a].pc = "resuming" /\ map' = map /\ ~UseAfterFree
        /\ Step(a, [call[a] EXCEPT !.pc = "decider"])
        /\ info' = [info EXCEPT ![call[a].item].lifetime_refcount =
                                   info[call[a].item].lifetime_refcount + 1]
    BY <1>11 DEF AbandonResumeLocked, At, installed
  <2>2. call[a].item \in Containers
    BY <1>0, <2>1, InsideType DEF InsidePCs
  <2>3. info[call[a].item].state = "live"
    <3>1. info[call[a].item].state # "freed"
      BY <2>1 DEF UseAfterFree
    <3>2. info[call[a].item].state # "unused"
      BY <2>1 DEF Lifetime, Opened, InsidePCs
    <3>3. info[call[a].item].state \in Memory
      BY <1>0, <2>2, InfoType
    <3> QED
      BY <3>1, <3>2, <3>3 DEF Memory
  <2> QED
    BY <1>p, <2>1, <2>2, <2>3, EnterFrame
<1> QED
  BY <1>1, <1>2, <1>3, <1>5, <1>6, <1>7, <1>8, <1>9, <1>10, <1>11 DEF Raise

(* invoke_sigaction() works on a copy of the old handler and touches no    *)
(* container.                                                              *)
LEMMA LifetimeInvoke ==
  ASSUME Lifetime, IType', NEW a \in Actors, Invoke(a)
  PROVE  Lifetime'
<1>0. TypeOK /\ call[a] \in Call
  BY CallType DEF Lifetime, IType
<1>1. map' = map /\ SameCounts(info') /\ call[a].pc # "decider"
  BY DEF Invoke, InvokeOther, InvokeRawSignalHandler, InvokeDefault, DefaultSet,
         DefaultKill, DefaultRestore, At, registry, SameCounts
<1>2. \/ Return(a)
      \/ Step(a, [Idle EXCEPT !.pc = "raising", !.signo = call[a].signo,
                              !.delivered = TRUE])
      \/ \E o : Step(a, [call[a] EXCEPT !.pc = "dfl_set", !.sa = o])
      \/ \E p \in {"dfl_kill", "dfl_restore", "terminated"} :
           Step(a, [call[a] EXCEPT !.pc = p])
  BY DEF Invoke, InvokeOther, InvokeRawSignalHandler, InvokeDefault, DefaultSet,
         DefaultKill, DefaultRestore
<1>3. /\ [Idle EXCEPT !.pc = "raising", !.signo = call[a].signo,
                      !.delivered = TRUE].pc = "raising"
      /\ \A o : [call[a] EXCEPT !.pc = "dfl_set", !.sa = o].pc = "dfl_set"
      /\ \A p : [call[a] EXCEPT !.pc = p].pc = p
  BY <1>0, IdleType DEF Call
<1>4. Quiet(a)
  BY <1>0, <1>2, <1>3, ReturnQuiet, StepQuiet DEF InsidePCs
<1> QED
  BY <1>1, <1>4, QuietFrame

-----------------------------------------------------------------------------
(* The initial state satisfies the invariant.                              *)
LEMMA LifetimeInit == Init => Lifetime
<1> SUFFICES ASSUME Init PROVE Lifetime
  OBVIOUS
<1>1. IType
  BY TypeInit
<1>2. \A s \in Signals : map[s] = NULL
  BY DEF Init
<1>3. \A a \in Actors : call[a].pc = "idle"
  BY IdleType DEF Init
<1>4. \A c \in Containers : info[c].state = "unused"
  BY DEF Init
<1> QED
  BY <1>1, <1>2, <1>3, <1>4
  DEF Lifetime, MapInjective, Opened, InsidePCs, LiveWhileHeld,
      LifetimeAccounting

(* Every step preserves the invariant.                                     *)
LEMMA LifetimeNext == Lifetime /\ [Next]_vars => Lifetime'
<1> SUFFICES ASSUME Lifetime, [Next]_vars PROVE Lifetime'
  OBVIOUS
<1>1. IType'
  BY TypeNext DEF Lifetime
<1>2. CASE UNCHANGED vars
  BY <1>1, <1>2 DEF vars, Lifetime, MapInjective, Opened, LiveWhileHeld,
                    LifetimeAccounting, Holders, InMap
<1>3. CASE Next
  BY <1>1, <1>3, LifetimeInstall, LifetimeDeciders, LifetimeRaise,
     LifetimeInvoke DEF Next
<1> QED
  BY <1>2, <1>3

(* The invariant holds in every state.                                     *)
LEMMA LifetimeInvariant == Spec => []Lifetime
  BY LifetimeInit, LifetimeNext, PTL DEF Spec

(* lifetime_refcount counts exactly the references of the map and of the   *)
(* raises inside a decider: what siguninstall() during a raise on another  *)
(* thread, and the release at the end of the raise, rely on.               *)
THEOREM ContainerLifetime == Spec => []LifetimeAccounting
<1>1. Lifetime => LifetimeAccounting
  BY DEF Lifetime
<1> QED
  BY <1>1, LifetimeInvariant, PTL

(* No container the map or a raise inside a decider refers to is freed.    *)
THEOREM ContainersLive == Spec => []LiveWhileHeld
<1>1. Lifetime => LiveWhileHeld
  BY DEF Lifetime
<1> QED
  BY <1>1, LifetimeInvariant, PTL

-----------------------------------------------------------------------------
(* The installs, for every client discipline and whatever install fails    *)
(* where: install_count and sighandlers_count are exact, and where the     *)
(* default actions ignore the signal the kernel's dispositions follow the  *)
(* map.                                                                    *)
(*                                                                         *)
(* The counts are not inductive by themselves.  A loop of siginstall() or  *)
(* siguninstall() must own its handle alone and its todo must be the       *)
(* handle's signals it has still to visit: then what a rollback undoes,    *)
(* the signals below the one that failed, is what was installed.           *)

(* Installs(s) for arbitrary handles ih and calls cl.                      *)
HeldIn(ih, cl, s) ==
  {h \in InstallHandles :
     /\ s \in ih[h].guarded
     /\ \/ ih[h].state = "open"
        \/ \E a \in Actors : cl[a].h = h /\
             \/ cl[a].pc = "installing" /\ s \notin cl[a].todo
             \/ cl[a].pc \in {"rollback", "uninstalling"} /\ s \in cl[a].todo}

Owns(cl, a, h) == cl[a].pc \in InstallPCs /\ cl[a].h = h

(* A loop over the signals of a handle goes through them in order.         *)
Owner(ih, cl, a) ==
  cl[a].pc \in InstallPCs =>
    /\ ih[cl[a].h].state = "busy"
    /\ cl[a].todo \subseteq ih[cl[a].h].guarded
    /\ cl[a].pc = "installing" =>
         \A r \in ih[cl[a].h].guarded \ cl[a].todo, t \in cl[a].todo : r < t

OneOwner(cl) == \A a, b \in Actors : \A h \in InstallHandles :
                  Owns(cl, a, h) /\ Owns(cl, b, h) => a = b

Ownership == /\ \A a \in Actors : Owner(ihandle, call, a)
             /\ OneOwner(call)

(* The inductive invariant.                                                *)
InstallInv == Lifetime /\ Ownership /\ InstallAccounting

-----------------------------------------------------------------------------
(* The holders of the specification are those of its handles and calls.    *)
LEMMA InstallsHeld == ASSUME NEW s PROVE Installs(s) = HeldIn(ihandle, call, s)
  BY DEF Installs, HeldIn

(* What the handle of a running loop holds.                                *)
LEMMA BusyHeld ==
  ASSUME NEW ih, NEW cl, NEW a \in Actors, NEW h \in InstallHandles, NEW s,
         Owns(cl, a, h), \A b \in Actors : Owns(cl, b, h) => b = a,
         ih[h].state = "busy"
  PROVE  h \in HeldIn(ih, cl, s) <=>
           /\ s \in ih[h].guarded
           /\ IF cl[a].pc = "installing" THEN s \notin cl[a].todo
                                         ELSE s \in cl[a].todo
  BY DEF HeldIn, Owns, InstallPCs

(* What a handle no loop works on holds.                                   *)
LEMMA RestHeld ==
  ASSUME NEW ih, NEW cl, NEW h \in InstallHandles, NEW s,
         \A b \in Actors : ~Owns(cl, b, h)
  PROVE  h \in HeldIn(ih, cl, s) <=> s \in ih[h].guarded /\ ih[h].state = "open"
  BY DEF HeldIn, Owns, InstallPCs

(* A step of actor a that touches handle h alone.                          *)
OnlyHandle(a, h) ==
  /\ \A g \in InstallHandles \ {h} : ihandle'[g] = ihandle[g]
  /\ \A b \in Actors \ {a} : call'[b] = call[b]
  /\ call[a].pc \in InstallPCs => call[a].h = h
  /\ call[a].pc \notin InstallPCs => ihandle[h].state # "busy"
  /\ call'[a].pc \in InstallPCs => call'[a].h = h

(* Such a step keeps the ownership of the other handles and what they hold.*)
LEMMA OnlyHandleKeeps ==
  ASSUME IType, Ownership, NEW a \in Actors, NEW h \in InstallHandles,
         OnlyHandle(a, h), Owner(ihandle', call', a)
  PROVE  /\ Ownership'
         /\ \A b \in Actors : Owns(call', b, h) => b = a
         /\ \A s : \A g \in InstallHandles \ {h} :
              g \in HeldIn(ihandle', call', s) <=> g \in HeldIn(ihandle, call, s)
<1>1. ASSUME NEW b \in Actors, b # a
      PROVE  ~Owns(call, b, h) /\ call'[b] = call[b]
  <2>1. CASE call[a].pc \in InstallPCs
    BY <1>1, <2>1 DEF OnlyHandle, Ownership, OneOwner, Owns
  <2>2. CASE call[a].pc \notin InstallPCs
    BY <1>1, <2>2 DEF OnlyHandle, Ownership, Owner, Owns
  <2> QED
    BY <2>1, <2>2
<1>2. \A b \in Actors : Owns(call', b, h) => b = a
  BY <1>1 DEF Owns
<1>3. ASSUME NEW b \in Actors PROVE Owner(ihandle', call', b)
  <2>1. CASE b = a
    BY <2>1
  <2>2. CASE b # a
    <3>1. call'[b] = call[b] /\ ~Owns(call, b, h)
      BY <1>1, <2>2
    <3>2. call[b].pc \in InstallPCs => call[b].h \in InstallHandles \ {h}
      BY <3>1 DEF Owns, IType, CallShape, ShapeOf
    <3> QED
      BY <3>1, <3>2 DEF Ownership, Owner, OnlyHandle
  <2> QED
    BY <2>1, <2>2
<1>4. OneOwner(call')
  <2> SUFFICES ASSUME NEW x \in Actors, NEW y \in Actors,
                      NEW g \in InstallHandles,
                      Owns(call', x, g), Owns(call', y, g)
               PROVE  x = y
    BY DEF OneOwner
  <2>1. CASE g = h
    BY <1>2, <2>1
  <2>2. CASE g # h
    <3>1. x # a /\ y # a
      BY <2>2 DEF OnlyHandle, Owns
    <3> QED
      BY <3>1 DEF OnlyHandle, Owns, Ownership, OneOwner
  <2> QED
    BY <2>1, <2>2
<1>5. ASSUME NEW s, NEW g \in InstallHandles \ {h}
      PROVE  g \in HeldIn(ihandle', call', s) <=> g \in HeldIn(ihandle, call, s)
  <2>1. ihandle'[g] = ihandle[g]
    BY DEF OnlyHandle
  <2>2. ASSUME NEW b \in Actors
        PROVE  \/ call'[b] = call[b]
               \/ ~Owns(call, b, g) /\ ~Owns(call', b, g)
    BY DEF OnlyHandle, Owns
  <2> QED
    BY <2>1, <2>2 DEF HeldIn, Owns, InstallPCs
<1> QED
  BY <1>2, <1>3, <1>4, <1>5 DEF Ownership

(* The signal a loop is at comes before the ones after it.                 *)
LEMMA SignoLeast ==
  ASSUME IType, NEW a \in Actors, call[a].pc \in InstallPCs
  PROVE  /\ Signo(a) \in call[a].todo /\ call[a].todo \subseteq Nat
         /\ \A t \in call[a].todo : Signo(a) <= t
         /\ \A t : t \in Rest(a) <=> t \in call[a].todo /\ t # Signo(a)
<1>1. call[a].todo \in SUBSET Signals /\ call[a].todo # {}
  BY DEF IType, TypeOK, CallShape, ShapeOf, Call
<1>2. call[a].todo \subseteq Nat
  BY <1>1, SignalsAssumption
<1>3. /\ Min(call[a].todo) \in call[a].todo
      /\ \A t \in call[a].todo : Min(call[a].todo) <= t
  BY <1>1, LeastSignal
<1> QED
  BY <1>2, <1>3 DEF Signo, Rest

(* What the handle of the loop of actor a holds before its step.           *)
LEMMA LoopHeld ==
  ASSUME IType, Ownership, NEW a \in Actors, call[a].pc \in InstallPCs
  PROVE  /\ call[a].h \in InstallHandles /\ ihandle[call[a].h].state = "busy"
         /\ call[a].todo \subseteq ihandle[call[a].h].guarded
         /\ \A s : call[a].h \in HeldIn(ihandle, call, s) <=>
              /\ s \in ihandle[call[a].h].guarded
              /\ IF call[a].pc = "installing" THEN s \notin call[a].todo
                                              ELSE s \in call[a].todo
<1>1. call[a].h \in InstallHandles
  BY DEF IType, CallShape, ShapeOf
<1>2. /\ Owns(call, a, call[a].h) /\ ihandle[call[a].h].state = "busy"
      /\ call[a].todo \subseteq ihandle[call[a].h].guarded
  BY DEF Owns, Ownership, Owner
<1>3. \A b \in Actors : Owns(call, b, call[a].h) => b = a
  BY <1>1, <1>2 DEF Ownership, OneOwner
<1> QED
  BY <1>1, <1>2, <1>3, BusyHeld

(* The step of the loop of actor a: handle h goes to record r, the call to *)
(* record k.                                                               *)
LoopStep(a, r, k) ==
  /\ ihandle' = [ihandle EXCEPT ![call[a].h] = r]
  /\ call' = [call EXCEPT ![a] = k]

(* What it holds afterwards, if the loop goes on ...                       *)
LEMMA LoopGoesOn ==
  ASSUME IType, Ownership, NEW a \in Actors, call[a].pc \in InstallPCs,
         NEW r, NEW k, LoopStep(a, r, k),
         k.pc \in InstallPCs, k.h = call[a].h, r.state = "busy",
         k.todo \subseteq r.guarded,
         k.pc = "installing" =>
           \A x \in r.guarded \ k.todo, t \in k.todo : x < t
  PROVE  /\ Ownership'
         /\ \A s : \A g \in InstallHandles \ {call[a].h} :
              g \in HeldIn(ihandle', call', s) <=> g \in HeldIn(ihandle, call, s)
         /\ \A s : call[a].h \in HeldIn(ihandle', call', s) <=>
              s \in r.guarded /\ IF k.pc = "installing" THEN s \notin k.todo
                                                        ELSE s \in k.todo
<1> DEFINE h == call[a].h
<1>1. h \in InstallHandles
  BY LoopHeld
<1>2. ihandle'[h] = r /\ call'[a] = k
  BY <1>1 DEF LoopStep, IType, TypeOK
<1>3. OnlyHandle(a, h)
  BY <1>1, <1>2 DEF LoopStep, OnlyHandle, IType, TypeOK
<1>4. Owner(ihandle', call', a)
  BY <1>2 DEF Owner
<1>5. /\ Ownership' /\ \A b \in Actors : Owns(call', b, h) => b = a
      /\ \A s : \A g \in InstallHandles \ {h} :
           g \in HeldIn(ihandle', call', s) <=> g \in HeldIn(ihandle, call, s)
  BY <1>1, <1>3, <1>4, OnlyHandleKeeps
<1>6. Owns(call', a, h) /\ ihandle'[h].state = "busy"
  BY <1>2 DEF Owns
<1>7. \A s : h \in HeldIn(ihandle', call', s) <=>
        /\ s \in ihandle'[h].guarded
        /\ IF call'[a].pc = "installing" THEN s \notin call'[a].todo
                                         ELSE s \in call'[a].todo
  BY <1>1, <1>5, <1>6, BusyHeld
<1> QED
  BY <1>2, <1>5, <1>7

(* ... and if it ends.                                                     *)
LEMMA LoopEnds ==
  ASSUME IType, Ownership, NEW a \in Actors, call[a].pc \in InstallPCs,
         NEW r, LoopStep(a, r, Idle)
  PROVE  /\ Ownership'
         /\ \A s : \A g \in InstallHandles \ {call[a].h} :
              g \in HeldIn(ihandle', call', s) <=> g \in HeldIn(ihandle, call, s)
         /\ \A s : call[a].h \in HeldIn(ihandle', call', s) <=>
              s \in r.guarded /\ r.state = "open"
<1> DEFINE h == call[a].h
<1>1. h \in InstallHandles
  BY LoopHeld
<1>2. ihandle'[h] = r /\ call'[a] = Idle
  BY <1>1 DEF LoopStep, IType, TypeOK
<1>3. call'[a].pc \notin InstallPCs
  BY <1>2, IdleType DEF InstallPCs
<1>4. OnlyHandle(a, h)
  BY <1>1, <1>3 DEF LoopStep, OnlyHandle, IType, TypeOK
<1>5. Owner(ihandle', call', a)
  BY <1>3 DEF Owner
<1>6. /\ Ownership' /\ \A b \in Actors : Owns(call', b, h) => b = a
      /\ \A s : \A g \in InstallHandles \ {h} :
           g \in HeldIn(ihandle', call', s) <=> g \in HeldIn(ihandle, call, s)
  BY <1>1, <1>4, <1>5, OnlyHandleKeeps
<1>7. \A b \in Actors : ~Owns(call', b, h)
  BY <1>3, <1>6 DEF Owns
<1>8. \A s : h \in HeldIn(ihandle', call', s) <=>
               s \in ihandle'[h].guarded /\ ihandle'[h].state = "open"
  BY <1>1, <1>7, RestHeld
<1> QED
  BY <1>2, <1>6, <1>8

-----------------------------------------------------------------------------
(* After its step the loop's handle holds S instead of what it held.       *)
Holds(a, S) ==
  /\ Ownership'
  /\ \A s : \A g \in InstallHandles \ {call[a].h} :
       g \in HeldIn(ihandle', call', s) <=> g \in HeldIn(ihandle, call, s)
  /\ \A s : call[a].h \in HeldIn(ihandle', call', s) <=> s \in S

(* siginstall() has installed one more signal.                             *)
LEMMA InstallDoneHolds ==
  ASSUME IType, Ownership, NEW a \in Actors, call[a].pc = "installing",
         InstallDone(a)
  PROVE  Holds(a, ihandle[call[a].h].guarded \ Rest(a))
<1> DEFINE h == call[a].h
           G == ihandle[h].guarded
<1>1. /\ call[a].pc \in InstallPCs /\ h \in InstallHandles
      /\ ihandle[h].state = "busy" /\ call[a].todo \subseteq G
  BY LoopHeld DEF InstallPCs
<1>2. ihandle \in [InstallHandles -> InstallHandle] /\ call[a] \in Call
      /\ ihandle[h] \in InstallHandle
  BY <1>1 DEF IType, TypeOK
<1>3. CASE Rest(a) = {}
  <2> DEFINE r == [ihandle[h] EXCEPT !.state = "open"]
  <2>1. LoopStep(a, r, Idle)
    BY <1>2, <1>3 DEF InstallDone, Return, Step, LoopStep
  <2>2. r.state = "open" /\ r.guarded = G
    BY <1>2 DEF InstallHandle
  <2> HIDE DEF r
  <2> QED
    BY <1>1, <1>3, <2>1, <2>2, LoopEnds DEF Holds
<1>4. CASE Rest(a) # {}
  <2> DEFINE k == [call[a] EXCEPT !.todo = Rest(a)]
  <2>1. LoopStep(a, ihandle[h], k)
    BY <1>1, <1>2, <1>4 DEF InstallDone, Step, LoopStep
  <2>2. k.pc = "installing" /\ k.h = h /\ k.todo = Rest(a)
    BY <1>2 DEF Call
  <2> HIDE DEF k
  <2>3. Rest(a) \subseteq G
    BY <1>1, SignoLeast
  <2>4. \A x \in G \ Rest(a), t \in Rest(a) : x < t
    <3> SUFFICES ASSUME NEW x \in G \ Rest(a), NEW t \in Rest(a) PROVE x < t
      OBVIOUS
    <3>1. t \in call[a].todo /\ t # Signo(a) /\ Signo(a) <= t
          /\ t \in Nat /\ Signo(a) \in Nat
      BY <1>1, SignoLeast
    <3>2. CASE x = Signo(a)
      BY <3>1, <3>2
    <3>3. CASE x # Signo(a)
      <4>1. x \notin call[a].todo
        BY <1>1, <3>3, SignoLeast
      <4> QED
        BY <1>1, <3>1, <4>1 DEF Ownership, Owner
    <3> QED
      BY <3>2, <3>3
  <2> QED
    BY <1>1, <2>1, <2>2, <2>3, <2>4, LoopGoesOn DEF Holds
<1> QED
  BY <1>3, <1>4

(* siguninstall(), or a rollback, has uninstalled one more signal.         *)
LEMMA UninstallDoneHolds ==
  ASSUME IType, Ownership, NEW a \in Actors,
         call[a].pc \in {"uninstalling", "rollback"}, UninstallDone(a)
  PROVE  Holds(a, Rest(a))
<1> DEFINE h == call[a].h
           G == ihandle[h].guarded
<1>1. /\ call[a].pc \in InstallPCs /\ h \in InstallHandles
      /\ ihandle[h].state = "busy" /\ call[a].todo \subseteq G
  BY LoopHeld DEF InstallPCs
<1>2. ihandle \in [InstallHandles -> InstallHandle] /\ call[a] \in Call
      /\ ihandle[h] \in InstallHandle
  BY <1>1 DEF IType, TypeOK
<1>3. CASE Rest(a) = {}
  <2>1. LoopStep(a, NoInstallHandle, Idle)
    BY <1>3 DEF UninstallDone, Return, Step, LoopStep
  <2>2. NoInstallHandle.state # "open"
    BY DEF NoInstallHandle
  <2> QED
    BY <1>1, <1>3, <2>1, <2>2, LoopEnds DEF Holds
<1>4. CASE Rest(a) # {}
  <2> DEFINE k == [call[a] EXCEPT !.todo = Rest(a)]
  <2>1. LoopStep(a, ihandle[h], k)
    BY <1>1, <1>2, <1>4 DEF UninstallDone, Step, LoopStep
  <2>2. k.pc = call[a].pc /\ k.h = h /\ k.todo = Rest(a)
    BY <1>2 DEF Call
  <2> HIDE DEF k
  <2>3. Rest(a) \subseteq G
    BY <1>1, SignoLeast
  <2> QED
    BY <1>1, <2>1, <2>2, <2>3, LoopGoesOn DEF Holds
<1> QED
  BY <1>3, <1>4

(* A failed siginstall() will undo exactly what it has installed.          *)
LEMMA RollbackHolds ==
  ASSUME IType, Ownership, NEW a \in Actors, call[a].pc = "installing",
         Rollback(a)
  PROVE  Holds(a, ihandle[call[a].h].guarded \ call[a].todo)
<1> DEFINE h == call[a].h
           G == ihandle[h].guarded
           undo == {x \in G : x < Signo(a)}
<1>1. /\ call[a].pc \in InstallPCs /\ h \in InstallHandles
      /\ ihandle[h].state = "busy" /\ call[a].todo \subseteq G
  BY LoopHeld DEF InstallPCs
<1>2. ihandle \in [InstallHandles -> InstallHandle] /\ call[a] \in Call
      /\ ihandle[h] \in InstallHandle /\ G \subseteq Nat
  BY <1>1, SignalsAssumption DEF IType, TypeOK, InstallHandle
<1>3. undo = G \ call[a].todo
  <2>1. ASSUME NEW x \in G, x \notin call[a].todo PROVE x < Signo(a)
    BY <1>1, <2>1, SignoLeast DEF Ownership, Owner
  <2>2. ASSUME NEW x \in call[a].todo PROVE ~(x < Signo(a))
    <3>1. Signo(a) <= x /\ x \in Nat /\ Signo(a) \in Nat
      BY <1>1, SignoLeast
    <3> QED
      BY <3>1
  <2> QED
    BY <2>1, <2>2
<1>4. Rollback(a) <=> IF undo = {}
        THEN ihandle' = [ihandle EXCEPT ![h] = NoInstallHandle] /\ Return(a)
        ELSE UNCHANGED ihandle
             /\ Step(a, [call[a] EXCEPT !.pc = "rollback", !.todo = undo])
  BY DEF Rollback
<1>5. undo \subseteq G
  OBVIOUS
<1> HIDE DEF undo
<1>6. CASE undo = {}
  <2>1. LoopStep(a, NoInstallHandle, Idle)
    BY <1>4, <1>6 DEF Return, Step, LoopStep
  <2>2. NoInstallHandle.state # "open"
    BY DEF NoInstallHandle
  <2> QED
    BY <1>1, <1>3, <1>6, <2>1, <2>2, LoopEnds DEF Holds
<1>7. CASE undo # {}
  <2> DEFINE k == [call[a] EXCEPT !.pc = "rollback", !.todo = undo]
  <2>1. LoopStep(a, ihandle[h], k)
    BY <1>1, <1>2, <1>4, <1>7 DEF Step, LoopStep
  <2>2. k.pc = "rollback" /\ k.h = h /\ k.todo = undo
    BY <1>2 DEF Call
  <2> HIDE DEF k
  <2> QED
    BY <1>1, <1>3, <1>5, <2>1, <2>2, LoopGoesOn DEF Holds, InstallPCs
<1> QED
  BY <1>6, <1>7

-----------------------------------------------------------------------------
(* The counts.                                                             *)

Pairs(ih, cl) == {p \in Signals \X InstallHandles : p[2] \in HeldIn(ih, cl, p[1])}

(* InstallAccounting in terms of HeldIn.                                   *)
Accounted(m, n, infos, ih, cl) ==
  /\ \A s \in Signals :
       IF m[s] = NULL THEN HeldIn(ih, cl, s) = {}
       ELSE infos[m[s]].install_count = Cardinality(HeldIn(ih, cl, s))
  /\ n = Cardinality(Pairs(ih, cl))

(* It is the property of the specification, before and after a step.       *)
LEMMA AccountingSame ==
  /\ InstallAccounting <=>
       Accounted(map, sighandlers_count, info, ihandle, call)
  /\ InstallAccounting' <=>
       Accounted(map', sighandlers_count', info', ihandle', call')
<1>1. \A s : Installs(s) = HeldIn(ihandle, call, s)
  BY DEF Installs, HeldIn
<1>2. \A s : Installs(s)' = HeldIn(ihandle', call', s)
  BY DEF Installs, HeldIn
<1>3. {p \in Signals \X InstallHandles : p[2] \in Installs(p[1])}
        = Pairs(ihandle, call)
  BY <1>1 DEF Pairs
<1>4. {p \in Signals \X InstallHandles : p[2] \in Installs(p[1])'}
        = Pairs(ihandle', call')
  BY <1>2 DEF Pairs
<1> QED
  BY <1>1, <1>2, <1>3, <1>4 DEF InstallAccounting, Accounted

(* The holders of a signal, and all pairs of them, are finitely many.      *)
LEMMA HeldFinite ==
  ASSUME NEW ih, NEW cl
  PROVE  /\ \A s : IsFiniteSet(HeldIn(ih, cl, s))
         /\ IsFiniteSet(Pairs(ih, cl))
<1>1. \A s : HeldIn(ih, cl, s) \subseteq InstallHandles
  BY DEF HeldIn
<1>2. Pairs(ih, cl) \subseteq Signals \X InstallHandles
  BY DEF Pairs
<1>3. IsFiniteSet(Signals \X InstallHandles)
  BY FiniteAssumption, FS_Product
<1> QED
  BY <1>1, <1>2, <1>3, FiniteAssumption, FS_Subset

(* No holder comes or goes.                                                *)
LEMMA AccountSame ==
  ASSUME NEW ih, NEW cl, NEW jh, NEW dl,
         \A s \in Signals : HeldIn(jh, dl, s) = HeldIn(ih, cl, s),
         NEW m, NEW n, NEW infos, NEW jnfos, Accounted(m, n, infos, ih, cl),
         \A s \in Signals : m[s] # NULL =>
           jnfos[m[s]].install_count = infos[m[s]].install_count
  PROVE  Accounted(m, n, jnfos, jh, dl)
<1>1. Pairs(jh, dl) = Pairs(ih, cl)
  BY DEF Pairs
<1> QED
  BY <1>1 DEF Accounted

(* One holder h of signal s comes.                                         *)
LEMMA AccountAdd ==
  ASSUME NEW ih, NEW cl, NEW jh, NEW dl, NEW s \in Signals,
         NEW h \in InstallHandles,
         h \notin HeldIn(ih, cl, s),
         HeldIn(jh, dl, s) = HeldIn(ih, cl, s) \cup {h},
         \A r \in Signals \ {s} : HeldIn(jh, dl, r) = HeldIn(ih, cl, r),
         NEW m, NEW n, NEW infos, Accounted(m, n, infos, ih, cl),
         NEW mm, NEW jnfos,
         \A r \in Signals \ {s} : mm[r] = m[r] /\
           (m[r] # NULL =>
              jnfos[m[r]].install_count = infos[m[r]].install_count),
         mm[s] # NULL,
         jnfos[mm[s]].install_count =
           IF m[s] = NULL THEN 1 ELSE infos[m[s]].install_count + 1
  PROVE  Accounted(mm, n + 1, jnfos, jh, dl)
<1>1. Pairs(jh, dl) = Pairs(ih, cl) \cup {<<s, h>>}
  <2>1. ASSUME NEW p \in Signals \X InstallHandles
        PROVE  p \in Pairs(jh, dl) <=> p \in Pairs(ih, cl) \cup {<<s, h>>}
    <3>1. PICK r \in Signals, g \in InstallHandles : p = <<r, g>>
      OBVIOUS
    <3>2. /\ p \in Pairs(jh, dl) <=> g \in HeldIn(jh, dl, r)
          /\ p \in Pairs(ih, cl) <=> g \in HeldIn(ih, cl, r)
          /\ p = <<s, h>> <=> r = s /\ g = h
      BY <3>1 DEF Pairs
    <3> QED
      BY <3>2
  <2> QED
    BY <2>1 DEF Pairs
<1>2. <<s, h>> \notin Pairs(ih, cl)
  BY DEF Pairs
<1>3. Cardinality(Pairs(jh, dl)) = n + 1
  BY <1>1, <1>2, HeldFinite, FS_AddElement DEF Accounted
<1>4. Cardinality(HeldIn(jh, dl, s)) = Cardinality(HeldIn(ih, cl, s)) + 1
  BY HeldFinite, FS_AddElement
<1>5. jnfos[mm[s]].install_count = Cardinality(HeldIn(jh, dl, s))
  <2>1. CASE m[s] = NULL
    <3>1. HeldIn(ih, cl, s) = {} /\ Cardinality({}) = 0
      BY <2>1, FS_EmptySet DEF Accounted
    <3> QED
      BY <1>4, <2>1, <3>1
  <2>2. CASE m[s] # NULL
    BY <1>4, <2>2 DEF Accounted
  <2> QED
    BY <2>1, <2>2
<1>6. ASSUME NEW r \in Signals
      PROVE  IF mm[r] = NULL THEN HeldIn(jh, dl, r) = {}
             ELSE jnfos[mm[r]].install_count = Cardinality(HeldIn(jh, dl, r))
  <2>1. CASE r = s
    BY <1>5, <2>1
  <2>2. CASE r # s
    BY <2>2 DEF Accounted
  <2> QED
    BY <2>1, <2>2
<1> QED
  BY <1>3, <1>6 DEF Accounted

(* A signal that has a holder has a container, which counts it.            *)
LEMMA HeldCounted ==
  ASSUME NEW ih, NEW cl, NEW s \in Signals, NEW h \in HeldIn(ih, cl, s),
         NEW m, NEW n, NEW infos, Accounted(m, n, infos, ih, cl)
  PROVE  /\ m[s] # NULL /\ infos[m[s]].install_count \in Nat \ {0}
         /\ infos[m[s]].install_count = Cardinality(HeldIn(ih, cl, s))
         /\ Cardinality(HeldIn(ih, cl, s) \ {h}) = infos[m[s]].install_count - 1
         /\ infos[m[s]].install_count = 1 => HeldIn(ih, cl, s) \ {h} = {}
<1>1. m[s] # NULL
      /\ infos[m[s]].install_count = Cardinality(HeldIn(ih, cl, s))
  BY DEF Accounted
<1> DEFINE H == HeldIn(ih, cl, s)
<1>2. IsFiniteSet(H)
  BY HeldFinite
<1> HIDE DEF H
<1>3. IsFiniteSet(H \ {h}) /\ Cardinality(H \ {h}) = Cardinality(H) - 1
  BY <1>2, FS_RemoveElement DEF H
<1>4. Cardinality(H) \in Nat /\ Cardinality(H \ {h}) \in Nat
  BY <1>2, <1>3, FS_CardinalityType
<1>5. Cardinality(H \ {h}) = 0 => H \ {h} = {}
  BY <1>3, FS_EmptySet
<1>6. Cardinality(H) = 1 => H \ {h} = {}
  BY <1>3, <1>4, <1>5
<1>7. Cardinality(H) \in Nat \ {0}
  BY <1>3, <1>4
<1> QED
  BY <1>1, <1>3, <1>6, <1>7 DEF H

(* One holder h of signal s goes, and with the last one the container.     *)
LEMMA AccountRemove ==
  ASSUME NEW ih, NEW cl, NEW jh, NEW dl, NEW s \in Signals,
         NEW h \in HeldIn(ih, cl, s),
         HeldIn(jh, dl, s) = HeldIn(ih, cl, s) \ {h},
         \A r \in Signals \ {s} : HeldIn(jh, dl, r) = HeldIn(ih, cl, r),
         NEW m, NEW n, NEW infos, Accounted(m, n, infos, ih, cl),
         NEW mm, NEW jnfos,
         \A r \in Signals \ {s} : mm[r] = m[r] /\
           (m[r] # NULL =>
              jnfos[m[r]].install_count = infos[m[r]].install_count),
         \/ infos[m[s]].install_count = 1 /\ mm[s] = NULL
         \/ /\ mm[s] = m[s]
            /\ jnfos[m[s]].install_count = infos[m[s]].install_count - 1
  PROVE  Accounted(mm, n - 1, jnfos, jh, dl)
<1>0. h \in InstallHandles
  BY DEF HeldIn
<1>1. Pairs(jh, dl) = Pairs(ih, cl) \ {<<s, h>>}
  <2>1. ASSUME NEW p \in Signals \X InstallHandles
        PROVE  p \in Pairs(jh, dl) <=> p \in Pairs(ih, cl) \ {<<s, h>>}
    <3>1. PICK r \in Signals, g \in InstallHandles : p = <<r, g>>
      OBVIOUS
    <3>2. /\ p \in Pairs(jh, dl) <=> g \in HeldIn(jh, dl, r)
          /\ p \in Pairs(ih, cl) <=> g \in HeldIn(ih, cl, r)
          /\ p = <<s, h>> <=> r = s /\ g = h
      BY <3>1 DEF Pairs
    <3> QED
      BY <3>2
  <2> QED
    BY <2>1 DEF Pairs
<1>2. <<s, h>> \in Pairs(ih, cl)
  BY <1>0 DEF Pairs
<1>3. Cardinality(Pairs(jh, dl)) = n - 1
  BY <1>1, <1>2, HeldFinite, FS_RemoveElement DEF Accounted
<1>4. /\ m[s] # NULL
      /\ Cardinality(HeldIn(jh, dl, s)) = infos[m[s]].install_count - 1
      /\ infos[m[s]].install_count = 1 => HeldIn(jh, dl, s) = {}
  BY HeldCounted
<1>5. ASSUME NEW r \in Signals
      PROVE  IF mm[r] = NULL THEN HeldIn(jh, dl, r) = {}
             ELSE jnfos[mm[r]].install_count = Cardinality(HeldIn(jh, dl, r))
  <2>1. CASE r = s
    BY <1>4, <2>1
  <2>2. CASE r # s
    BY <2>2 DEF Accounted
  <2> QED
    BY <2>1, <2>2
<1> QED
  BY <1>3, <1>5 DEF Accounted

-----------------------------------------------------------------------------
(* What the loops do to the holders of each signal.                        *)

(* siginstall() becomes a holder of the signal it is at.                   *)
LEMMA LoopAdds ==
  ASSUME IType, Ownership, NEW a \in Actors, call[a].pc = "installing",
         InstallDone(a)
  PROVE  /\ Ownership' /\ Signo(a) \in Signals /\ call[a].h \in InstallHandles
         /\ call[a].h \notin HeldIn(ihandle, call, Signo(a))
         /\ HeldIn(ihandle', call', Signo(a))
              = HeldIn(ihandle, call, Signo(a)) \cup {call[a].h}
         /\ \A r \in Signals \ {Signo(a)} :
              HeldIn(ihandle', call', r) = HeldIn(ihandle, call, r)
<1> DEFINE h == call[a].h
           G == ihandle[h].guarded
<1>1. call[a].pc \in InstallPCs
  BY DEF InstallPCs
<1>2. /\ h \in InstallHandles /\ call[a].todo \subseteq G
      /\ \A s : h \in HeldIn(ihandle, call, s) <=>
                  s \in G /\ s \notin call[a].todo
  BY <1>1, LoopHeld
<1>3. Holds(a, G \ Rest(a))
  BY InstallDoneHolds
<1>4. Signo(a) \in Signals
  BY <1>1, SignoType
<1>5. /\ Signo(a) \in call[a].todo
      /\ \A t : t \in Rest(a) <=> t \in call[a].todo /\ t # Signo(a)
  BY <1>1, SignoLeast
<1>6. \A s, g : g \in HeldIn(ihandle, call, s) \cup HeldIn(ihandle', call', s)
                  => g \in InstallHandles
  BY DEF HeldIn
<1>7. \A s : h \in HeldIn(ihandle', call', s) <=>
               h \in HeldIn(ihandle, call, s) \/ s = Signo(a)
  BY <1>2, <1>3, <1>5 DEF Holds
<1>8. \A s : \A g \in InstallHandles \ {h} :
        g \in HeldIn(ihandle', call', s) <=> g \in HeldIn(ihandle, call, s)
  BY <1>3 DEF Holds
<1>9. \A r : r # Signo(a) =>
        HeldIn(ihandle', call', r) = HeldIn(ihandle, call, r)
  BY <1>6, <1>7, <1>8
<1>10. HeldIn(ihandle', call', Signo(a))
         = HeldIn(ihandle, call, Signo(a)) \cup {h}
  BY <1>6, <1>7, <1>8
<1> QED
  BY <1>2, <1>3, <1>4, <1>5, <1>9, <1>10 DEF Holds

(* siguninstall() and a rollback stop being one.                           *)
LEMMA LoopRemoves ==
  ASSUME IType, Ownership, NEW a \in Actors,
         call[a].pc \in {"uninstalling", "rollback"}, UninstallDone(a)
  PROVE  /\ Ownership' /\ Signo(a) \in Signals
         /\ call[a].h \in HeldIn(ihandle, call, Signo(a))
         /\ HeldIn(ihandle', call', Signo(a))
              = HeldIn(ihandle, call, Signo(a)) \ {call[a].h}
         /\ \A r \in Signals \ {Signo(a)} :
              HeldIn(ihandle', call', r) = HeldIn(ihandle, call, r)
<1> DEFINE h == call[a].h
           G == ihandle[h].guarded
<1>1. call[a].pc \in InstallPCs
  BY DEF InstallPCs
<1>2. /\ h \in InstallHandles /\ call[a].todo \subseteq G
      /\ \A s : h \in HeldIn(ihandle, call, s) <=>
                  s \in G /\ s \in call[a].todo
  BY <1>1, LoopHeld
<1>3. Holds(a, Rest(a))
  BY UninstallDoneHolds
<1>4. Signo(a) \in Signals
  BY <1>1, SignoType
<1>5. /\ Signo(a) \in call[a].todo
      /\ \A t : t \in Rest(a) <=> t \in call[a].todo /\ t # Signo(a)
  BY <1>1, SignoLeast
<1>6. \A s, g : g \in HeldIn(ihandle, call, s) \cup HeldIn(ihandle', call', s)
                  => g \in InstallHandles
  BY DEF HeldIn
<1>7. \A s : h \in HeldIn(ihandle', call', s) <=>
               h \in HeldIn(ihandle, call, s) /\ s # Signo(a)
  BY <1>2, <1>3, <1>5 DEF Holds
<1>8. \A s : \A g \in InstallHandles \ {h} :
        g \in HeldIn(ihandle', call', s) <=> g \in HeldIn(ihandle, call, s)
  BY <1>3 DEF Holds
<1>9. \A r : r # Signo(a) =>
        HeldIn(ihandle', call', r) = HeldIn(ihandle, call, r)
  BY <1>6, <1>7, <1>8
<1>10. HeldIn(ihandle', call', Signo(a))
         = HeldIn(ihandle, call, Signo(a)) \ {h}
  BY <1>6, <1>7, <1>8
<1>11. h \in HeldIn(ihandle, call, Signo(a))
  BY <1>2, <1>5
<1> QED
  BY <1>3, <1>4, <1>9, <1>10, <1>11 DEF Holds

(* A failed siginstall() turns round and holds what it held.               *)
LEMMA LoopTurns ==
  ASSUME IType, Ownership, NEW a \in Actors, call[a].pc = "installing",
         Rollback(a)
  PROVE  /\ Ownership'
         /\ \A s : HeldIn(ihandle', call', s) = HeldIn(ihandle, call, s)
<1> DEFINE h == call[a].h
           G == ihandle[h].guarded
<1>1. call[a].pc \in InstallPCs
  BY DEF InstallPCs
<1>2. \A s : h \in HeldIn(ihandle, call, s) <=> s \in G /\ s \notin call[a].todo
  BY <1>1, LoopHeld
<1>3. Holds(a, G \ call[a].todo)
  BY RollbackHolds
<1>4. \A s, g : g \in HeldIn(ihandle, call, s) \cup HeldIn(ihandle', call', s)
                  => g \in InstallHandles
  BY DEF HeldIn
<1>5. \A s : h \in HeldIn(ihandle', call', s) <=> h \in HeldIn(ihandle, call, s)
  BY <1>2, <1>3 DEF Holds
<1>6. \A s : \A g \in InstallHandles \ {h} :
        g \in HeldIn(ihandle', call', s) <=> g \in HeldIn(ihandle, call, s)
  BY <1>3 DEF Holds
<1> QED
  BY <1>3, <1>4, <1>5, <1>6 DEF Holds

(* siginstall() and siguninstall() begin: nothing is held that was not.    *)
LEMMA LoopBegins ==
  ASSUME IType, Ownership, NEW a \in Actors, Siginstall(a) \/ Siguninstall(a)
  PROVE  /\ Ownership'
         /\ \A s : HeldIn(ihandle', call', s) = HeldIn(ihandle, call, s)
<1>1. PICK h \in InstallHandles, p \in {"installing", "uninstalling"} :
        \E S \in (SUBSET Signals) \ {{}} : \E r \in InstallHandle :
          /\ ihandle[h].state = IF p = "installing" THEN "unused" ELSE "open"
          /\ p = "uninstalling" => S = ihandle[h].guarded
          /\ r.state = "busy" /\ r.guarded = S
          /\ ihandle' = [ihandle EXCEPT ![h] = r]
          /\ call' = [call EXCEPT ![a] = [Idle EXCEPT !.pc = p, !.todo = S,
                                                      !.h = h]]
  <2>0. ihandle \in [InstallHandles -> InstallHandle]
    BY DEF IType, TypeOK
  <2>1. CASE Siginstall(a)
    <3>1. PICK h \in InstallHandles, S \in (SUBSET Signals) \ {{}} :
            /\ ihandle[h].state = "unused"
            /\ ihandle' = [ihandle EXCEPT ![h] = [state |-> "busy", guarded |-> S]]
            /\ Step(a, [Idle EXCEPT !.pc = "installing", !.todo = S, !.h = h])
      BY <2>1 DEF Siginstall
    <3>2. [state |-> "busy", guarded |-> S] \in InstallHandle
      BY DEF InstallHandle, HandleState
    <3> QED
      BY <3>1, <3>2 DEF Step
  <2>2. CASE Siguninstall(a)
    <3>1. PICK h \in InstallHandles :
            /\ ihandle[h].state = "open"
            /\ ihandle' = [ihandle EXCEPT ![h].state = "busy"]
            /\ Step(a, [Idle EXCEPT !.pc = "uninstalling",
                                    !.todo = ihandle[h].guarded, !.h = h])
      BY <2>2 DEF Siguninstall
    <3>2. ihandle[h] \in InstallHandle
      BY <2>0
    <3> DEFINE r == [ihandle[h] EXCEPT !.state = "busy"]
    <3>3. /\ r \in InstallHandle /\ r.state = "busy"
          /\ r.guarded = ihandle[h].guarded
          /\ ihandle[h].guarded \in (SUBSET Signals) \ {{}}
      BY <3>2 DEF InstallHandle, HandleState
    <3>4. ihandle' = [ihandle EXCEPT ![h] = r]
      BY <2>0, <3>1
    <3> HIDE DEF r
    <3> QED
      BY <3>1, <3>3, <3>4 DEF Step
  <2> QED
    BY <2>1, <2>2
<1>2. PICK S \in (SUBSET Signals) \ {{}}, r \in InstallHandle :
          /\ ihandle[h].state = IF p = "installing" THEN "unused" ELSE "open"
          /\ p = "uninstalling" => S = ihandle[h].guarded
          /\ r.state = "busy" /\ r.guarded = S
          /\ ihandle' = [ihandle EXCEPT ![h] = r]
          /\ call' = [call EXCEPT ![a] = [Idle EXCEPT !.pc = p, !.todo = S,
                                                      !.h = h]]
  BY <1>1
<1> DEFINE k == [Idle EXCEPT !.pc = p, !.todo = S, !.h = h]
<1>3. k.pc = p /\ k.todo = S /\ k.h = h
  BY DEF Idle
<1>4. call[a].pc = "idle"
  BY DEF Siginstall, Siguninstall, At
<1> HIDE DEF k
<1>5. ihandle'[h] = r /\ call'[a] = k
  BY <1>2 DEF IType, TypeOK, k
<1>6. OnlyHandle(a, h)
  BY <1>2, <1>3, <1>4, <1>5 DEF OnlyHandle, IType, TypeOK, InstallPCs
<1>7. Owner(ihandle', call', a)
  BY <1>2, <1>3, <1>5 DEF Owner
<1>8. /\ Ownership' /\ \A b \in Actors : Owns(call', b, h) => b = a
      /\ \A s : \A g \in InstallHandles \ {h} :
           g \in HeldIn(ihandle', call', s) <=> g \in HeldIn(ihandle, call, s)
  BY <1>6, <1>7, OnlyHandleKeeps
<1>9. \A s : h \in HeldIn(ihandle', call', s) <=>
               s \in S /\ IF p = "installing" THEN s \notin S ELSE s \in S
  <2>1. Owns(call', a, h) /\ ihandle'[h].state = "busy"
    BY <1>2, <1>3, <1>5 DEF Owns, InstallPCs
  <2>2. \A s : h \in HeldIn(ihandle', call', s) <=>
          /\ s \in ihandle'[h].guarded
          /\ IF call'[a].pc = "installing" THEN s \notin call'[a].todo
                                           ELSE s \in call'[a].todo
    BY <1>8, <2>1, BusyHeld
  <2> QED
    BY <1>2, <1>3, <1>5, <2>2
<1>10. \A s : h \in HeldIn(ihandle, call, s) <=>
                s \in ihandle[h].guarded /\ ihandle[h].state = "open"
  <2>1. \A b \in Actors : ~Owns(call, b, h)
    BY <1>2 DEF Ownership, Owner, Owns
  <2> QED
    BY <2>1, RestHeld
<1>11. \A s : h \in HeldIn(ihandle', call', s) <=> h \in HeldIn(ihandle, call, s)
  BY <1>2, <1>9, <1>10
<1>12. \A s, g : g \in HeldIn(ihandle, call, s) \cup HeldIn(ihandle', call', s)
                   => g \in InstallHandles
  BY DEF HeldIn
<1> QED
  BY <1>8, <1>11, <1>12

-----------------------------------------------------------------------------
(* The steps of deciders, raises and default actions leave the installs    *)
(* alone.                                                                  *)

SameInstalls(infos) ==
  \A c \in Containers : /\ infos[c].install_count = info[c].install_count
                        /\ infos[c].old_handler = info[c].old_handler

(* Actor a steps from and to control points outside the install loops.     *)
OutsideInstall(a) ==
  /\ \A b \in Actors \ {a} : call'[b] = call[b]
  /\ call[a].pc \notin InstallPCs /\ call'[a].pc \notin InstallPCs

(* The control points of invoke_sigaction() around a default action.       *)
DefaultPCs == {"dfl_set", "dfl_kill", "dfl_restore"}
LoopPCs == InstallPCs \cup DefaultPCs

(* Stepping to a control point outside the loops.                          *)
LEMMA StepOutside ==
  ASSUME TypeOK, NEW a \in Actors, call[a].pc \notin InstallPCs,
         NEW k, Step(a, k), k.pc \notin InstallPCs
  PROVE  OutsideInstall(a) /\ call'[a] = k
  BY DEF TypeOK, Step, OutsideInstall

(* Updates of a container that do not concern its installs.                *)
LEMMA SameInstallsOf ==
  ASSUME NEW infos \in [Containers -> SighandlerInfo], SameInstalls(infos),
         NEW c \in Containers, NEW x, NEW y
  PROVE  /\ SameInstalls([infos EXCEPT ![c].lifetime_refcount = x])
         /\ SameInstalls([infos EXCEPT ![c].global_handler = x])
         /\ SameInstalls([infos EXCEPT ![c] =
                            [@ EXCEPT !.deferred_frees = x, !.global_handler = y]])
         /\ SameInstalls([infos EXCEPT ![c] =
                            [@ EXCEPT !.global_handler = x, !.deferred_frees = y]])
         /\ SameInstalls(Release(infos, c))
<1>1. ASSUME NEW r \in SighandlerInfo, NEW u, NEW v
      PROVE  /\ [r EXCEPT !.lifetime_refcount = u].install_count = r.install_count
             /\ [r EXCEPT !.lifetime_refcount = u].old_handler = r.old_handler
             /\ [r EXCEPT !.global_handler = u].install_count = r.install_count
             /\ [r EXCEPT !.global_handler = u].old_handler = r.old_handler
             /\ [r EXCEPT !.deferred_frees = u, !.global_handler = v].install_count
                  = r.install_count
             /\ [r EXCEPT !.deferred_frees = u, !.global_handler = v].old_handler
                  = r.old_handler
             /\ [r EXCEPT !.global_handler = u, !.deferred_frees = v].install_count
                  = r.install_count
             /\ [r EXCEPT !.global_handler = u, !.deferred_frees = v].old_handler
                  = r.old_handler
             /\ [r EXCEPT !.lifetime_refcount = 0, !.state = "freed",
                          !.global_handler = <<>>, !.deferred_frees = <<>>].install_count
                  = r.install_count
             /\ [r EXCEPT !.lifetime_refcount = 0, !.state = "freed",
                          !.global_handler = <<>>, !.deferred_frees = <<>>].old_handler
                  = r.old_handler
  BY DEF SighandlerInfo
<1>2. infos[c] \in SighandlerInfo
  OBVIOUS
<1>3. ASSUME NEW q, q.install_count = infos[c].install_count,
             q.old_handler = infos[c].old_handler
      PROVE  SameInstalls([infos EXCEPT ![c] = q])
  BY <1>3 DEF SameInstalls
<1>4. SameInstalls([infos EXCEPT ![c] = [infos[c] EXCEPT !.lifetime_refcount = x]])
  BY <1>1, <1>2, <1>3
<1>5. SameInstalls([infos EXCEPT ![c] = [infos[c] EXCEPT !.global_handler = x]])
  BY <1>1, <1>2, <1>3
<1>6. SameInstalls([infos EXCEPT ![c] =
        [infos[c] EXCEPT !.deferred_frees = x, !.global_handler = y]])
  <2> DEFINE q == [infos[c] EXCEPT !.deferred_frees = x, !.global_handler = y]
  <2>1. /\ q.install_count = infos[c].install_count
        /\ q.old_handler = infos[c].old_handler
    BY <1>1, <1>2
  <2> HIDE DEF q
  <2>2. SameInstalls([infos EXCEPT ![c] = q])
    BY <1>3, <2>1
  <2> QED
    BY <2>2 DEF q
<1>7. SameInstalls([infos EXCEPT ![c] =
        [infos[c] EXCEPT !.global_handler = x, !.deferred_frees = y]])
  <2> DEFINE q == [infos[c] EXCEPT !.global_handler = x, !.deferred_frees = y]
  <2>1. /\ q.install_count = infos[c].install_count
        /\ q.old_handler = infos[c].old_handler
    BY <1>1, <1>2
  <2> HIDE DEF q
  <2>2. SameInstalls([infos EXCEPT ![c] = q])
    BY <1>3, <2>1
  <2> QED
    BY <2>2 DEF q
<1>8. SameInstalls(Release(infos, c))
  <2>1. SameInstalls([infos EXCEPT ![c] =
          [infos[c] EXCEPT !.lifetime_refcount = 0, !.state = "freed",
                           !.global_handler = <<>>, !.deferred_frees = <<>>]])
    BY <1>1, <1>2, <1>3
  <2>2. SameInstalls([infos EXCEPT ![c] =
          [infos[c] EXCEPT !.lifetime_refcount = infos[c].lifetime_refcount - 1]])
    BY <1>1, <1>2, <1>3
  <2> QED
    BY <2>1, <2>2 DEF Release
<1> QED
  BY <1>4, <1>5, <1>6, <1>7, <1>8

(* signal_decider_create() and signal_decider_destroy().                   *)
LEMMA DecidersOutside ==
  ASSUME IType, NEW a \in Actors, Deciders(a)
  PROVE  /\ UNCHANGED <<installed, ihandle>> /\ SameInstalls(info') /\ OutsideInstall(a)
         /\ call'[a].pc \notin DefaultPCs
<1>0. TypeOK /\ call[a] \in Call /\ info \in [Containers -> SighandlerInfo]
      /\ SameInstalls(info)
  BY CallType DEF IType, TypeOK, SameInstalls
<1>1. call[a].pc \in DeciderPCs \cup {"idle"} /\ call[a].pc \notin LoopPCs
  BY DEF Deciders, SignalDeciderCreate, CreateUninstalled, CreateNode,
         CreateFails, SignalDeciderDestroy, DestroyLocked, DestroyUninstalled,
         OrphanLoad, OrphanStore, At, DeciderPCs, InstallPCs,
         DefaultPCs, LoopPCs
<1>2. /\ Idle.pc \notin LoopPCs
      /\ \A T, g : [Idle EXCEPT !.pc = "creating", !.todo = T, !.h = g].pc
                     \notin LoopPCs
      /\ \A T, g : [Idle EXCEPT !.pc = "destroying", !.todo = T, !.h = g].pc
                     \notin LoopPCs
      /\ \A T : [call[a] EXCEPT !.todo = T].pc \notin LoopPCs
      /\ \A T : [call[a] EXCEPT !.pc = "destroying", !.todo = T].pc
                  \notin LoopPCs
      /\ \A T : [call[a] EXCEPT !.pc = "destroying", !.todo = T,
                                !.current = NULL].pc \notin LoopPCs
      /\ \A n : [call[a] EXCEPT !.pc = "orphan_load", !.current = n].pc
                  \notin LoopPCs
      /\ \A n : [call[a] EXCEPT !.pc = "orphan_store", !.reg = n].pc
                  \notin LoopPCs
  BY <1>0, <1>1, IdleType DEF Call, InstallPCs, DefaultPCs, LoopPCs
<1>3. \E k : Step(a, k) /\ k.pc \notin LoopPCs
  BY <1>2 DEF Deciders, SignalDeciderCreate, CreateUninstalled, CreateNode,
              CreateFails, SignalDeciderDestroy, DestroyLocked,
              DestroyUninstalled, OrphanLoad, OrphanStore, CreateSlot, SlotDone,
              Return
<1>4. OutsideInstall(a) /\ call'[a].pc \notin DefaultPCs
  BY <1>0, <1>1, <1>3, StepOutside DEF LoopPCs
<1>5. UNCHANGED <<installed, ihandle>>
  BY DEF Deciders, SignalDeciderCreate, CreateUninstalled, CreateNode,
         CreateFails, SignalDeciderDestroy, DestroyLocked, DestroyUninstalled,
         OrphanLoad, OrphanStore, registry, handles, installed
<1>6. SameInstalls(info')
  <2>1. CASE info' = info
    BY <1>0, <2>1
  <2>2. CASE CreateNode(a)
    <3>1. map[Signo(a)] \in Containers
      <4>1. Signo(a) \in Signals
        BY <2>2, SignoType DEF CreateNode, At, DeciderPCs
      <4> QED
        BY <1>0, <2>2, <4>1 DEF CreateNode, TypeOK
    <3>2. PICK x : info' = [info EXCEPT ![map[Signo(a)]].global_handler = x]
      BY <2>2 DEF CreateNode
    <3>3. SameInstalls([info EXCEPT ![map[Signo(a)]].global_handler = x])
      BY <1>0, <3>1, SameInstallsOf
    <3> QED
      BY <3>2, <3>3
  <2>3. CASE DestroyLocked(a)
    <3>1. map[Signo(a)] \in Containers
      <4>1. Signo(a) \in Signals
        BY <2>3, SignoType DEF DestroyLocked, At, DeciderPCs
      <4> QED
        BY <1>0, <2>3, <4>1 DEF DestroyLocked, TypeOK
    <3>2. PICK x, y : info' = [info EXCEPT ![map[Signo(a)]] =
             [@ EXCEPT !.deferred_frees = x, !.global_handler = y]]
      BY <2>3 DEF DestroyLocked
    <3>3. SameInstalls([info EXCEPT ![map[Signo(a)]] =
             [@ EXCEPT !.deferred_frees = x, !.global_handler = y]])
      BY <1>0, <3>1, SameInstallsOf
    <3> QED
      BY <3>2, <3>3
  <2> QED
    BY <2>1, <2>2, <2>3 DEF Deciders, SignalDeciderCreate, CreateUninstalled,
         CreateFails, SignalDeciderDestroy, DestroyUninstalled, OrphanLoad,
         OrphanStore, registry
<1> QED
  BY <1>4, <1>5, <1>6

(* stdc_raise() and the deciders it calls.                                 *)
LEMMA RaiseOutside ==
  ASSUME IType, NEW a \in Actors, Raise(a)
  PROVE  /\ UNCHANGED <<installed, ihandle>> /\ SameInstalls(info') /\ OutsideInstall(a)
         /\ call'[a].pc \notin DefaultPCs
<1>0. TypeOK /\ call[a] \in Call /\ info \in [Containers -> SighandlerInfo]
      /\ SameInstalls(info)
  BY CallType DEF IType, TypeOK, SameInstalls
<1>1. /\ call[a].pc \in {"idle", "raising", "decider", "abandoned", "resuming"}
      /\ call[a].pc \notin LoopPCs
  BY DEF Raise, StdcRaise, RawSignalHandler, RaiseUninstalled, RaiseNoDecider,
         RaiseEnter, DeciderNext, DeciderExhausted, DeciderClaims, Abandon,
         LeaveAbandoned, AbandonResume, AbandonResumeLocked, At, InstallPCs,
         DefaultPCs, LoopPCs
<1>2. /\ Idle.pc \notin LoopPCs
      /\ \A s : [Idle EXCEPT !.pc = "raising", !.signo = s].pc \notin LoopPCs
      /\ \A s : [Idle EXCEPT !.pc = "raising", !.signo = s,
                             !.delivered = TRUE].pc \notin LoopPCs
      /\ \A o : [call[a] EXCEPT !.pc = "handoff", !.sa = o].pc \notin LoopPCs
      /\ \A c, n, o, M, S :
           [call[a] EXCEPT !.pc = "decider", !.item = c, !.current = n, !.sa = o,
                           !.must = M, !.seen = S].pc \notin LoopPCs
      /\ \A n, S : [call[a] EXCEPT !.current = n, !.seen = S].pc \notin LoopPCs
      /\ [call[a] EXCEPT !.pc = "handoff", !.item = NULL,
                         !.current = NULL].pc \notin LoopPCs
      /\ [call[a] EXCEPT !.pc = "abandoned"].pc \notin LoopPCs
      /\ [call[a] EXCEPT !.pc = "resuming"].pc \notin LoopPCs
      /\ [call[a] EXCEPT !.pc = "decider"].pc \notin LoopPCs
  BY <1>0, <1>1, IdleType DEF Call, InstallPCs, DefaultPCs, LoopPCs
<1>3. \E k : Step(a, k) /\ k.pc \notin LoopPCs
  BY <1>2 DEF Raise, StdcRaise, RawSignalHandler, RaiseUninstalled,
         RaiseNoDecider, RaiseEnter, DeciderNext, DeciderExhausted,
         DeciderClaims, Abandon, LeaveAbandoned, AbandonResume,
         AbandonResumeLocked, Return
<1>4. OutsideInstall(a) /\ call'[a].pc \notin DefaultPCs
  BY <1>0, <1>1, <1>3, StepOutside DEF LoopPCs
<1>5. UNCHANGED <<installed, ihandle>>
  BY DEF Raise, StdcRaise, RawSignalHandler, RaiseUninstalled, RaiseNoDecider,
         RaiseEnter, DeciderNext, DeciderExhausted, DeciderClaims, Abandon,
         LeaveAbandoned, AbandonResume, AbandonResumeLocked, registry, handles,
         installed
<1>6. CASE info' = info
  BY <1>0, <1>4, <1>5, <1>6
<1>7. CASE RaiseEnter(a) \/ Abandon(a) \/ AbandonResumeLocked(a)
  <2>1. PICK c \in Containers : \E x :
          info' = [info EXCEPT ![c].lifetime_refcount = x]
    <3>1. CASE RaiseEnter(a)
      <4>1. map[call[a].signo] \in Containers
        BY <1>0, <3>1 DEF RaiseEnter, At, IType, CallShape, ShapeOf, RaisePCs,
                          TypeOK
      <4> QED
        BY <3>1, <4>1 DEF RaiseEnter
    <3>2. CASE Abandon(a) \/ AbandonResumeLocked(a)
      <4>1. call[a].item \in Containers
        BY <3>2, InsideType DEF Abandon, AbandonResumeLocked, At, InsidePCs
      <4> QED
        BY <3>2, <4>1 DEF Abandon, AbandonResumeLocked
    <3> QED
      BY <1>7, <3>1, <3>2
  <2>2. PICK x : info' = [info EXCEPT ![c].lifetime_refcount = x]
    BY <2>1
  <2>3. SameInstalls([info EXCEPT ![c].lifetime_refcount = x])
    BY <1>0, SameInstallsOf
  <2> QED
    BY <1>4, <1>5, <2>2, <2>3
<1>8. CASE DeciderNext(a) \/ DeciderExhausted(a) \/ DeciderClaims(a)
  <2>1. call[a].pc = "decider"
    BY <1>8 DEF DeciderNext, DeciderExhausted, DeciderClaims, At
  <2>2. /\ call[a].item \in Containers
        /\ UnpinnedInfo(a) \in [Containers -> SighandlerInfo]
    BY <1>0, <2>1, InsideType, UnpinnedCounts DEF InsidePCs
  <2>3. SameInstalls(UnpinnedInfo(a))
    <3> DEFINE c == call[a].item
               x == LIST_REMOVE(info[c].global_handler, call[a].current)
               y == LIST_INSERT(info[c].deferred_frees, call[a].current, FALSE)
    <3>1. SameInstalls([info EXCEPT ![c] =
            [@ EXCEPT !.global_handler = x, !.deferred_frees = y]])
      BY <1>0, <2>2, SameInstallsOf
    <3> QED
      BY <1>0, <3>1 DEF UnpinnedInfo
  <2>4. SameInstalls(Release(UnpinnedInfo(a), call[a].item))
    BY <2>2, <2>3, SameInstallsOf
  <2>5. info' = UnpinnedInfo(a) \/ info' = Release(UnpinnedInfo(a), call[a].item)
    BY <1>8 DEF DeciderNext, DeciderExhausted, DeciderClaims, RaiseRelease
  <2> QED
    BY <1>4, <1>5, <2>3, <2>4, <2>5
<1> QED
  BY <1>6, <1>7, <1>8 DEF Raise, StdcRaise, RawSignalHandler, RaiseUninstalled,
         RaiseNoDecider, LeaveAbandoned, AbandonResume, registry

(* invoke_sigaction() touches the kernel's disposition alone.              *)
LEMMA InvokeOutside ==
  ASSUME IType, NEW a \in Actors, Invoke(a)
  PROVE  /\ UNCHANGED <<map, sighandlers_count, ihandle>>
         /\ SameInstalls(info') /\ OutsideInstall(a)
<1>0. TypeOK /\ call[a] \in Call
  BY CallType DEF IType
<1>1. call[a].pc \notin InstallPCs
  BY DEF Invoke, InvokeOther, InvokeRawSignalHandler, InvokeDefault, DefaultSet,
         DefaultKill, DefaultRestore, At, InstallPCs
<1>2. /\ Idle.pc \notin InstallPCs
      /\ \A s : [Idle EXCEPT !.pc = "raising", !.signo = s,
                             !.delivered = TRUE].pc \notin InstallPCs
      /\ \A o : [call[a] EXCEPT !.pc = "dfl_set", !.sa = o].pc \notin InstallPCs
      /\ \A p \in {"dfl_kill", "dfl_restore", "terminated"} :
           [call[a] EXCEPT !.pc = p].pc \notin InstallPCs
  BY <1>0, IdleType DEF Call, InstallPCs
<1>3. \E k : Step(a, k) /\ k.pc \notin InstallPCs
  BY <1>2 DEF Invoke, InvokeOther, InvokeRawSignalHandler, InvokeDefault,
         DefaultSet, DefaultKill, DefaultRestore, Return
<1>4. OutsideInstall(a)
  BY <1>0, <1>1, <1>3, StepOutside
<1>5. UNCHANGED <<map, sighandlers_count, ihandle, info>>
  BY DEF Invoke, InvokeOther, InvokeRawSignalHandler, InvokeDefault, DefaultSet,
         DefaultKill, DefaultRestore, registry, handles
<1> QED
  BY <1>4, <1>5 DEF SameInstalls

(* So the installs are accounted for as before.                            *)
LEMMA OutsideFrame ==
  ASSUME InstallInv, NEW a \in Actors, OutsideInstall(a), SameInstalls(info'),
         UNCHANGED <<map, sighandlers_count, ihandle>>
  PROVE  Ownership' /\ InstallAccounting'
<1>1. \A b \in Actors : \/ call'[b] = call[b]
                        \/ /\ call[b].pc \notin InstallPCs
                           /\ call'[b].pc \notin InstallPCs
  BY DEF OutsideInstall
<1>2. \A s : HeldIn(ihandle', call', s) = HeldIn(ihandle, call, s)
  BY <1>1 DEF HeldIn, InstallPCs
<1>3. Ownership'
  <2>1. \A b \in Actors : Owner(ihandle', call', b)
    BY <1>1 DEF InstallInv, Ownership, Owner
  <2>2. \A b \in Actors, h \in InstallHandles :
          Owns(call', b, h) => Owns(call, b, h)
    BY <1>1 DEF Owns
  <2>3. OneOwner(call')
    BY <2>2 DEF InstallInv, Ownership, OneOwner
  <2> QED
    BY <2>1, <2>3 DEF Ownership
<1>4. \A s \in Signals : map[s] # NULL =>
        info'[map[s]].install_count = info[map[s]].install_count
  BY DEF SameInstalls, InstallInv, Lifetime, IType, TypeOK
<1>5. Accounted(map, sighandlers_count, info, ihandle, call)
  BY AccountingSame DEF InstallInv
<1>6. Accounted(map, sighandlers_count, info', ihandle', call')
  BY <1>2, <1>4, <1>5, AccountSame
<1> QED
  BY <1>3, <1>6, AccountingSame

-----------------------------------------------------------------------------
(* What the install loops do to the map and the containers, in the terms   *)
(* of the signal s they are at.                                            *)

(* Nothing changes for the signals other than s.                           *)
OtherSignals(s) ==
  \A r \in Signals \ {s} :
    /\ map'[r] = map[r]
    /\ map[r] # NULL =>
         /\ info'[map[r]].install_count = info[map[r]].install_count
         /\ info'[map[r]].old_handler = info[map[r]].old_handler

(* install_sighandler() of a signal that had no container.                 *)
LEMMA InstallFirstEffect ==
  ASSUME Lifetime, NEW a \in Actors, InstallFirst(a)
  PROVE  /\ OtherSignals(Signo(a)) /\ Signo(a) \in Signals
         /\ map[Signo(a)] = NULL /\ map'[Signo(a)] # NULL
         /\ info'[map'[Signo(a)]].install_count = 1
         /\ info'[map'[Signo(a)]].old_handler = disposition[Signo(a)]
<1>0. TypeOK /\ info \in [Containers -> SighandlerInfo]
      /\ map \in [Signals -> Containers \cup {NULL}]
  BY DEF Lifetime, IType, TypeOK
<1>1. Signo(a) \in Signals
  BY SignoType DEF Lifetime, InstallFirst, At, InstallPCs
<1> DEFINE new == [state |-> "live", install_count |-> 1, lifetime_refcount |-> 1,
                   old_handler |-> disposition[Signo(a)],
                   global_handler |-> <<>>, deferred_frees |-> <<>>]
<1>2. PICK c \in Containers :
        /\ info[c].state = "unused" /\ info' = [info EXCEPT ![c] = new]
        /\ map' = [map EXCEPT ![Signo(a)] = c]
  BY DEF InstallFirst
<1>3. new.install_count = 1 /\ new.old_handler = disposition[Signo(a)]
  OBVIOUS
<1> HIDE DEF new
<1>4. c # NULL
  BY NullAssumption
<1>5. \A r \in Signals : map[r] # NULL => map[r] # c
  BY <1>2 DEF Lifetime, LiveWhileHeld
<1>6. OtherSignals(Signo(a))
  BY <1>0, <1>2, <1>5 DEF OtherSignals
<1>7. map'[Signo(a)] = c /\ info'[c] = new
  BY <1>0, <1>1, <1>2
<1> QED
  BY <1>1, <1>3, <1>4, <1>6, <1>7 DEF InstallFirst

(* install_sighandler() of a signal that had one.                          *)
LEMMA InstallAgainEffect ==
  ASSUME Lifetime, NEW a \in Actors, InstallAgain(a)
  PROVE  /\ OtherSignals(Signo(a)) /\ Signo(a) \in Signals
         /\ map[Signo(a)] # NULL /\ map' = map
         /\ info'[map[Signo(a)]].install_count
              = info[map[Signo(a)]].install_count + 1
         /\ info'[map[Signo(a)]].old_handler = info[map[Signo(a)]].old_handler
<1>0. TypeOK /\ info \in [Containers -> SighandlerInfo]
      /\ map \in [Signals -> Containers \cup {NULL}]
  BY DEF Lifetime, IType, TypeOK
<1>1. Signo(a) \in Signals
  BY SignoType DEF Lifetime, InstallAgain, At, InstallPCs
<1> DEFINE c == map[Signo(a)]
           new == [info[c] EXCEPT !.install_count = info[c].install_count + 1]
<1>2. c \in Containers /\ map' = map /\ info' = [info EXCEPT ![c] = new]
  BY <1>0, <1>1 DEF InstallAgain
<1>3. /\ new.install_count = info[c].install_count + 1
      /\ new.old_handler = info[c].old_handler
  <2>1. info[c] \in SighandlerInfo
    BY <1>0, <1>2
  <2> QED
    BY <2>1 DEF SighandlerInfo
<1> HIDE DEF new
<1>4. \A r \in Signals \ {Signo(a)} : map[r] # NULL => map[r] # c
  BY <1>1 DEF Lifetime, MapInjective
<1>5. OtherSignals(Signo(a))
  BY <1>0, <1>2, <1>4 DEF OtherSignals
<1>6. info'[c] = new
  BY <1>0, <1>2
<1>7. map[Signo(a)] # NULL
  BY DEF InstallAgain
<1> QED
  BY <1>1, <1>2, <1>3, <1>5, <1>6, <1>7

(* uninstall_sighandler() of an installed signal.                          *)
LEMMA UninstallEffect ==
  ASSUME Lifetime, NEW a \in Actors, UninstallSighandler(a),
         map[Signo(a)] # NULL
  PROVE  LET c == map[Signo(a)] IN
         /\ OtherSignals(Signo(a)) /\ Signo(a) \in Signals
         /\ sighandlers_count' = sighandlers_count - 1
         /\ \/ /\ info[c].install_count = 1 /\ map'[Signo(a)] = NULL
               /\ disposition' = [disposition EXCEPT ![Signo(a)] =
                                                        info[c].old_handler]
            \/ /\ map'[Signo(a)] = c /\ disposition' = disposition
               /\ info'[c].install_count = info[c].install_count - 1
               /\ info'[c].old_handler = info[c].old_handler
<1>0. TypeOK /\ info \in [Containers -> SighandlerInfo]
      /\ map \in [Signals -> Containers \cup {NULL}]
  BY DEF Lifetime, IType, TypeOK
<1>1. Signo(a) \in Signals
  BY SignoType DEF Lifetime, UninstallSighandler, At, InstallPCs
<1> DEFINE c == map[Signo(a)]
<1>2. c \in Containers /\ info[c] \in SighandlerInfo
  BY <1>0, <1>1
<1>3. Uninstalled(c) \in [Containers -> SighandlerInfo]
  BY <1>0, <1>2, UninstalledType
<1>4. /\ \A d \in Containers : d # c => Uninstalled(c)[d] = info[d]
      /\ Uninstalled(c)[c].install_count = info[c].install_count - 1
      /\ Uninstalled(c)[c].old_handler = info[c].old_handler
  <2> DEFINE q == [info[c] EXCEPT !.install_count = info[c].install_count - 1,
                                  !.deferred_frees = <<>>]
  <2>1. /\ q.install_count = info[c].install_count - 1
        /\ q.old_handler = info[c].old_handler
    BY <1>2 DEF SighandlerInfo
  <2>2. Uninstalled(c) = [info EXCEPT ![c] = q]
    BY <1>0, <1>2 DEF Uninstalled
  <2> HIDE DEF q
  <2> QED
    BY <1>0, <1>2, <2>1, <2>2
<1>5. \A d \in Containers : d # c => Release(Uninstalled(c), c)[d] = info[d]
  BY <1>2, <1>3, <1>4, ReleaseCounts
<1>6. \A r \in Signals \ {Signo(a)} : map[r] # NULL =>
        map[r] \in Containers /\ map[r] # c
  BY <1>0, <1>1 DEF Lifetime, MapInjective
<1>7. /\ sighandlers_count' = sighandlers_count - 1
      /\ IF info[c].install_count = 1
         THEN /\ disposition' = [disposition EXCEPT ![Signo(a)] =
                                                       info[c].old_handler]
              /\ map' = [map EXCEPT ![Signo(a)] = NULL]
              /\ info' = Release(Uninstalled(c), c)
         ELSE info' = Uninstalled(c) /\ UNCHANGED <<disposition, map>>
  BY DEF UninstallSighandler
<1>8. OtherSignals(Signo(a))
  BY <1>0, <1>4, <1>5, <1>6, <1>7 DEF OtherSignals
<1> QED
  BY <1>0, <1>1, <1>4, <1>7, <1>8

(* A siginstall() that fails in its signal leaves every container in the   *)
(* map alone.                                                              *)
LEMMA InstallFailsEffect ==
  ASSUME Lifetime, NEW a \in Actors, InstallFails(a) \/ InstallTssFails(a)
  PROVE  /\ UNCHANGED installed
         /\ \A r \in Signals : map[r] # NULL => info'[map[r]] = info[map[r]]
<1>0. info \in [Containers -> SighandlerInfo]
      /\ map \in [Signals -> Containers \cup {NULL}]
  BY DEF Lifetime, IType, TypeOK
<1>1. UNCHANGED installed
  BY DEF InstallFails, InstallTssFails, registry, installed
<1>2. info' = info \/ \E c \in Containers :
        info[c].state = "unused" /\ info' = [info EXCEPT ![c].state = "freed"]
  BY DEF InstallFails, InstallTssFails, registry
<1>3. \A r \in Signals : map[r] # NULL => info[map[r]].state = "live"
  BY DEF Lifetime, LiveWhileHeld
<1> QED
  BY <1>0, <1>1, <1>2, <1>3

-----------------------------------------------------------------------------
(* The steps of siginstall() and siguninstall() keep the counts.           *)

(* One more signal is installed.                                           *)
LEMMA InstallsKept ==
  ASSUME InstallInv, NEW a \in Actors, InstallFirst(a) \/ InstallAgain(a)
  PROVE  Ownership' /\ InstallAccounting'
<1>0. Lifetime /\ IType /\ Ownership
      /\ Accounted(map, sighandlers_count, info, ihandle, call)
  BY AccountingSame DEF InstallInv, Lifetime
<1>1. call[a].pc = "installing" /\ InstallDone(a)
      /\ sighandlers_count' = sighandlers_count + 1
  BY DEF InstallFirst, InstallAgain, At
<1>2. /\ Ownership' /\ Signo(a) \in Signals /\ call[a].h \in InstallHandles
      /\ call[a].h \notin HeldIn(ihandle, call, Signo(a))
      /\ HeldIn(ihandle', call', Signo(a))
           = HeldIn(ihandle, call, Signo(a)) \cup {call[a].h}
      /\ \A r \in Signals \ {Signo(a)} :
           HeldIn(ihandle', call', r) = HeldIn(ihandle, call, r)
  BY <1>0, <1>1, LoopAdds
<1>3. /\ OtherSignals(Signo(a)) /\ map'[Signo(a)] # NULL
      /\ info'[map'[Signo(a)]].install_count =
           IF map[Signo(a)] = NULL THEN 1
                                   ELSE info[map[Signo(a)]].install_count + 1
  <2>1. CASE InstallFirst(a)
    BY <1>0, <2>1, InstallFirstEffect
  <2>2. CASE InstallAgain(a)
    BY <1>0, <2>2, InstallAgainEffect
  <2> QED
    BY <2>1, <2>2
<1>4. \A r \in Signals \ {Signo(a)} : map'[r] = map[r] /\
        (map[r] # NULL =>
           info'[map[r]].install_count = info[map[r]].install_count)
  BY <1>3 DEF OtherSignals
<1>5. Accounted(map', sighandlers_count + 1, info', ihandle', call')
  BY <1>0, <1>2, <1>3, <1>4, AccountAdd
<1> QED
  BY <1>1, <1>2, <1>5, AccountingSame

(* One signal less is installed.  It was installed, so the early return of *)
(* uninstall_sighandler() for a signal with no container is never taken.   *)
LEMMA UninstallsKept ==
  ASSUME InstallInv, NEW a \in Actors, UninstallSighandler(a)
  PROVE  Ownership' /\ InstallAccounting' /\ map[Signo(a)] # NULL
<1>0. Lifetime /\ IType /\ Ownership
      /\ Accounted(map, sighandlers_count, info, ihandle, call)
  BY AccountingSame DEF InstallInv, Lifetime
<1>1. call[a].pc \in {"uninstalling", "rollback"} /\ UninstallDone(a)
  BY DEF UninstallSighandler, At
<1>2. /\ Ownership' /\ Signo(a) \in Signals
      /\ call[a].h \in HeldIn(ihandle, call, Signo(a))
      /\ HeldIn(ihandle', call', Signo(a))
           = HeldIn(ihandle, call, Signo(a)) \ {call[a].h}
      /\ \A r \in Signals \ {Signo(a)} :
           HeldIn(ihandle', call', r) = HeldIn(ihandle, call, r)
  BY <1>0, <1>1, LoopRemoves
<1>3. map[Signo(a)] # NULL
  <2>1. HeldIn(ihandle, call, Signo(a)) # {}
    BY <1>2
  <2> QED
    BY <1>0, <1>2, <2>1 DEF Accounted
<1> DEFINE c == map[Signo(a)]
<1>4. /\ OtherSignals(Signo(a)) /\ sighandlers_count' = sighandlers_count - 1
      /\ \/ info[c].install_count = 1 /\ map'[Signo(a)] = NULL
         \/ /\ map'[Signo(a)] = c
            /\ info'[c].install_count = info[c].install_count - 1
  BY <1>0, <1>3, UninstallEffect
<1>5. \A r \in Signals \ {Signo(a)} : map'[r] = map[r] /\
        (map[r] # NULL =>
           info'[map[r]].install_count = info[map[r]].install_count)
  BY <1>4 DEF OtherSignals
<1>6. Accounted(map', sighandlers_count - 1, info', ihandle', call')
  BY <1>0, <1>2, <1>4, <1>5, AccountRemove
<1> QED
  BY <1>2, <1>3, <1>4, <1>6, AccountingSame

(* A signal fails, or a loop begins: nothing is counted anew.              *)
LEMMA LoopsKept ==
  ASSUME InstallInv, NEW a \in Actors,
         \/ InstallFails(a) \/ InstallTssFails(a)
         \/ Siginstall(a) \/ Siguninstall(a)
  PROVE  Ownership' /\ InstallAccounting'
<1>0. Lifetime /\ IType /\ Ownership
      /\ Accounted(map, sighandlers_count, info, ihandle, call)
  BY AccountingSame DEF InstallInv, Lifetime
<1>1. Ownership' /\ \A s : HeldIn(ihandle', call', s) = HeldIn(ihandle, call, s)
  <2>1. CASE InstallFails(a) \/ InstallTssFails(a)
    <3>1. call[a].pc = "installing" /\ Rollback(a)
      BY <2>1 DEF InstallFails, InstallTssFails, At
    <3> QED
      BY <1>0, <3>1, LoopTurns
  <2>2. CASE Siginstall(a) \/ Siguninstall(a)
    BY <1>0, <2>2, LoopBegins
  <2> QED
    BY <2>1, <2>2
<1>2. /\ UNCHANGED <<map, sighandlers_count>>
      /\ \A s \in Signals : map[s] # NULL =>
           info'[map[s]].install_count = info[map[s]].install_count
  <2>1. CASE InstallFails(a) \/ InstallTssFails(a)
    BY <1>0, <2>1, InstallFailsEffect DEF installed
  <2>2. CASE Siginstall(a) \/ Siguninstall(a)
    BY <2>2 DEF Siginstall, Siguninstall, registry
  <2> QED
    BY <2>1, <2>2
<1>3. Accounted(map, sighandlers_count, info', ihandle', call')
  BY <1>0, <1>1, <1>2, AccountSame
<1> QED
  BY <1>1, <1>2, <1>3, AccountingSame

-----------------------------------------------------------------------------
(* The initial state satisfies the invariant: nothing is installed.        *)
LEMMA InstallInit == Init => InstallInv
<1> SUFFICES ASSUME Init PROVE InstallInv
  OBVIOUS
<1>1. Lifetime
  BY LifetimeInit
<1>2. \A a \in Actors : call[a].pc \notin InstallPCs
  BY IdleType DEF Init, InstallPCs
<1>3. Ownership
  BY <1>2 DEF Ownership, Owner, OneOwner, Owns
<1>4. \A h \in InstallHandles : ihandle[h].state # "open"
  BY DEF Init, NoInstallHandle
<1>5. \A s : HeldIn(ihandle, call, s) = {}
  BY <1>2, <1>4 DEF HeldIn, InstallPCs
<1>6. Pairs(ihandle, call) = {}
  BY <1>5 DEF Pairs
<1>7. Cardinality(Pairs(ihandle, call)) = 0
  BY <1>6, FS_EmptySet
<1>8. Accounted(map, sighandlers_count, info, ihandle, call)
  BY <1>5, <1>7 DEF Accounted, Init
<1> QED
  BY <1>1, <1>3, <1>8, AccountingSame DEF InstallInv

(* Every step preserves it.                                                *)
LEMMA InstallNext == InstallInv /\ [Next]_vars => InstallInv'
<1> SUFFICES ASSUME InstallInv, [Next]_vars PROVE InstallInv'
  OBVIOUS
<1>1. Lifetime'
  BY LifetimeNext DEF InstallInv
<1>2. CASE UNCHANGED vars
  BY <1>1, <1>2 DEF vars, InstallInv, Ownership, Owner, OneOwner, Owns,
                    InstallAccounting, Installs
<1>3. ASSUME NEW a \in Actors, Install(a)
      PROVE  Ownership' /\ InstallAccounting'
  BY <1>3, InstallsKept, UninstallsKept, LoopsKept DEF Install
<1>4. ASSUME NEW a \in Actors, Deciders(a) \/ Raise(a) \/ Invoke(a)
      PROVE  Ownership' /\ InstallAccounting'
  <2>0. IType
    BY DEF InstallInv, Lifetime
  <2>1. /\ UNCHANGED <<map, sighandlers_count, ihandle>>
        /\ SameInstalls(info') /\ OutsideInstall(a)
    BY <1>4, <2>0, DecidersOutside, RaiseOutside, InvokeOutside DEF installed
  <2> QED
    BY <2>1, OutsideFrame
<1>5. CASE Next
  BY <1>1, <1>3, <1>4, <1>5 DEF Next, InstallInv
<1> QED
  BY <1>2, <1>5

(* The invariant holds in every state.                                     *)
LEMMA InstallInvariant == Spec => []InstallInv
  BY InstallInit, InstallNext, PTL DEF Spec

(* install_count counts the siginstall() calls that hold each signal and   *)
(* sighandlers_count all of them, calls in progress and failing half way   *)
(* included: the last siguninstall() of a signal, and no other, takes the  *)
(* branch of uninstall_sighandler() that restores the old handler.         *)
THEOREM InstallsCounted == Spec => []InstallAccounting
<1>1. InstallInv => InstallAccounting
  BY DEF InstallInv
<1> QED
  BY <1>1, InstallInvariant, PTL

-----------------------------------------------------------------------------
(* The kernel's dispositions, for the signals that are ignored by default. *)
Ignored(s) == DefaultAction[s] = "ignore"

(* Only other signals have a default action to take.                       *)
DefaultsTaken ==
  \A a \in Actors : call[a].pc \in DefaultPCs => ~Ignored(call[a].signo)

(* The inductive invariant.                                                *)
DispositionInv == Lifetime /\ DispositionMatchesMap /\ DefaultsTaken

(* The install loops take no default action.                               *)
LEMMA LoopsNoDefault ==
  ASSUME IType, NEW a \in Actors, Install(a)
  PROVE  /\ \A b \in Actors \ {a} : call'[b] = call[b]
         /\ call'[a].pc \notin DefaultPCs
<1>0. call \in [Actors -> Call] /\ call[a] \in Call
  BY CallType DEF IType, TypeOK
<1>1. call[a].pc \notin DefaultPCs
  BY DEF Install, Siginstall, InstallFirst, InstallAgain, InstallFails,
         InstallTssFails, Siguninstall, UninstallSighandler, At, DefaultPCs
<1>2. /\ Idle.pc \notin DefaultPCs
      /\ \A T, h : [Idle EXCEPT !.pc = "installing", !.todo = T, !.h = h].pc
                     \notin DefaultPCs
      /\ \A T, h : [Idle EXCEPT !.pc = "uninstalling", !.todo = T, !.h = h].pc
                     \notin DefaultPCs
      /\ \A T : [call[a] EXCEPT !.todo = T].pc \notin DefaultPCs
      /\ \A T : [call[a] EXCEPT !.pc = "rollback", !.todo = T].pc
                  \notin DefaultPCs
  BY <1>0, <1>1, IdleType DEF Call, DefaultPCs
<1>3. \E k : Step(a, k) /\ k.pc \notin DefaultPCs
  BY <1>2 DEF Install, Siginstall, InstallFirst, InstallAgain, InstallFails,
         InstallTssFails, Siguninstall, UninstallSighandler, InstallDone,
         UninstallDone, Rollback, Return
<1> QED
  BY <1>0, <1>3 DEF Step

(* Where no disposition and no old handler of an ignored signal changes.   *)
LEMMA DispositionFrame ==
  ASSUME DispositionInv, UNCHANGED map,
         \A s \in Signals : Ignored(s) =>
           /\ disposition'[s] = disposition[s]
           /\ map[s] # NULL =>
                info'[map[s]].old_handler = info[map[s]].old_handler
  PROVE  DispositionMatchesMap'
  BY DEF DispositionInv, DispositionMatchesMap, Ignored

(* The steps of siginstall() and siguninstall().                           *)
LEMMA DispositionInstall ==
  ASSUME DispositionInv, NEW a \in Actors, Install(a)
  PROVE  DispositionMatchesMap'
<1>0. Lifetime /\ DispositionMatchesMap /\ IType
      /\ disposition \in [Signals -> Dispositions]
  BY DEF DispositionInv, Lifetime, IType, TypeOK
<1>1. CASE InstallFirst(a)
  <2> DEFINE s == Signo(a)
  <2>1. /\ OtherSignals(s) /\ s \in Signals
        /\ map[s] = NULL /\ map'[s] # NULL
        /\ info'[map'[s]].old_handler = disposition[s]
    BY <1>0, <1>1, InstallFirstEffect
  <2>2. disposition' = [disposition EXCEPT ![s] = "raw_signal_handler"]
    BY <1>1 DEF InstallFirst
  <2> HIDE DEF s
  <2> QED
    BY <1>0, <2>1, <2>2 DEF DispositionMatchesMap, OtherSignals, Ignored
<1>2. CASE InstallAgain(a)
  <2> DEFINE s == Signo(a)
  <2>1. /\ OtherSignals(s) /\ s \in Signals /\ map' = map
        /\ info'[map[s]].old_handler = info[map[s]].old_handler
    BY <1>0, <1>2, InstallAgainEffect
  <2>2. disposition' = disposition
    BY <1>2 DEF InstallAgain
  <2> HIDE DEF s
  <2> QED
    BY <1>0, <2>1, <2>2, DispositionFrame DEF OtherSignals
<1>3. CASE InstallFails(a) \/ InstallTssFails(a)
  BY <1>0, <1>3, InstallFailsEffect, DispositionFrame DEF installed
<1>4. CASE Siginstall(a) \/ Siguninstall(a)
  BY <1>4, DispositionFrame DEF Siginstall, Siguninstall, registry
<1>5. CASE UninstallSighandler(a) /\ map[Signo(a)] = NULL
  BY <1>5, DispositionFrame DEF UninstallSighandler, registry
<1>6. CASE UninstallSighandler(a) /\ map[Signo(a)] # NULL
  <2> DEFINE s == Signo(a)
             c == map[s]
  <2>1. /\ OtherSignals(s) /\ s \in Signals
        /\ \/ /\ map'[s] = NULL
              /\ disposition' = [disposition EXCEPT ![s] = info[c].old_handler]
           \/ /\ map'[s] = c /\ disposition' = disposition
              /\ info'[c].old_handler = info[c].old_handler
    BY <1>0, <1>6, UninstallEffect
  <2>2. map[s] # NULL
    BY <1>6
  <2> HIDE DEF s
  <2> QED
    BY <1>0, <2>1, <2>2 DEF DispositionMatchesMap, OtherSignals, Ignored
<1> QED
  BY <1>1, <1>2, <1>3, <1>4, <1>5, <1>6 DEF Install

(* The steps of invoke_sigaction().                                        *)
LEMMA DispositionInvoke ==
  ASSUME DispositionInv, NEW a \in Actors, Invoke(a)
  PROVE  DispositionMatchesMap' /\ DefaultsTaken'
<1>0. TypeOK /\ call[a] \in Call /\ call \in [Actors -> Call]
      /\ disposition \in [Signals -> Dispositions]
  BY CallType DEF DispositionInv, Lifetime, IType, TypeOK
<1>1. UNCHANGED <<map, info>>
  BY DEF Invoke, InvokeOther, InvokeRawSignalHandler, InvokeDefault, DefaultSet,
         DefaultKill, DefaultRestore, registry
<1>2. ASSUME NEW s \in Signals, Ignored(s)
      PROVE  disposition'[s] = disposition[s]
  <2>1. CASE UNCHANGED disposition
    BY <2>1
  <2>2. CASE DefaultSet(a) \/ DefaultRestore(a)
    <3>1. call[a].pc \in DefaultPCs
      BY <2>2 DEF DefaultSet, DefaultRestore, At, DefaultPCs
    <3>2. call[a].signo # s
      BY <1>2, <3>1 DEF DispositionInv, DefaultsTaken
    <3> QED
      BY <1>0, <2>2, <3>2 DEF DefaultSet, DefaultRestore
  <2> QED
    BY <2>1, <2>2 DEF Invoke, InvokeOther, InvokeRawSignalHandler,
         InvokeDefault, DefaultKill, registry
<1>3. PICK k : /\ Step(a, k)
               /\ k.pc \in DefaultPCs =>
                    k.signo = call[a].signo /\ ~Ignored(call[a].signo)
  <2>1. CASE InvokeOther(a) \/ InvokeRawSignalHandler(a)
    <3>1. /\ Idle.pc \notin DefaultPCs
          /\ \A s : [Idle EXCEPT !.pc = "raising", !.signo = s,
                                 !.delivered = TRUE].pc \notin DefaultPCs
      BY IdleType DEF DefaultPCs, Idle
    <3> QED
      BY <2>1, <3>1 DEF InvokeOther, InvokeRawSignalHandler, Return
  <2>2. CASE InvokeDefault(a)
    <3>1. \A o : [call[a] EXCEPT !.pc = "dfl_set", !.sa = o].signo
                   = call[a].signo
      BY <1>0 DEF Call
    <3> QED
      BY <2>2, <3>1 DEF InvokeDefault, Ignored
  <2>3. CASE DefaultSet(a) \/ DefaultKill(a) \/ DefaultRestore(a)
    <3>1. call[a].pc \in DefaultPCs
      BY <2>3 DEF DefaultSet, DefaultKill, DefaultRestore, At, DefaultPCs
    <3>2. ~Ignored(call[a].signo)
      BY <3>1 DEF DispositionInv, DefaultsTaken
    <3>3. \A p : [call[a] EXCEPT !.pc = p].signo = call[a].signo
      BY <1>0 DEF Call
    <3>4. Idle.pc \notin DefaultPCs
      BY IdleType DEF DefaultPCs
    <3> QED
      BY <2>3, <3>2, <3>3, <3>4 DEF DefaultSet, DefaultKill, DefaultRestore,
                                    Return
  <2> QED
    BY <2>1, <2>2, <2>3 DEF Invoke
<1>4. DefaultsTaken'
  BY <1>0, <1>3 DEF Step, DispositionInv, DefaultsTaken, Ignored
<1> QED
  BY <1>1, <1>2, <1>4, DispositionFrame

(* The initial state satisfies the invariant, ...                          *)
LEMMA DispositionInit == Init => DispositionInv
<1> SUFFICES ASSUME Init PROVE DispositionInv
  OBVIOUS
<1>1. \A a \in Actors : call[a].pc \notin DefaultPCs
  BY IdleType DEF Init, DefaultPCs
<1> QED
  BY <1>1, LifetimeInit DEF Init, DispositionInv, DispositionMatchesMap,
                            DefaultsTaken

(* ... every step preserves it, ...                                        *)
LEMMA DispositionNext == DispositionInv /\ [Next]_vars => DispositionInv'
<1> SUFFICES ASSUME DispositionInv, [Next]_vars PROVE DispositionInv'
  OBVIOUS
<1>0. IType
  BY DEF DispositionInv, Lifetime
<1>1. Lifetime'
  BY LifetimeNext DEF DispositionInv
<1>2. CASE UNCHANGED vars
  BY <1>1, <1>2 DEF vars, DispositionInv, DispositionMatchesMap, DefaultsTaken,
                    Ignored
<1>3. ASSUME NEW a \in Actors, Install(a) \/ Deciders(a) \/ Raise(a)
      PROVE  DefaultsTaken'
  <2>1. /\ \A b \in Actors \ {a} : call'[b] = call[b]
        /\ call'[a].pc \notin DefaultPCs
    BY <1>0, <1>3, LoopsNoDefault, DecidersOutside, RaiseOutside DEF OutsideInstall
  <2> QED
    BY <2>1 DEF DispositionInv, DefaultsTaken, Ignored
<1>4. ASSUME NEW a \in Actors, Deciders(a) \/ Raise(a)
      PROVE  DispositionMatchesMap'
  <2>1. UNCHANGED <<map, disposition>> /\ SameInstalls(info')
    BY <1>0, <1>4, DecidersOutside, RaiseOutside DEF installed
  <2>2. \A s \in Signals : map[s] # NULL =>
          info'[map[s]].old_handler = info[map[s]].old_handler
    BY <1>0, <2>1 DEF SameInstalls, IType, TypeOK
  <2> QED
    BY <2>1, <2>2, DispositionFrame
<1>5. CASE Next
  BY <1>1, <1>3, <1>4, <1>5, DispositionInstall, DispositionInvoke
  DEF Next, DispositionInv
<1> QED
  BY <1>2, <1>5

(* ... so it holds in every state.                                         *)
LEMMA DispositionInvariant == Spec => []DispositionInv
  BY DispositionInit, DispositionNext, PTL DEF Spec

(* Whatever the other signals do by default, the kernel's disposition of a *)
(* signal that is ignored by default follows the map at every moment, and  *)
(* its container keeps the handler the application had installed, through  *)
(* overlapping installs, rollbacks and uninstalls.                         *)
THEOREM IgnoredSignalsFollowMap == Spec => []DispositionMatchesMap
<1>1. DispositionInv => DispositionMatchesMap
  BY DEF DispositionInv
<1> QED
  BY <1>1, DispositionInvariant, PTL

=============================================================================
