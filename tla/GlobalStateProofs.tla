-------------------------- MODULE GlobalStateProofs --------------------------
(***************************************************************************)
(* The initialisation gate of sig_global_state() for any number of threads *)
(* and either build: the hash table is initialised by one thread, once,    *)
(* and map_inited is 2 only after that.  Then the per-thread state that    *)
(* the guarded calls use, in both builds: it lives while a call uses it,   *)
(* it is there while signals are installed, and none of it is lost.        *)
(***************************************************************************)
EXTENDS GlobalState, FiniteSetTheorems, TLAPS

(* The build is one of the two, and the calls are at control points of the *)
(* code.                                                                   *)
CallsOK == /\ strategy \in {"tls", "tss"} /\ call \in [Threads -> Call]
           /\ raced \in BOOLEAN

Initialising(t) == call[t].pc \in {"init_table", "publish"}

(* InitialisedOnce is not inductive: the thread that won the exchange is   *)
(* alone between it and the publishing store, and how far it is says       *)
(* whether the table is initialised.                                       *)
GateInv ==
  /\ map_inited \in {0, 1, 2} /\ inits \in Nat
  /\ \A t, u \in Threads : Initialising(t) /\ Initialising(u) => t = u
  /\ \A t \in Threads : Initialising(t) => map_inited = 1
  /\ \A t \in Threads : call[t].pc = "init_table" => inits = 0
  /\ \A t \in Threads : call[t].pc = "publish" => inits = 1
  /\ map_inited = 0 => inits = 0
  /\ map_inited = 2 => inits = 1
  /\ inits <= 1

-----------------------------------------------------------------------------

(* Every step moves one thread to a control point of the code.             *)
LEMMA CallsTyped ==
  ASSUME CallsOK, [Next]_vars
  PROVE  CallsOK'
<1> USE DEF CallsOK, Call, PCs, Ops
<1>1. CASE UNCHANGED vars
  BY <1>1 DEF vars
<1>2. ASSUME NEW t \in Threads, Client(t)
      PROVE  strategy' \in {"tls", "tss"} /\ call' \in [Threads -> Call]
  BY <1>2 DEF Client, InstallSighandler, UninstallSighandler, Begin,
              GuardedReturns, RunAtexit, Enter, Goto
<1>3. ASSUME NEW t \in Threads, Gate(t)
      PROVE  strategy' \in {"tls", "tss"} /\ call' \in [Threads -> Call]
  BY <1>3 DEF Gate, GateLoad, GateExchange, GateSpin, InitTable, GatePublish,
              Goto
<1>4. ASSUME NEW t \in Threads, Locked(t)
      PROVE  strategy' \in {"tls", "tss"} /\ call' \in [Threads -> Call]
  BY <1>4 DEF Locked, LookupLocked, InstallLocked, UninstallLocked,
              TssDestroy, ResetSlot, Goto, Return, Idle
<1>5. ASSUME NEW t \in Threads, State(t)
      PROVE  strategy' \in {"tls", "tss"} /\ call' \in [Threads -> Call]
  <2>1. CASE StateInit(t) \/ StateAllocate(t) \/ ThreadAtexit(t)
    BY <2>1 DEF StateInit, StateAllocate, ThreadAtexit, Goto, Return, Idle
  <2>2. CASE TssCreate(t) \/ TssCreateStore(t) \/ TssCreateFails(t)
    BY <2>2 DEF TssCreate, TssCreateStore, TssCreateFails, Created, Goto,
                Return, Idle
  <2>3. CASE TssThreadInit(t) \/ StateGet(t)
    BY <2>3 DEF TssThreadInit, StateGet, Goto, Return, Idle
  <2> QED
    BY <1>5, <2>1, <2>2, <2>3 DEF State
<1>6. CASE Next
  <2>1. raced' \in BOOLEAN
    BY <1>6 DEF Next, Witness
  <2> QED
    BY <1>2, <1>3, <1>4, <1>5, <1>6, <2>1 DEF Next
<1> QED
  BY <1>1, <1>6

(* A step that leaves the gate alone and brings no thread behind it keeps  *)
(* the invariant.                                                          *)
LEMMA OutsideGate ==
  ASSUME CallsOK, GateInv, NEW t \in Threads,
         UNCHANGED gate, ~Initialising(t),
         \A u \in Threads : u # t => call'[u] = call[u],
         ~Initialising(t)'
  PROVE  GateInv'
BY DEF CallsOK, GateInv, Initialising, gate

(* The calls of the clients, the locked sections and the per-thread state  *)
(* are outside the gate.                                                   *)
LEMMA OthersOutside ==
  ASSUME CallsOK, GateInv, NEW t \in Threads,
         Client(t) \/ Locked(t) \/ State(t)
  PROVE  GateInv'
<1> USE DEF CallsOK, Call, PCs, Ops
<1>1. /\ UNCHANGED gate
      /\ \A u \in Threads : u # t => call'[u] = call[u]
      /\ ~Initialising(t) /\ ~Initialising(t)'
  <2>1. CASE Client(t)
    BY <2>1 DEF Client, InstallSighandler, UninstallSighandler, Begin,
         GuardedReturns, RunAtexit, At, Enter, Goto, Initialising, gate
  <2>2. CASE Locked(t)
    BY <2>2 DEF Locked, LookupLocked, InstallLocked, UninstallLocked,
         TssDestroy, ResetSlot, At, Goto, Return, Idle, Initialising, gate
  <2>3. CASE StateInit(t) \/ StateAllocate(t) \/ ThreadAtexit(t)
    BY <2>3 DEF StateInit, StateAllocate, ThreadAtexit, At, Goto, Return,
         Idle, Initialising, gate
  <2>4. CASE TssCreate(t) \/ TssCreateStore(t) \/ TssCreateFails(t)
    BY <2>4 DEF TssCreate, TssCreateStore, TssCreateFails, Created, At, Goto,
         Return, Idle, Initialising, gate
  <2>5. CASE TssThreadInit(t) \/ StateGet(t)
    BY <2>5 DEF TssThreadInit, StateGet, At, Goto, Return, Idle,
         Initialising, gate
  <2> QED
    BY <2>1, <2>2, <2>3, <2>4, <2>5 DEF State
<1> QED
  BY <1>1, OutsideGate

(* The gate itself, action by action.                                      *)
LEMMA GateKeeps ==
  ASSUME CallsOK, GateInv, NEW t \in Threads, Gate(t)
  PROVE  GateInv'
<1> USE DEF CallsOK, Call, PCs, Ops, Goto, At, Initialising
<1>1. CASE GateLoad(t) \/ GateSpin(t)
  <2>1. /\ UNCHANGED gate
        /\ \A u \in Threads : u # t => call'[u] = call[u]
        /\ ~Initialising(t) /\ ~Initialising(t)'
    BY <1>1 DEF GateLoad, GateSpin, gate
  <2> QED
    BY <2>1, OutsideGate
<1>2. CASE GateExchange(t)
  <2>1. CASE map_inited = 0
    BY <1>2, <2>1 DEF GateExchange, GateInv
  <2>2. CASE map_inited # 0
    BY <1>2, <2>2 DEF GateExchange, GateInv
  <2> QED
    BY <2>1, <2>2
<1>3. CASE InitTable(t)
  BY <1>3 DEF InitTable, GateInv
<1>4. CASE GatePublish(t)
  BY <1>4 DEF GatePublish, GateInv
<1> QED
  BY <1>1, <1>2, <1>3, <1>4 DEF Gate

(* The initial state satisfies the invariant, and every step keeps it.     *)
LEMMA GateInit == Init => CallsOK /\ GateInv
<1> SUFFICES ASSUME Init PROVE CallsOK /\ GateInv
  OBVIOUS
<1>1. raced \in BOOLEAN /\ strategy \in {"tls", "tss"}
  BY StrategiesAssumption DEF Init
<1>2. call \in [Threads -> Call] /\ GateInv
  BY DEF Init, Call, PCs, Ops, Idle, GateInv, Initialising
<1> QED
  BY <1>1, <1>2 DEF CallsOK

(* Every step keeps it.                                                    *)
LEMMA GateNext == CallsOK /\ GateInv /\ [Next]_vars => (CallsOK /\ GateInv)'
<1> SUFFICES ASSUME CallsOK, GateInv, [Next]_vars
             PROVE  CallsOK' /\ GateInv'
  OBVIOUS
<1>1. CASE UNCHANGED vars
  BY <1>1 DEF vars, CallsOK, GateInv, Initialising
<1>2. CASE Next
  BY <1>2, OthersOutside, GateKeeps, CallsTyped DEF Next
<1> QED
  BY <1>1, <1>2

(* "Initialise it exactly once": for any set of threads, however their     *)
(* first calls race, and whatever the build and the client do.             *)
THEOREM GateInitialisesOnce == Spec => []InitialisedOnce
<1>1. GateInv => InitialisedOnce
  BY DEF GateInv, InitialisedOnce
<1> QED
  BY <1>1, GateInit, GateNext, PTL DEF Spec

-----------------------------------------------------------------------------
(* The type invariant, whatever the client does.  It needs to know what    *)
(* each control point is part of, who holds the lock, and how many calls   *)
(* are about to count an install or to take one back.                      *)

Calling == {"sigguarded", "raise", "setup"}

(* What a call at a control point was made for, and in which build.        *)
ShapeOf(k) ==
  /\ k.pc = "idle" <=> k.op = "none"
  /\ k.pc \in {"gate", "cas", "spin", "init_table", "publish", "lock"} =>
       k.op \in {"install", "uninstall", "raise"}
  /\ k.pc \in {"init", "calloc", "atexit", "thread_init", "get"} =>
       k.op \in Calling
  /\ k.pc \in {"create", "store"} => k.op \in Calling \cup {"install"}
  /\ k.pc \in {"destroy", "reset"} => k.op = "uninstall"
  /\ k.pc \in {"calloc", "atexit"} => strategy = "tls"
  /\ k.pc \in {"create", "store", "thread_init", "destroy", "reset"} =>
       strategy = "tss"

Shape == /\ strategy \in {"tls", "tss"}
         /\ \A t \in Threads : ShapeOf(call[t])
         /\ \A t \in Threads : call[t].pc = "atexit" => slot[t] # NULL

(* The calls that keep state->lock over several steps.                     *)
HoldsLock(k) == \/ k.pc \in {"destroy", "reset"}
                \/ k.op = "install" /\ k.pc \in {"create", "store"}

LockShape ==
  \A t \in Threads :
    /\ lock = t <=> HoldsLock(call[t])
    /\ HoldsLock(call[t]) =>
         sighandlers_count = IF call[t].op = "install" THEN 1 ELSE 0

(* The calls that will add to the count, and those that may take from it.  *)
Adds(k) == k.op = "install" /\ k.pc \notin {"create", "store"}
Takes(k) == \/ k.op = "uninstall" /\ k.pc \notin {"destroy", "reset"}
            \/ k.op = "install" /\ k.pc \in {"create", "store"}

Adding(cl) == {u \in Threads : Adds(cl[u])}
Taking(cl) == {u \in Threads : Takes(cl[u])}

Counted == /\ Cardinality(Taking(call)) <= sighandlers_count
           /\ sighandlers_count + Cardinality(Adding(call)) <= MaxInstalls

(* The inductive invariant.                                                *)
Base == TypeOK /\ GateInv /\ Shape /\ LockShape /\ Counted

(* One thread moves in or out of a set of threads.                         *)
LEMMA OneMoves ==
  ASSUME NEW A \in SUBSET Threads, NEW B \in SUBSET Threads, NEW t \in Threads,
         \A u \in Threads \ {t} : u \in A <=> u \in B
  PROVE  /\ Cardinality(A) \in Nat /\ Cardinality(B) \in Nat
         /\ (t \in A <=> t \in B) => Cardinality(B) = Cardinality(A)
         /\ t \notin A /\ t \in B => Cardinality(B) = Cardinality(A) + 1
         /\ t \in A /\ t \notin B => Cardinality(B) = Cardinality(A) - 1
<1>1. IsFiniteSet(A) /\ IsFiniteSet(B)
  BY ThreadsAssumption, FS_Subset
<1>2. Cardinality(A) \in Nat /\ Cardinality(B) \in Nat
  BY <1>1, FS_CardinalityType
<1>3. CASE t \in A <=> t \in B
  <2>1. A = B
    BY <1>3
  <2> QED
    BY <1>2, <1>3, <2>1
<1>4. CASE t \notin A /\ t \in B
  <2>1. B = A \cup {t}
    BY <1>4
  <2>2. Cardinality(A \cup {t}) = Cardinality(A) + 1
    BY <1>1, <1>4, FS_AddElement
  <2> QED
    BY <1>2, <1>4, <2>1, <2>2
<1>5. CASE t \in A /\ t \notin B
  <2>1. B = A \ {t}
    BY <1>5
  <2>2. Cardinality(A \ {t}) = Cardinality(A) - 1
    BY <1>1, <1>5, FS_RemoveElement
  <2> QED
    BY <1>2, <1>5, <2>1, <2>2
<1> QED
  BY <1>3, <1>4, <1>5

(* Thread t alone takes a step, to record k.                               *)
Moves(t, k) == /\ call'[t] = k /\ k \in Call
               /\ \A u \in Threads \ {t} : call'[u] = call[u]

(* How it changes the two numbers.                                         *)
LEMMA CountsMove ==
  ASSUME NEW t \in Threads, NEW k, Moves(t, k)
  PROVE  LET x == Cardinality(Adding(call))
             y == Cardinality(Taking(call))
             xx == Cardinality(Adding(call'))
             yy == Cardinality(Taking(call'))
         IN  /\ x \in Nat /\ y \in Nat /\ xx \in Nat /\ yy \in Nat
             /\ (Adds(call[t]) <=> Adds(k)) => xx = x
             /\ ~Adds(call[t]) /\ Adds(k) => xx = x + 1
             /\ Adds(call[t]) /\ ~Adds(k) => xx = x - 1
             /\ (Takes(call[t]) <=> Takes(k)) => yy = y
             /\ ~Takes(call[t]) /\ Takes(k) => yy = y + 1
             /\ Takes(call[t]) /\ ~Takes(k) => yy = y - 1
<1>1. /\ Adding(call) \in SUBSET Threads /\ Adding(call') \in SUBSET Threads
      /\ Taking(call) \in SUBSET Threads /\ Taking(call') \in SUBSET Threads
  BY DEF Adding, Taking
<1>2. /\ \A u \in Threads \ {t} : u \in Adding(call) <=> u \in Adding(call')
      /\ \A u \in Threads \ {t} : u \in Taking(call) <=> u \in Taking(call')
      /\ t \in Adding(call) <=> Adds(call[t])
      /\ t \in Adding(call') <=> Adds(k)
      /\ t \in Taking(call) <=> Takes(call[t])
      /\ t \in Taking(call') <=> Takes(k)
  BY DEF Moves, Adding, Taking
<1> HIDE DEF Adding, Taking, Adds, Takes
<1>3. LET A == Adding(call) 
          B == Adding(call')
      IN  /\ Cardinality(A) \in Nat /\ Cardinality(B) \in Nat
          /\ (t \in A <=> t \in B) => Cardinality(B) = Cardinality(A)
          /\ t \notin A /\ t \in B => Cardinality(B) = Cardinality(A) + 1
          /\ t \in A /\ t \notin B => Cardinality(B) = Cardinality(A) - 1
  BY <1>1, <1>2, OneMoves
<1>4. LET A == Taking(call)
          B == Taking(call')
      IN  /\ Cardinality(A) \in Nat /\ Cardinality(B) \in Nat
          /\ (t \in A <=> t \in B) => Cardinality(B) = Cardinality(A)
          /\ t \notin A /\ t \in B => Cardinality(B) = Cardinality(A) + 1
          /\ t \in A /\ t \notin B => Cardinality(B) = Cardinality(A) - 1
  BY <1>1, <1>2, OneMoves
<1> QED
  BY <1>2, <1>3, <1>4

(* The steps of a call.                                                    *)
LEMMA Steps ==
  ASSUME CallsOK, NEW t \in Threads
  PROVE  /\ \A p \in PCs : Goto(t, p) => Moves(t, [pc |-> p, op |-> call[t].op])
         /\ Return(t) => Moves(t, Idle)
         /\ \A p \in PCs, o \in Ops : Enter(t, p, o) =>
              Moves(t, [pc |-> p, op |-> o])
  BY DEF CallsOK, Goto, Return, Enter, Moves, Idle, Call, PCs, Ops

(* A step that leaves the counts and the lock alone.                       *)
LEMMA Uncounted ==
  ASSUME Base, NEW t \in Threads, NEW k, Moves(t, k), UNCHANGED shared,
         UNCHANGED strategy, ShapeOf(k), k.pc = "atexit" => slot'[t] # NULL,
         strategy = "tls" => \A u \in Threads \ {t} : slot'[u] = slot[u],
         Adds(call[t]) <=> Adds(k), Takes(call[t]) <=> Takes(k),
         HoldsLock(call[t]) <=> HoldsLock(k),
         HoldsLock(k) => k.op = call[t].op
  PROVE  Shape' /\ LockShape' /\ Counted'
<1>1. Shape'
  <2>1. \A u \in Threads : ShapeOf(call'[u])
    BY DEF Base, Shape, Moves
  <2>2. \A u \in Threads : ShapeOf(call[u])'
    BY <2>1 DEF ShapeOf
  <2>3. \A u \in Threads : call'[u].pc = "atexit" => slot'[u] # NULL
    BY DEF Base, Shape, Moves, ShapeOf
  <2> QED
    BY <2>2, <2>3 DEF Base, Shape
<1>2. LockShape'
  BY DEF Base, LockShape, shared, Moves, HoldsLock
<1>3. Counted'
  BY CountsMove DEF Base, Counted, shared
<1> QED
  BY <1>1, <1>2, <1>3

(* The gate and the control points keep their types.                       *)
LEMMA GateTyped ==
  ASSUME CallsOK', GateInv', strategy' \in Strategies,
         sighandlers_count' \in 0 .. MaxInstalls, lock' \in Threads \cup {NULL},
         slot' \in [Threads -> Objects \cup {NULL}],
         obj' \in [Objects -> {"unused", "live", "freed"}],
         values' \in [Objects -> SUBSET Threads],
         items' \in [Threads -> SUBSET Objects], unregistered' \subseteq Threads,
         exited' \subseteq Threads,
         guard' \in [Threads -> Objects \cup {NULL}]
  PROVE  TypeOK'
  BY DEF CallsOK, GateInv, TypeOK

(* What the calls look like in every state.                                *)
LEMMA BaseCalls ==
  ASSUME Base, NEW t \in Threads
  PROVE  /\ CallsOK /\ GateInv /\ TypeOK /\ ShapeOf(call[t])
         /\ call[t] \in Call /\ call[t].pc \in PCs /\ call[t].op \in Ops
  BY DEF Base, Shape, TypeOK, CallsOK, Call

(* The clients begin their calls, return from guarded sections and exit.   *)
LEMMA BaseClient ==
  ASSUME Base, CallsOK', GateInv', NEW t \in Threads, Client(t)
  PROVE  Base'
<1>0. /\ CallsOK /\ GateInv /\ TypeOK /\ ShapeOf(call[t])
      /\ call[t] \in Call /\ call[t].pc \in PCs /\ call[t].op \in Ops
  BY BaseCalls
<1>1. call[t].pc = "idle" /\ call[t].op = "none"
  BY <1>0 DEF Client, InstallSighandler, UninstallSighandler, Begin,
              GuardedReturns, RunAtexit, At, ShapeOf
<1>2. UNCHANGED strategy /\ UNCHANGED shared /\ UNCHANGED slot
  BY DEF Client, InstallSighandler, UninstallSighandler, Begin,
         GuardedReturns, RunAtexit, state
<1>3. TypeOK'
  <2>1. CASE RunAtexit(t)
    BY <1>0, <1>2, <2>1, GateTyped DEF RunAtexit, TypeOK, shared
  <2>2. CASE GuardedReturns(t)
    BY <1>0, <1>2, <2>2, GateTyped DEF GuardedReturns, TypeOK, shared, state
  <2>3. CASE InstallSighandler(t) \/ UninstallSighandler(t) \/ Begin(t)
    BY <1>0, <1>2, <2>3, GateTyped DEF InstallSighandler, UninstallSighandler,
                                       Begin, TypeOK, shared, state
  <2> QED
    BY <2>1, <2>2, <2>3 DEF Client
<1>4. ASSUME NEW k, Moves(t, k), ShapeOf(k), ~Adds(k), ~Takes(k), ~HoldsLock(k),
             k.pc # "atexit"
      PROVE  Shape' /\ LockShape' /\ Counted'
  <2>1. ~Adds(call[t]) /\ ~Takes(call[t]) /\ ~HoldsLock(call[t])
    BY <1>1 DEF Adds, Takes, HoldsLock
  <2> QED
    BY <1>2, <1>4, <2>1, Uncounted
<1>5. CASE GuardedReturns(t)
  <2>1. Moves(t, call[t])
    BY <1>0, <1>5 DEF GuardedReturns, Moves
  <2> QED
    BY <1>0, <1>1, <1>3, <1>4, <2>1 DEF Adds, Takes, HoldsLock, Base
<1>6. CASE RunAtexit(t)
  <2>1. Moves(t, call[t])
    BY <1>0, <1>6 DEF RunAtexit, Moves
  <2> QED
    BY <1>0, <1>1, <1>3, <1>4, <2>1 DEF Adds, Takes, HoldsLock, Base
<1>7. CASE Begin(t)
  <2>1. PICK o \in Calling : Enter(t, "init", o)
    BY <1>7 DEF Begin, Calling
  <2> DEFINE k == [pc |-> "init", op |-> o]
  <2>2. Moves(t, k)
    BY <1>0, <2>1, Steps DEF PCs, Ops, Calling
  <2>3. /\ ShapeOf(k) /\ ~Adds(k) /\ ~Takes(k) /\ ~HoldsLock(k)
        /\ k.pc # "atexit"
    BY DEF Adds, Takes, HoldsLock, ShapeOf, Calling
  <2> QED
    BY <1>3, <1>4, <2>2, <2>3 DEF Base
<1>8. ASSUME NEW o \in {"install", "uninstall"}, Enter(t, "gate", o), Counted'
      PROVE  Base'
  <2> DEFINE k == [pc |-> "gate", op |-> o]
  <2>1. Moves(t, k)
    BY <1>0, <1>8, Steps DEF PCs, Ops
  <2>2. ShapeOf(k) /\ ~HoldsLock(k) /\ ~HoldsLock(call[t]) /\ k.pc # "atexit"
    BY <1>1 DEF ShapeOf, HoldsLock
  <2> HIDE DEF k
  <2>3. Shape'
    <3>1. \A u \in Threads : ShapeOf(call[u])'
      BY <1>2, <2>1, <2>2 DEF Base, Shape, Moves, ShapeOf
    <3> QED
      BY <1>2, <2>1, <2>2, <3>1 DEF Base, Shape, Moves
  <2>4. LockShape'
    BY <1>2, <2>1, <2>2 DEF Base, LockShape, shared, Moves, HoldsLock
  <2> QED
    BY <1>3, <1>8, <2>3, <2>4 DEF Base
<1>9. CASE InstallSighandler(t)
  <2> DEFINE k == [pc |-> "gate", op |-> "install"]
             I == {u \in Threads : call[u].op = "install"}
  <2>1. Enter(t, "gate", "install") /\ sighandlers_count + Cardinality(I) < MaxInstalls
    BY <1>9 DEF InstallSighandler
  <2>2. Moves(t, k)
    BY <1>0, <2>1, Steps DEF PCs, Ops
  <2>3. /\ ~Adds(call[t]) /\ Adds(k) /\ ~Takes(call[t]) /\ ~Takes(k)
    BY <1>1 DEF Adds, Takes
  <2>4. Cardinality(Adding(call)) <= Cardinality(I)
    <3>1. Adding(call) \subseteq I /\ I \subseteq Threads
      BY DEF Adding, Adds
    <3>2. IsFiniteSet(I)
      BY <3>1, ThreadsAssumption, FS_Subset
    <3> QED
      BY <3>1, <3>2, FS_Subset
  <2>5. Cardinality(I) \in Nat
    <3>1. IsFiniteSet(I)
      BY ThreadsAssumption, FS_Subset
    <3> QED
      BY <3>1, FS_CardinalityType
  <2> HIDE DEF k, I
  <2>6. Counted'
    BY <1>0, <1>2, <2>1, <2>2, <2>3, <2>4, <2>5, CountsMove, BoundAssumption
    DEF Base, Counted, shared, TypeOK
  <2> QED
    BY <1>8, <2>1, <2>6
<1>10. CASE UninstallSighandler(t)
  <2> DEFINE k == [pc |-> "gate", op |-> "uninstall"]
  <2>1. Enter(t, "gate", "uninstall") /\ sighandlers_count > Cardinality(Pending)
    BY <1>10 DEF UninstallSighandler
  <2>2. Moves(t, k)
    BY <1>0, <2>1, Steps DEF PCs, Ops
  <2>3. /\ ~Adds(call[t]) /\ ~Adds(k) /\ ~Takes(call[t]) /\ Takes(k)
    BY <1>1 DEF Adds, Takes
  <2>4. Pending = Taking(call)
    BY DEF Pending, Taking, Takes
  <2> HIDE DEF k
  <2>5. Counted'
    BY <1>0, <1>2, <2>1, <2>2, <2>3, <2>4, CountsMove
    DEF Base, Counted, shared, TypeOK
  <2> QED
    BY <1>8, <2>1, <2>5
<1> QED
  BY <1>5, <1>6, <1>7, <1>9, <1>10 DEF Client

(* The gate.                                                               *)
LEMMA BaseGate ==
  ASSUME Base, CallsOK', GateInv', NEW t \in Threads, Gate(t)
  PROVE  Base'
<1>0. /\ CallsOK /\ GateInv /\ TypeOK /\ ShapeOf(call[t])
      /\ call[t] \in Call /\ call[t].pc \in PCs /\ call[t].op \in Ops
  BY BaseCalls
<1>1. UNCHANGED <<strategy, sighandlers_count, lock, slot, obj, values, items,
                  unregistered, exited, guard>>
  BY DEF Gate, GateLoad, GateExchange, GateSpin, InitTable, GatePublish, shared,
         state
<1>2. TypeOK'
  BY <1>0, <1>1, GateTyped DEF TypeOK
<1> DEFINE P == {"gate", "cas", "spin", "init_table", "publish", "lock"}
<1>3. PICK p \in P : Goto(t, p)
  BY DEF Gate, GateLoad, GateExchange, GateSpin, InitTable, GatePublish
<1>4. call[t].pc \in P /\ call[t].op \in {"install", "uninstall", "raise"}
  BY <1>0 DEF Gate, GateLoad, GateExchange, GateSpin, InitTable, GatePublish,
              At, ShapeOf
<1> DEFINE k == [pc |-> p, op |-> call[t].op]
<1>5. Moves(t, k)
  BY <1>0, <1>3, Steps DEF PCs
<1>6. ShapeOf(k) /\ k.pc # "atexit"
  BY <1>4 DEF ShapeOf
<1>7. /\ Adds(call[t]) <=> Adds(k)
      /\ Takes(call[t]) <=> Takes(k)
      /\ ~HoldsLock(call[t]) /\ ~HoldsLock(k)
  BY <1>4 DEF Adds, Takes, HoldsLock
<1> HIDE DEF k
<1> QED
  BY <1>1, <1>2, <1>5, <1>6, <1>7, Uncounted DEF Base, shared

(* A step of the thread that takes, holds or releases the lock.            *)
LEMMA Holder ==
  ASSUME Base, NEW t \in Threads, NEW k, Moves(t, k), UNCHANGED strategy,
         ShapeOf(k), k.pc # "atexit",
         strategy = "tls" => \A u \in Threads \ {t} : slot'[u] = slot[u],
         lock = NULL \/ lock = t,
         lock' = IF HoldsLock(k) THEN t ELSE NULL,
         HoldsLock(k) =>
           sighandlers_count' = IF k.op = "install" THEN 1 ELSE 0
  PROVE  Shape' /\ LockShape'
<1>1. Shape'
  <2>1. \A u \in Threads : ShapeOf(call[u])'
    BY DEF Base, Shape, Moves, ShapeOf
  <2>2. \A u \in Threads : call'[u].pc = "atexit" => slot'[u] # NULL
    BY DEF Base, Shape, Moves, ShapeOf
  <2> QED
    BY <2>1, <2>2 DEF Base, Shape
<1>2. \A u \in Threads \ {t} : ~HoldsLock(call[u])
  BY NullAssumption DEF Base, LockShape
<1>3. t # NULL
  BY NullAssumption
<1>4. \A u \in Threads \ {t} : ~HoldsLock(call'[u]) /\ lock' # u
  BY <1>2, <1>3, NullAssumption DEF Moves
<1>5. HoldsLock(call'[t]) <=> HoldsLock(k)
  BY DEF Moves
<1>6. LockShape'
  BY <1>3, <1>4, <1>5 DEF LockShape, HoldsLock, Moves
<1> QED
  BY <1>1, <1>6

(* The section under the lock.                                             *)
LEMMA BaseLocked ==
  ASSUME Base, CallsOK', GateInv', NEW t \in Threads, Locked(t)
  PROVE  Base'
<1>0. /\ CallsOK /\ GateInv /\ TypeOK /\ ShapeOf(call[t])
      /\ call[t] \in Call /\ call[t].pc \in PCs /\ call[t].op \in Ops
      /\ sighandlers_count \in Nat /\ sighandlers_count <= MaxInstalls
      /\ MaxInstalls \in Nat
  BY BaseCalls, BoundAssumption DEF TypeOK
<1>1. ShapeOf(Idle) /\ ~Adds(Idle) /\ ~Takes(Idle) /\ ~HoldsLock(Idle)
      /\ Idle.pc # "atexit"
  BY DEF Idle, ShapeOf, Adds, Takes, HoldsLock
<1>2. CASE LookupLocked(t)
  <2>1. Moves(t, Idle) /\ UNCHANGED <<strategy, gate, shared, state, guard>>
    BY <1>0, <1>2, Steps DEF LookupLocked
  <2>2. ~Adds(call[t]) /\ ~Takes(call[t]) /\ ~HoldsLock(call[t])
    BY <1>2 DEF LookupLocked, At, Adds, Takes, HoldsLock
  <2>3. TypeOK'
    BY <1>0, <2>1, GateTyped DEF TypeOK, state, shared
  <2> QED
    BY <1>1, <2>1, <2>2, <2>3, Uncounted DEF Base, state
<1>3. CASE InstallLocked(t)
  <2>1. /\ Adds(call[t]) /\ ~Takes(call[t]) /\ lock = NULL
        /\ sighandlers_count' = sighandlers_count + 1
        /\ UNCHANGED <<strategy, gate, state, guard>>
        /\ call[t].op = "install"
    BY <1>3 DEF InstallLocked, At, Adds, Takes
  <2>2. PICK k :
          /\ Moves(t, k) /\ ShapeOf(k) /\ k.pc # "atexit" /\ ~Adds(k)
          /\ Takes(k) => HoldsLock(k)
          /\ lock' = IF HoldsLock(k) THEN t ELSE NULL
          /\ HoldsLock(k) => sighandlers_count = 0 /\ k.op = "install"
    <3>1. CASE sighandlers_count = 0 /\ strategy = "tss"
      <4> DEFINE k == [pc |-> "create", op |-> "install"]
      <4>1. Moves(t, k)
        BY <1>0, <1>3, <2>1, <3>1, Steps DEF InstallLocked, PCs
      <4>2. ShapeOf(k) /\ HoldsLock(k) /\ ~Adds(k) /\ k.pc # "atexit"
        BY <3>1 DEF ShapeOf, HoldsLock, Adds
      <4> QED
        BY <1>3, <3>1, <4>1, <4>2 DEF InstallLocked
    <3>2. CASE ~(sighandlers_count = 0 /\ strategy = "tss")
      <4>1. Moves(t, Idle)
        BY <1>0, <1>3, <3>2, Steps DEF InstallLocked
      <4> QED
        BY <1>1, <1>3, <2>1, <3>2, <4>1 DEF InstallLocked
    <3> QED
      BY <3>1, <3>2
  <2>3. /\ Cardinality(Adding(call)) \in Nat
        /\ Cardinality(Taking(call)) \in Nat
        /\ Cardinality(Adding(call')) = Cardinality(Adding(call)) - 1
        /\ Cardinality(Adding(call')) \in Nat
        /\ \/ Cardinality(Taking(call')) = Cardinality(Taking(call))
           \/ Cardinality(Taking(call')) = Cardinality(Taking(call)) + 1
    BY <2>1, <2>2, CountsMove
  <2>4. Counted'
    BY <1>0, <2>1, <2>3 DEF Base, Counted
  <2>5. Shape' /\ LockShape'
    BY <2>1, <2>2, Holder DEF state
  <2>6. sighandlers_count' \in 0 .. MaxInstalls /\ lock' \in Threads \cup {NULL}
    BY <1>0, <2>1, <2>2, <2>3 DEF Base, Counted
  <2>7. TypeOK'
    BY <1>0, <2>1, <2>6, GateTyped DEF TypeOK, state
  <2> QED
    BY <2>4, <2>5, <2>7 DEF Base
<1>4. CASE UninstallLocked(t)
  <2>1. /\ ~Adds(call[t]) /\ Takes(call[t]) /\ lock = NULL
        /\ sighandlers_count' = sighandlers_count - 1
        /\ UNCHANGED <<strategy, gate, state, guard>>
        /\ call[t].op = "uninstall"
    BY <1>4 DEF UninstallLocked, At, Adds, Takes
  <2>2. PICK k :
          /\ Moves(t, k) /\ ShapeOf(k) /\ k.pc # "atexit" /\ ~Adds(k)
          /\ ~Takes(k)
          /\ lock' = IF HoldsLock(k) THEN t ELSE NULL
          /\ HoldsLock(k) => sighandlers_count = 1 /\ k.op = "uninstall"
    <3>1. CASE sighandlers_count = 1 /\ strategy = "tss"
      <4> DEFINE k == [pc |-> "destroy", op |-> "uninstall"]
      <4>1. Moves(t, k)
        BY <1>0, <1>4, <2>1, <3>1, Steps DEF UninstallLocked, PCs
      <4>2. ShapeOf(k) /\ HoldsLock(k) /\ ~Adds(k) /\ ~Takes(k)
            /\ k.pc # "atexit"
        BY <3>1 DEF ShapeOf, HoldsLock, Adds, Takes
      <4> QED
        BY <1>4, <3>1, <4>1, <4>2 DEF UninstallLocked
    <3>2. CASE ~(sighandlers_count = 1 /\ strategy = "tss")
      <4>1. Moves(t, Idle)
        BY <1>0, <1>4, <3>2, Steps DEF UninstallLocked
      <4> QED
        BY <1>1, <1>4, <2>1, <3>2, <4>1 DEF UninstallLocked
    <3> QED
      BY <3>1, <3>2
  <2>3. /\ Cardinality(Adding(call)) \in Nat
        /\ Cardinality(Taking(call')) \in Nat
        /\ Cardinality(Taking(call)) \in Nat
        /\ Cardinality(Adding(call')) = Cardinality(Adding(call))
        /\ Cardinality(Taking(call')) = Cardinality(Taking(call)) - 1
    BY <2>1, <2>2, CountsMove
  <2>4. Counted'
    BY <1>0, <2>1, <2>3 DEF Base, Counted
  <2>5. Shape' /\ LockShape'
    BY <2>1, <2>2, Holder DEF state
  <2>6. sighandlers_count' \in 0 .. MaxInstalls /\ lock' \in Threads \cup {NULL}
    BY <1>0, <2>1, <2>2, <2>3 DEF Base, Counted
  <2>7. TypeOK'
    BY <1>0, <2>1, <2>6, GateTyped DEF TypeOK, state
  <2> QED
    BY <2>4, <2>5, <2>7 DEF Base
<1>5. CASE TssDestroy(t)
  <2> DEFINE k == [pc |-> "reset", op |-> "uninstall"]
  <2>1. call[t].pc = "destroy" /\ call[t].op = "uninstall" /\ strategy = "tss"
    BY <1>0, <1>5 DEF TssDestroy, At, ShapeOf
  <2>2. Moves(t, k) /\ UNCHANGED <<strategy, shared, slot>>
    BY <1>0, <1>5, <2>1, Steps DEF TssDestroy, PCs
  <2>3. /\ ~Adds(call[t]) /\ ~Takes(call[t]) /\ HoldsLock(call[t])
        /\ ~Adds(k) /\ ~Takes(k) /\ HoldsLock(k) /\ ShapeOf(k)
        /\ k.pc # "atexit" /\ k.op = "uninstall"
    BY <2>1 DEF Adds, Takes, HoldsLock, ShapeOf
  <2> HIDE DEF k
  <2>4. TypeOK'
    BY <1>0, <1>5, GateTyped DEF TssDestroy, TypeOK, shared
  <2> QED
    BY <2>1, <2>2, <2>3, <2>4, Uncounted DEF Base
<1>6. CASE ResetSlot(t)
  <2>1. call[t].pc = "reset" /\ call[t].op = "uninstall" /\ strategy = "tss"
    BY <1>0, <1>6 DEF ResetSlot, At, ShapeOf
  <2>2. /\ Moves(t, Idle) /\ UNCHANGED strategy /\ lock' = NULL
        /\ UNCHANGED sighandlers_count
    BY <1>0, <1>6, Steps DEF ResetSlot
  <2>3. ~Adds(call[t]) /\ ~Takes(call[t]) /\ lock = t
    BY <2>1 DEF Adds, Takes, HoldsLock, Base, LockShape
  <2>4. TypeOK'
    BY <1>0, <1>6, <2>1, GateTyped DEF ResetSlot, SetSlot, TypeOK
  <2>5. Shape' /\ LockShape'
    BY <1>1, <2>1, <2>2, <2>3, Holder
  <2>6. Counted'
    BY <1>1, <2>2, <2>3, CountsMove DEF Base, Counted
  <2> QED
    BY <2>4, <2>5, <2>6 DEF Base
<1> QED
  BY <1>2, <1>3, <1>4, <1>5, <1>6 DEF Locked

(* A step of a guarded section, a raise or a setup inside its call.        *)
LEMMA Caller ==
  ASSUME Base, NEW t \in Threads, NEW k, Moves(t, k), UNCHANGED shared,
         UNCHANGED strategy, k.pc = "atexit" => slot'[t] # NULL,
         strategy = "tls" => \A u \in Threads \ {t} : slot'[u] = slot[u],
         call[t].op \in Calling, k = Idle \/ (k.op = call[t].op /\ ShapeOf(k))
  PROVE  Shape' /\ LockShape' /\ Counted'
<1>1. ShapeOf(k)
  BY DEF ShapeOf, Idle
<1>2. ~Adds(k) /\ ~Takes(k) /\ ~Adds(call[t]) /\ ~Takes(call[t])
  BY DEF Adds, Takes, Idle, Calling
<1>3. ~HoldsLock(call[t])
  BY BaseCalls DEF HoldsLock, Calling, ShapeOf
<1>4. ~HoldsLock(k)
  BY <1>1 DEF HoldsLock, Calling, ShapeOf, Idle
<1> QED
  BY <1>1, <1>2, <1>3, <1>4, Uncounted

(* It fails or ends.                                                       *)
LEMMA CallerReturns ==
  ASSUME Base, NEW t \in Threads, call[t].op \in Calling, Return(t),
         UNCHANGED <<strategy, shared, slot>>
  PROVE  Shape' /\ LockShape' /\ Counted'
<1>1. Moves(t, Idle) /\ Idle.pc # "atexit"
  BY BaseCalls, Steps DEF Idle
<1>2. \A u \in Threads \ {t} : slot'[u] = slot[u]
  OBVIOUS
<1>3. UNCHANGED strategy /\ UNCHANGED shared
  OBVIOUS
<1> QED
  BY <1>1, <1>2, <1>3, Caller

(* The end of sig_global_tss_state_create().                               *)
LEMMA CreatedBase ==
  ASSUME Base, NEW t \in Threads, call[t].pc \in {"create", "store"},
         Created(t), UNCHANGED <<strategy, sighandlers_count>>
  PROVE  /\ Shape' /\ LockShape' /\ Counted'
         /\ lock' \in Threads \cup {NULL}
<1>0. /\ CallsOK /\ GateInv /\ TypeOK /\ ShapeOf(call[t])
      /\ call[t] \in Call /\ call[t].pc \in PCs /\ call[t].op \in Ops
  BY BaseCalls
<1>1. strategy = "tss" /\ call[t].op \in Calling \cup {"install"}
  BY <1>0 DEF ShapeOf
<1>2. CASE call[t].op = "install"
  <2>1. Moves(t, Idle) /\ lock' = NULL
    BY <1>0, <1>2, Steps DEF Created
  <2>2. ShapeOf(Idle) /\ ~Adds(Idle) /\ ~Takes(Idle) /\ ~HoldsLock(Idle)
        /\ Idle.pc # "atexit"
    BY DEF Idle, ShapeOf, Adds, Takes, HoldsLock
  <2>3. ~Adds(call[t]) /\ Takes(call[t]) /\ lock = t
    BY <1>2 DEF Adds, Takes, HoldsLock, Base, LockShape
  <2>4. Shape' /\ LockShape'
    BY <1>1, <2>1, <2>2, <2>3, Holder
  <2>5. /\ Cardinality(Adding(call')) = Cardinality(Adding(call))
        /\ Cardinality(Taking(call)) \in Nat
        /\ Cardinality(Taking(call')) = Cardinality(Taking(call)) - 1
        /\ Cardinality(Taking(call')) \in Nat
    BY <2>1, <2>2, <2>3, CountsMove
  <2>6. Counted'
    BY <1>0, <2>5 DEF Base, Counted, TypeOK
  <2> QED
    BY <2>1, <2>4, <2>6
<1>3. CASE call[t].op # "install"
  <2> DEFINE k == [pc |-> "thread_init", op |-> call[t].op]
  <2>1. Moves(t, k) /\ UNCHANGED lock
    BY <1>0, <1>3, Steps DEF Created, PCs
  <2>2. k.op = call[t].op /\ ShapeOf(k) /\ k.pc # "atexit"
        /\ call[t].op \in Calling
    BY <1>1, <1>3 DEF ShapeOf, Calling
  <2> HIDE DEF k
  <2> QED
    BY <1>0, <1>1, <2>1, <2>2, Caller DEF shared, TypeOK
<1> QED
  BY <1>2, <1>3

(* Making, reading and dropping the per-thread state.                      *)
LEMMA BaseState ==
  ASSUME Base, CallsOK', GateInv', NEW t \in Threads, State(t)
  PROVE  Base'
<1>0. /\ CallsOK /\ GateInv /\ TypeOK /\ ShapeOf(call[t])
      /\ call[t] \in Call /\ call[t].pc \in PCs /\ call[t].op \in Ops
      /\ strategy \in {"tls", "tss"} /\ strategy \in Strategies
  BY BaseCalls DEF Base, Shape, TypeOK
<1>1. CASE StateInit(t) \/ TssThreadInit(t) \/ StateGet(t)
  <2>1. /\ call[t].pc \in {"init", "thread_init", "get"}
        /\ call[t].op \in Calling
        /\ UNCHANGED <<strategy, shared, slot, obj, items, unregistered>>
    BY <1>0, <1>1 DEF StateInit, TssThreadInit, StateGet, At, ShapeOf, state
  <2>2. TypeOK'
    BY <1>0, <1>1, <2>1, GateTyped DEF StateInit, TssThreadInit, StateGet,
                                       TypeOK, shared, state
  <2>3. PICK k : Moves(t, k) /\ k.pc # "atexit" /\
                 (k = Idle \/ (k.op = call[t].op /\ ShapeOf(k)))
    <3>1. Return(t) \/ \E p \in {"calloc", "create", "get", "thread_init", "gate"} :
            /\ Goto(t, p)
            /\ p = "calloc" => strategy = "tls"
            /\ p \in {"create", "thread_init"} => strategy = "tss"
            /\ p = "gate" => call[t].op = "raise"
      BY <1>0, <1>1 DEF StateInit, TssThreadInit, StateGet
    <3>2. CASE Return(t)
      <4>1. Moves(t, Idle) /\ Idle.pc # "atexit"
        BY <1>0, <3>2, Steps DEF Idle
      <4> QED
        BY <4>1
    <3>3. CASE ~Return(t)
      <4>1. PICK p \in {"calloc", "create", "get", "thread_init", "gate"} :
            /\ Goto(t, p)
            /\ p = "calloc" => strategy = "tls"
            /\ p \in {"create", "thread_init"} => strategy = "tss"
            /\ p = "gate" => call[t].op = "raise"
        BY <3>1, <3>3
      <4> DEFINE k == [pc |-> p, op |-> call[t].op]
      <4>2. Moves(t, k)
        BY <1>0, <4>1, Steps DEF PCs
      <4>3. k.pc # "atexit" /\ k.op = call[t].op /\ ShapeOf(k)
        BY <2>1, <4>1 DEF ShapeOf, Calling
      <4> QED
        BY <4>2, <4>3
    <3> QED
      BY <3>2, <3>3
  <2> QED
    BY <2>1, <2>2, <2>3, Caller DEF Base
<1>2. CASE StateAllocate(t)
  <2>1. /\ call[t].pc = "calloc" /\ call[t].op \in Calling /\ strategy = "tls"
        /\ UNCHANGED <<strategy, gate, shared, values, items, unregistered,
                       exited, guard>>
    BY <1>0, <1>2 DEF StateAllocate, At, ShapeOf
  <2>2. CASE Return(t) /\ UNCHANGED <<obj, slot>>
    <3>1. TypeOK'
      BY <1>0, <2>1, <2>2, GateTyped DEF TypeOK, shared
    <3>2. Shape' /\ LockShape' /\ Counted'
      BY <2>1, <2>2, CallerReturns
    <3> QED
      BY <3>1, <3>2 DEF Base
  <2>3. CASE ~(Return(t) /\ UNCHANGED <<obj, slot>>)
    <3>1. PICK o \in Objects : /\ obj' = [obj EXCEPT ![o] = "live"]
                               /\ slot' = [slot EXCEPT ![t] = o]
                               /\ Goto(t, "atexit")
      BY <1>2, <2>1, <2>3 DEF StateAllocate, SetSlot
    <3> DEFINE k == [pc |-> "atexit", op |-> call[t].op]
    <3>2. Moves(t, k)
      BY <1>0, <3>1, Steps DEF PCs
    <3>3. k.op = call[t].op /\ ShapeOf(k)
      BY <2>1 DEF ShapeOf, Calling
    <3>4. TypeOK'
      BY <1>0, <2>1, <3>1, GateTyped DEF TypeOK, shared
    <3>5. slot'[t] # NULL /\ \A u \in Threads \ {t} : slot'[u] = slot[u]
      BY <1>0, <3>1, NullAssumption DEF TypeOK
    <3> HIDE DEF k
    <3> QED
      BY <2>1, <3>2, <3>3, <3>4, <3>5, Caller DEF Base
  <2> QED
    BY <2>2, <2>3
<1>3. CASE ThreadAtexit(t)
  <2>1. /\ call[t].pc = "atexit" /\ call[t].op \in Calling /\ strategy = "tls"
        /\ UNCHANGED <<strategy, gate, shared, slot, obj, values, guard>>
    BY <1>0, <1>3 DEF ThreadAtexit, At, ShapeOf
  <2>2. slot[t] \in Objects
    BY <1>0, <2>1 DEF Base, Shape, TypeOK
  <2>3. TypeOK'
    BY <1>0, <1>3, <2>1, <2>2, GateTyped DEF ThreadAtexit, TypeOK, shared
  <2>4. CASE Return(t)
    <3>1. Shape' /\ LockShape' /\ Counted'
      BY <2>1, <2>4, CallerReturns
    <3> QED
      BY <2>3, <3>1 DEF Base
  <2>5. CASE Goto(t, "get")
    <3> DEFINE k == [pc |-> "get", op |-> call[t].op]
    <3>1. Moves(t, k)
      BY <1>0, <2>5, Steps DEF PCs
    <3>2. k.op = call[t].op /\ ShapeOf(k) /\ k.pc # "atexit"
      BY <2>1 DEF ShapeOf, Calling
    <3> HIDE DEF k
    <3> QED
      BY <2>1, <2>3, <3>1, <3>2, Caller DEF Base
  <2> QED
    BY <1>3, <2>4, <2>5 DEF ThreadAtexit
<1>4. CASE TssCreate(t)
  <2>1. /\ call[t].pc = "create" /\ strategy = "tss"
        /\ call[t].op \in Calling \cup {"install"}
        /\ UNCHANGED <<strategy, gate, sighandlers_count, state, guard>>
    BY <1>0, <1>4 DEF TssCreate, At, ShapeOf
  <2>2. CASE slot[t] # NULL
    <3>1. Created(t)
      BY <1>4, <2>2 DEF TssCreate
    <3>2. Shape' /\ LockShape' /\ Counted' /\ lock' \in Threads \cup {NULL}
      BY <2>1, <3>1, CreatedBase
    <3>3. TypeOK'
      BY <1>0, <2>1, <3>2, GateTyped DEF TypeOK, state
    <3> QED
      BY <3>2, <3>3 DEF Base
  <2>3. CASE slot[t] = NULL
    <3> DEFINE k == [pc |-> "store", op |-> call[t].op]
    <3>1. Moves(t, k) /\ UNCHANGED lock
      BY <1>0, <1>4, <2>3, Steps DEF TssCreate, PCs
    <3>2. /\ ShapeOf(k) /\ k.pc # "atexit" /\ k.op = call[t].op
          /\ Adds(call[t]) <=> Adds(k)
          /\ Takes(call[t]) <=> Takes(k)
          /\ HoldsLock(call[t]) <=> HoldsLock(k)
      BY <2>1 DEF ShapeOf, Adds, Takes, HoldsLock, Calling
    <3>3. TypeOK'
      BY <1>0, <2>1, <3>1, GateTyped DEF TypeOK, state
    <3> HIDE DEF k
    <3> QED
      BY <2>1, <3>1, <3>2, <3>3, Uncounted DEF Base, shared, state
  <2> QED
    BY <2>2, <2>3
<1>5. CASE TssCreateStore(t)
  <2>1. /\ call[t].pc = "store" /\ strategy = "tss"
        /\ UNCHANGED <<strategy, gate, sighandlers_count, values, items,
                       unregistered, exited, guard>>
    BY <1>0, <1>5 DEF TssCreateStore, At, ShapeOf
  <2>2. PICK o \in Objects : /\ obj' = [obj EXCEPT ![o] = "live"]
                             /\ slot' = [u \in Threads |-> o]
    BY <1>5, <2>1 DEF TssCreateStore, SetSlot
  <2>3. Shape' /\ LockShape' /\ Counted' /\ lock' \in Threads \cup {NULL}
    BY <1>5, <2>1, CreatedBase DEF TssCreateStore
  <2>4. TypeOK'
    BY <1>0, <2>1, <2>2, <2>3, GateTyped DEF TypeOK
  <2> QED
    BY <2>3, <2>4 DEF Base
<1>6. CASE TssCreateFails(t)
  <2>1. /\ call[t].pc = "store" /\ strategy = "tss" /\ Moves(t, Idle)
        /\ call[t].op \in Calling \cup {"install"}
        /\ UNCHANGED <<strategy, gate, state, guard>>
    BY <1>0, <1>6, Steps DEF TssCreateFails, At, ShapeOf
  <2>2. ShapeOf(Idle) /\ ~Adds(Idle) /\ ~Takes(Idle) /\ ~HoldsLock(Idle)
        /\ Idle.pc # "atexit"
    BY DEF Idle, ShapeOf, Adds, Takes, HoldsLock
  <2>3. CASE call[t].op = "install"
    <3>1. sighandlers_count' = sighandlers_count - 1 /\ lock' = NULL
      BY <1>6, <2>3 DEF TssCreateFails
    <3>2. /\ ~Adds(call[t]) /\ Takes(call[t]) /\ lock = t
          /\ sighandlers_count = 1
      BY <2>1, <2>3 DEF Adds, Takes, HoldsLock, Base, LockShape
    <3>3. Shape' /\ LockShape'
      BY <2>1, <2>2, <3>1, <3>2, Holder
    <3>4. /\ Cardinality(Adding(call)) \in Nat
          /\ Cardinality(Adding(call')) = Cardinality(Adding(call))
          /\ Cardinality(Taking(call)) \in Nat
          /\ Cardinality(Taking(call')) = Cardinality(Taking(call)) - 1
      BY <2>1, <2>2, <3>2, CountsMove
    <3>5. Counted'
      BY <1>0, <3>1, <3>2, <3>4, BoundAssumption DEF Base, Counted
    <3>6. TypeOK'
      BY <1>0, <2>1, <3>1, <3>2, GateTyped, BoundAssumption DEF TypeOK, state
    <3> QED
      BY <3>3, <3>5, <3>6 DEF Base
  <2>4. CASE call[t].op # "install"
    <3>1. UNCHANGED shared
      BY <1>6, <2>4 DEF TssCreateFails
    <3>2. TypeOK'
      BY <1>0, <2>1, <3>1, GateTyped DEF TypeOK, state, shared
    <3> QED
      BY <2>1, <2>2, <2>4, <3>1, <3>2, Caller DEF Base
  <2> QED
    BY <2>3, <2>4
<1> QED
  BY <1>1, <1>2, <1>3, <1>4, <1>5, <1>6 DEF State

(* The initial state satisfies the invariant, ...                          *)
LEMMA BaseInit == Init => Base
<1> SUFFICES ASSUME Init PROVE Base
  OBVIOUS
<1>1. CallsOK /\ GateInv
  BY GateInit
<1>2. TypeOK
  BY <1>1, BoundAssumption DEF Init, TypeOK, GateInv, CallsOK
<1>3. \A t \in Threads : call[t] = Idle
  BY DEF Init
<1>4. Shape /\ LockShape
  BY <1>1, <1>3, NullAssumption
  DEF Init, CallsOK, Shape, ShapeOf, Idle, LockShape, HoldsLock
<1>5. Adding(call) = {} /\ Taking(call) = {}
  BY <1>3 DEF Adding, Taking, Adds, Takes, Idle
<1>6. Counted
  BY <1>5, FS_EmptySet, BoundAssumption DEF Counted, Init
<1> QED
  BY <1>1, <1>2, <1>4, <1>6 DEF Base

(* ... and every step keeps it.                                            *)
LEMMA BaseNext == Base /\ [Next]_vars => Base'
<1> SUFFICES ASSUME Base, [Next]_vars PROVE Base'
  OBVIOUS
<1>1. CallsOK' /\ GateInv'
  <2>1. CallsOK /\ GateInv
    BY DEF Base, Shape, TypeOK, CallsOK
  <2> QED
    BY <2>1, GateNext
<1>2. CASE UNCHANGED vars
  BY <1>1, <1>2 DEF vars, Base, TypeOK, Shape, ShapeOf, LockShape, HoldsLock,
                    Counted, Adding, Taking
<1>3. CASE Next
  BY <1>1, <1>3, BaseClient, BaseGate, BaseLocked, BaseState DEF Next
<1> QED
  BY <1>2, <1>3

(* The invariant holds in every state.                                     *)
LEMMA BaseInvariant == Spec => []Base
  BY BaseInit, BaseNext, PTL DEF Spec

(* Every variable keeps its C type, whatever the clients do; above    *)
(* all sighandlers_count never runs below zero or past the installs made,  *)
(* failing ones included.                                                  *)
THEOREM StateTyped == Spec => []TypeOK
<1>1. Base => TypeOK
  BY DEF Base
<1> QED
  BY <1>1, BaseInvariant, PTL

-----------------------------------------------------------------------------
(* A "tls" build: each thread has a block of its own, which lives until    *)
(* the thread's exit callbacks have run.  Later calls of the thread find a *)
(* slot that still names it.                                               *)

(* What thread t at call record k knows of its block.                      *)
BlockOf(t, k) ==
  /\ items[t] \subseteq {slot[t]}
  /\ slot[t] # NULL => obj[slot[t]] # "unused"
  /\ slot[t] # NULL /\ t \notin exited => obj[slot[t]] = "live"
  /\ slot[t] # NULL /\ k.pc # "atexit" /\ obj[slot[t]] = "live" =>
       slot[t] \in items[t] \/ t \in unregistered
  /\ k.pc \in {"atexit", "get"} => slot[t] # NULL
  /\ k.pc = "calloc" => slot[t] = NULL
  /\ guard[t] # NULL => guard[t] = slot[t]

OwnBlocks == \A t, u \in Threads : slot[t] = slot[u] /\ slot[t] # NULL => t = u

InSlots == \A o \in Objects : obj[o] = "live" => \E t \in Threads : slot[t] = o

TlsInv == strategy = "tls" =>
            /\ OwnBlocks /\ InSlots
            /\ \A t \in Threads : BlockOf(t, call[t])

(* A step that leaves the blocks alone.                                    *)
LEMMA BlocksKept ==
  ASSUME TlsInv, NEW t \in Threads, NEW k, Moves(t, k),
         UNCHANGED <<strategy, slot, obj, items, unregistered, exited>>,
         \A u \in Threads \ {t} : guard'[u] = guard[u],
         strategy = "tls" => BlockOf(t, call[t])'
  PROVE  TlsInv'
<1> SUFFICES ASSUME strategy' = "tls"
             PROVE  /\ OwnBlocks' /\ InSlots'
                    /\ \A u \in Threads : BlockOf(u, call[u])'
  BY DEF TlsInv
<1>1. OwnBlocks' /\ InSlots'
  BY DEF TlsInv, OwnBlocks, InSlots
<1>2. ASSUME NEW u \in Threads, u # t PROVE BlockOf(u, call[u])'
  BY <1>2 DEF TlsInv, BlockOf, Moves
<1> QED
  BY <1>1, <1>2

(* A step of a call from and to control points where it has no claim on    *)
(* its block.                                                              *)
LEMMA Elsewhere ==
  ASSUME TlsInv, NEW t \in Threads, NEW k, Moves(t, k),
         UNCHANGED <<strategy, slot, obj, items, unregistered, exited, guard>>,
         call[t].pc # "atexit",
         k.pc \notin {"atexit", "calloc", "get"}
  PROVE  TlsInv'
<1>1. strategy = "tls" => BlockOf(t, call[t])'
  BY DEF TlsInv, BlockOf, Moves
<1> QED
  BY <1>1, BlocksKept

(* The calls of the clients.                                               *)
LEMMA TlsClient ==
  ASSUME Base, TlsInv, NEW t \in Threads, Client(t)
  PROVE  TlsInv'
<1>0. CallsOK /\ TypeOK /\ call[t] \in Call /\ call[t].pc \in PCs
      /\ ShapeOf(call[t])
  BY BaseCalls
<1>1. call[t].pc = "idle" /\ call[t].op = "none"
  BY <1>0 DEF Client, InstallSighandler, UninstallSighandler, Begin,
              GuardedReturns, RunAtexit, At, ShapeOf
<1>2. CASE InstallSighandler(t) \/ UninstallSighandler(t) \/ Begin(t)
  <2>1. UNCHANGED <<strategy, slot, obj, items, unregistered, exited, guard>>
    BY <1>2 DEF InstallSighandler, UninstallSighandler, Begin, state
  <2>2. PICK p \in {"gate", "init"}, o \in Ops : Enter(t, p, o)
    BY <1>2 DEF InstallSighandler, UninstallSighandler, Begin, Ops
  <2> DEFINE k == [pc |-> p, op |-> o]
  <2>3. Moves(t, k) /\ k.pc \notin {"atexit", "calloc", "get"}
    BY <1>0, <2>2, Steps DEF PCs
  <2> HIDE DEF k
  <2> QED
    BY <1>1, <2>1, <2>3, Elsewhere
<1>3. CASE GuardedReturns(t)
  <2>1. Moves(t, call[t])
    BY <1>0, <1>3 DEF GuardedReturns, Moves
  <2>2. /\ UNCHANGED <<strategy, slot, obj, items, unregistered, exited>>
        /\ \A u \in Threads \ {t} : guard'[u] = guard[u]
        /\ guard'[t] = NULL
    BY <1>0, <1>3 DEF GuardedReturns, state, TypeOK
  <2>3. strategy = "tls" => BlockOf(t, call[t]) 
    BY DEF TlsInv
  <2>4. ASSUME strategy = "tls" PROVE BlockOf(t, call[t])'
    BY <1>1, <2>1, <2>2, <2>3, <2>4 DEF BlockOf, Moves
  <2> QED
    BY <2>1, <2>2, <2>4, BlocksKept
<1>4. CASE RunAtexit(t)
  <2>1. Moves(t, call[t])
    BY <1>0, <1>4 DEF RunAtexit, Moves
  <2>2. /\ UNCHANGED <<strategy, slot, unregistered, guard>> /\ guard[t] = NULL
        /\ items' = [items EXCEPT ![t] = {}] /\ exited' = exited \cup {t}
        /\ \A o \in Objects :
             obj'[o] = IF o \in items[t] THEN "freed" ELSE obj[o]
    BY <1>4 DEF RunAtexit
  <2> SUFFICES ASSUME strategy = "tls"
               PROVE  /\ OwnBlocks' /\ InSlots'
                      /\ \A u \in Threads : BlockOf(u, call[u])'
    BY <2>2 DEF TlsInv
  <2>3. OwnBlocks' /\ InSlots'
    BY <2>2 DEF TlsInv, OwnBlocks, InSlots
  <2>4. BlockOf(t, call[t])'
    BY <1>0, <1>1, <2>1, <2>2 DEF TlsInv, BlockOf, Moves, TypeOK
  <2>5. ASSUME NEW u \in Threads, u # t PROVE BlockOf(u, call[u])'
    <3>1. slot[u] # NULL => slot[u] \in Objects /\ slot[u] \notin items[t]
      BY <1>0, <2>5 DEF TlsInv, OwnBlocks, BlockOf, TypeOK
    <3> QED
      BY <1>0, <2>1, <2>2, <2>5, <3>1 DEF TlsInv, BlockOf, Moves, TypeOK
  <2> QED
    BY <2>3, <2>4, <2>5
<1> QED
  BY <1>2, <1>3, <1>4 DEF Client

(* The gate and the locked sections.                                       *)
LEMMA TlsLocked ==
  ASSUME Base, TlsInv, NEW t \in Threads, Gate(t) \/ Locked(t)
  PROVE  TlsInv'
<1> SUFFICES ASSUME strategy = "tls" PROVE TlsInv'
  BY DEF TlsInv, Gate, GateLoad, GateExchange, GateSpin, InitTable, GatePublish,
         Locked, LookupLocked, InstallLocked, UninstallLocked, TssDestroy,
         ResetSlot
<1>0. CallsOK /\ TypeOK /\ call[t] \in Call /\ call[t].pc \in PCs
      /\ ShapeOf(call[t])
  BY BaseCalls
<1>1. ~TssDestroy(t) /\ ~ResetSlot(t)
  BY <1>0 DEF TssDestroy, ResetSlot, At, ShapeOf
<1>2. /\ UNCHANGED <<strategy, slot, obj, items, unregistered, exited, guard>>
      /\ call[t].pc # "atexit"
  BY <1>1 DEF Gate, GateLoad, GateExchange, GateSpin, InitTable, GatePublish,
         Locked, LookupLocked, InstallLocked, UninstallLocked, At, state
<1>3. Return(t) \/ \E p \in {"cas", "spin", "init_table", "publish", "lock"} :
                     Goto(t, p)
  BY <1>1 DEF Gate, GateLoad, GateExchange, GateSpin, InitTable, GatePublish,
         Locked, LookupLocked, InstallLocked, UninstallLocked
<1>4. CASE Return(t)
  <2>1. Moves(t, Idle) /\ Idle.pc \notin {"atexit", "calloc", "get"}
    BY <1>0, <1>4, Steps DEF Idle
  <2> QED
    BY <1>2, <2>1, Elsewhere
<1>5. CASE \E p \in {"cas", "spin", "init_table", "publish", "lock"} : Goto(t, p)
  <2>1. PICK p \in {"cas", "spin", "init_table", "publish", "lock"} : Goto(t, p)
    BY <1>5
  <2> DEFINE k == [pc |-> p, op |-> call[t].op]
  <2>2. Moves(t, k) /\ k.pc \notin {"atexit", "calloc", "get"}
    BY <1>0, <2>1, Steps DEF PCs
  <2> HIDE DEF k
  <2> QED
    BY <1>2, <2>2, Elsewhere
<1> QED
  BY <1>3, <1>4, <1>5

(* sig_global_tss_state_init() and sig_global_tss_state().                 *)
LEMMA TlsState ==
  ASSUME Base, TlsInv, NEW t \in Threads, State(t)
  PROVE  TlsInv'
<1> SUFFICES ASSUME strategy = "tls" PROVE TlsInv'
  BY DEF TlsInv, State, StateInit, StateAllocate, ThreadAtexit, TssCreate,
         TssCreateStore, TssCreateFails, TssThreadInit, StateGet
<1>0. CallsOK /\ TypeOK /\ call[t] \in Call /\ call[t].pc \in PCs
      /\ ShapeOf(call[t]) /\ BlockOf(t, call[t])
  BY BaseCalls DEF TlsInv
<1>1. CASE StateInit(t)
  <2>1. UNCHANGED <<strategy, slot, obj, items, unregistered, exited, guard>>
        /\ call[t].pc = "init"
    BY <1>1 DEF StateInit, At, state
  <2>2. PICK p \in {"calloc", "get"} :
          Goto(t, p) /\ (p = "calloc" <=> slot[t] = NULL)
    BY <1>1 DEF StateInit
  <2> DEFINE k == [pc |-> p, op |-> call[t].op]
  <2>3. Moves(t, k) /\ k.pc = p
    BY <1>0, <2>2, Steps DEF PCs
  <2> HIDE DEF k
  <2>4. BlockOf(t, call[t])'
    BY <1>0, <2>1, <2>2, <2>3 DEF BlockOf, Moves
  <2> QED
    BY <2>1, <2>3, <2>4, BlocksKept
<1>2. CASE StateAllocate(t)
  <2>1. /\ UNCHANGED <<strategy, items, unregistered, exited, guard>>
        /\ call[t].pc = "calloc" /\ slot[t] = NULL
    BY <1>0, <1>2 DEF StateAllocate, At, BlockOf
  <2>2. CASE Return(t) /\ UNCHANGED <<obj, slot>>
    <3>1. Moves(t, Idle) /\ Idle.pc \notin {"atexit", "calloc", "get"}
      BY <1>0, <2>2, Steps DEF Idle
    <3> QED
      BY <2>1, <2>2, <3>1, Elsewhere
  <2>3. CASE ~(Return(t) /\ UNCHANGED <<obj, slot>>)
    <3>1. PICK o \in Objects : /\ obj[o] = "unused"
                               /\ obj' = [obj EXCEPT ![o] = "live"]
                               /\ slot' = [slot EXCEPT ![t] = o]
                               /\ Goto(t, "atexit")
      BY <1>2, <2>3 DEF StateAllocate, SetSlot
    <3> DEFINE k == [pc |-> "atexit", op |-> call[t].op]
    <3>2. Moves(t, k) /\ k.pc = "atexit"
      BY <1>0, <3>1, Steps DEF PCs
    <3> HIDE DEF k
    <3>3. /\ slot'[t] = o /\ o # NULL /\ obj'[o] = "live"
          /\ \A u \in Threads \ {t} : slot'[u] = slot[u]
          /\ \A x \in Objects \ {o} : obj'[x] = obj[x]
      BY <1>0, <3>1, NullAssumption DEF TypeOK
    <3>4. \A u \in Threads : slot[u] # NULL => slot[u] \in Objects \ {o}
      BY <1>0, <3>1 DEF TlsInv, BlockOf, TypeOK
    <3>5. items[t] = {}
      <4>1. items[t] \subseteq Objects /\ items[t] \subseteq {NULL}
        BY <1>0, <2>1 DEF BlockOf, TypeOK
      <4> QED
        BY <4>1, NullAssumption
    <3>6. OwnBlocks'
      BY <3>3, <3>4 DEF TlsInv, OwnBlocks
    <3>7. InSlots'
      <4>1. \A x \in Objects \ {o} : obj'[x] = "live" =>
              \E u \in Threads \ {t} : slot[u] = x
        BY <2>1, <3>3, NullAssumption DEF TlsInv, InSlots
      <4> QED
        BY <3>3, <4>1 DEF InSlots
    <3>8. BlockOf(t, call[t])'
      BY <1>0, <2>1, <3>2, <3>3, <3>5 DEF BlockOf, Moves
    <3>9. ASSUME NEW u \in Threads, u # t PROVE BlockOf(u, call[u])'
      <4>1. /\ slot'[u] = slot[u] /\ call'[u] = call[u]
            /\ slot[u] # NULL => obj'[slot[u]] = obj[slot[u]]
        BY <3>2, <3>3, <3>4, <3>9 DEF Moves
      <4> QED
        BY <2>1, <4>1 DEF TlsInv, BlockOf
    <3> QED
      BY <3>6, <3>7, <3>8, <3>9 DEF TlsInv
  <2> QED
    BY <2>2, <2>3
<1>3. CASE ThreadAtexit(t)
  <2>1. /\ UNCHANGED <<strategy, slot, obj, exited, guard>>
        /\ call[t].pc = "atexit" /\ slot[t] # NULL
    BY <1>0, <1>3 DEF ThreadAtexit, At, BlockOf
  <2>2. /\ \A u \in Threads \ {t} : items'[u] = items[u]
        /\ unregistered \subseteq unregistered'
        /\ \/ Goto(t, "get") /\ items'[t] = items[t] \cup {slot[t]}
           \/ Return(t) /\ t \in unregistered' /\ items' = items
    BY <1>0, <1>3 DEF ThreadAtexit, TypeOK
  <2>3. PICK k : /\ Moves(t, k)
                 /\ \/ k.pc = "get" /\ items'[t] = items[t] \cup {slot[t]}
                    \/ k.pc = "idle" /\ t \in unregistered' /\ items' = items
    <3>1. CASE Return(t) /\ t \in unregistered' /\ items' = items
      <4>1. Moves(t, Idle) /\ Idle.pc = "idle"
        BY <1>0, <3>1, Steps DEF Idle
      <4> QED
        BY <3>1, <4>1
    <3>2. CASE Goto(t, "get") /\ items'[t] = items[t] \cup {slot[t]}
      <4> DEFINE k == [pc |-> "get", op |-> call[t].op]
      <4>1. Moves(t, k) /\ k.pc = "get"
        BY <1>0, <3>2, Steps DEF PCs
      <4> QED
        BY <3>2, <4>1
    <3> QED
      BY <2>2, <3>1, <3>2
  <2>4. OwnBlocks' /\ InSlots'
    BY <2>1 DEF TlsInv, OwnBlocks, InSlots
  <2>5. BlockOf(t, call[t])'
    BY <1>0, <2>1, <2>3 DEF BlockOf, Moves
  <2>6. ASSUME NEW u \in Threads, u # t PROVE BlockOf(u, call[u])'
    <3>1. call'[u] = call[u] /\ items'[u] = items[u]
          /\ (u \in unregistered => u \in unregistered')
      BY <2>2, <2>3, <2>6 DEF Moves
    <3> QED
      BY <2>1, <3>1 DEF TlsInv, BlockOf
  <2> QED
    BY <2>4, <2>5, <2>6 DEF TlsInv
<1>4. CASE StateGet(t)
  <2>1. /\ UNCHANGED <<strategy, slot, obj, items, unregistered, exited>>
        /\ call[t].pc = "get"
        /\ \A u \in Threads \ {t} : guard'[u] = guard[u]
        /\ guard'[t] \in {guard[t], slot[t]}
    BY <1>0, <1>4 DEF StateGet, At, state, TypeOK
  <2>2. PICK k : Moves(t, k) /\ k.pc \in {"idle", "gate"}
    <3>1. CASE Return(t)
      <4>1. Moves(t, Idle) /\ Idle.pc = "idle"
        BY <1>0, <3>1, Steps DEF Idle
      <4> QED
        BY <4>1
    <3>2. CASE Goto(t, "gate")
      <4> DEFINE k == [pc |-> "gate", op |-> call[t].op]
      <4>1. Moves(t, k) /\ k.pc = "gate"
        BY <1>0, <3>2, Steps DEF PCs
      <4> QED
        BY <4>1
    <3> QED
      BY <1>4, <3>1, <3>2 DEF StateGet
  <2>3. BlockOf(t, call[t])'
    BY <1>0, <2>1, <2>2 DEF BlockOf, Moves
  <2> QED
    BY <2>1, <2>2, <2>3, BlocksKept
<1> QED
  BY <1>0, <1>1, <1>2, <1>3, <1>4 DEF State, TssCreate, TssCreateStore,
       TssCreateFails, TssThreadInit, At, ShapeOf

-----------------------------------------------------------------------------
(* A "tss" build: the threads share one instance, made by the first call   *)
(* that needs it and destroyed by the last uninstall.                      *)

SameSlot == \A t, u \in Threads : slot[t] = slot[u]

Resetting == \E u \in Threads : call[u].pc = "reset"

(* Only between the destroy and the reset may the slot dangle.             *)
InstanceLive ==
  \A t \in Threads : slot[t] # NULL /\ ~Resetting => obj[slot[t]] = "live"

Installed == lock = NULL /\ sighandlers_count > 0 =>
               \A t \in Threads : slot[t] # NULL

Destroyable == \A t \in Threads : call[t].pc = "destroy" => slot[t] # NULL

(* What holds of the slot whatever races there were.                       *)
SlotInv == strategy = "tss" =>
             /\ SameSlot /\ InstanceLive /\ Installed /\ Destroyable
             /\ \A t \in Threads : items[t] = {}

(* What thread t at call record k knows of the instance, as long as there  *)
(* was no race.                                                            *)
UseOf(t, k) ==
  /\ k.pc \in {"thread_init", "get"} => slot[t] # NULL
  /\ k.pc = "get" => t \in values[slot[t]]
  /\ k.pc = "store" => slot[t] = NULL
  /\ k.pc = "reset" /\ slot[t] # NULL => obj[slot[t]] = "freed"
  /\ guard[t] # NULL => guard[t] = slot[t] /\ t \in values[slot[t]]

UseInv == strategy = "tss" /\ ~raced =>
            ~Race /\ InSlots /\ \A t \in Threads : UseOf(t, call[t])

TssInv == SlotInv /\ UseInv

(* Without a race so far there is none before or after the step.           *)
LEMMA Unraced ==
  ASSUME CallsOK, Witness, ~raced'
  PROVE  ~raced /\ ~Race'
  BY DEF Witness

(* A step that leaves the instance alone.                                  *)
LEMMA InstanceKept ==
  ASSUME Base, TssInv, Witness, NEW t \in Threads, NEW k, Moves(t, k),
         UNCHANGED <<strategy, slot, obj, items>>,
         \A o \in Objects, u \in Threads \ {t} :
           u \in values[o] => u \in values'[o],
         \A u \in Threads \ {t} : guard'[u] = guard[u],
         call[t].pc # "reset",
         strategy = "tss" => Installed' /\ (k.pc = "destroy" => slot[t] # NULL),
         strategy = "tss" /\ ~raced => UseOf(t, call[t])'
  PROVE  TssInv'
<1>0. CallsOK /\ TypeOK
  BY BaseCalls
<1>1. SlotInv'
  <2> SUFFICES ASSUME strategy = "tss"
               PROVE  /\ SameSlot' /\ InstanceLive' /\ Installed' /\ Destroyable'
                      /\ \A u \in Threads : items'[u] = {}
    BY DEF SlotInv
  <2>1. SameSlot' /\ Installed' /\ \A u \in Threads : items'[u] = {}
    BY DEF TssInv, SlotInv, SameSlot
  <2>2. Resetting => Resetting'
    BY DEF Resetting, Moves
  <2>3. InstanceLive'
    BY <2>2 DEF TssInv, SlotInv, InstanceLive
  <2>4. Destroyable'
    BY DEF TssInv, SlotInv, Destroyable, Moves
  <2> QED
    BY <2>1, <2>3, <2>4
<1>2. UseInv'
  <2> SUFFICES ASSUME strategy = "tss", ~raced'
               PROVE  ~Race' /\ InSlots' /\ \A u \in Threads : UseOf(u, call[u])'
    BY DEF UseInv
  <2>1. ~raced /\ ~Race'
    BY <1>0, Unraced
  <2>2. InSlots'
    BY <2>1 DEF TssInv, UseInv, InSlots
  <2>3. ASSUME NEW u \in Threads, u # t PROVE UseOf(u, call[u])'
    <3>1. /\ call'[u] = call[u] /\ guard'[u] = guard[u]
          /\ slot[u] # NULL => (u \in values[slot[u]] => u \in values'[slot[u]])
      BY <1>0, <2>3 DEF Moves, TypeOK
    <3>2. UseOf(u, call[u])
      BY <2>1 DEF TssInv, UseInv
    <3> QED
      BY <3>1, <3>2 DEF UseOf
  <2> QED
    BY <2>1, <2>2, <2>3
<1> QED
  BY <1>1, <1>2 DEF TssInv

(* A step of a call alone.                                                 *)
LEMMA CallMoves ==
  ASSUME Base, TssInv, Witness, NEW t \in Threads, NEW k, Moves(t, k),
         UNCHANGED <<strategy, slot, obj, items, values, guard>>,
         call[t].pc # "reset",
         strategy = "tss" =>
           /\ Installed'
           /\ k.pc \in {"thread_init", "destroy"} => slot[t] # NULL
           /\ k.pc = "store" => slot[t] = NULL,
         k.pc \notin {"get", "reset"}
  PROVE  TssInv'
<1>1. strategy = "tss" /\ ~raced => UseOf(t, call[t])'
  BY DEF TssInv, UseInv, UseOf, Moves
<1>2. UNCHANGED <<strategy, slot, obj, items>>
  OBVIOUS
<1> QED
  BY <1>1, <1>2, InstanceKept

(* The calls of the clients.                                               *)
LEMMA TssClient ==
  ASSUME Base, TssInv, Witness, NEW t \in Threads, Client(t)
  PROVE  TssInv'
<1>0. CallsOK /\ TypeOK /\ call[t] \in Call /\ ShapeOf(call[t])
  BY BaseCalls
<1>1. call[t].pc = "idle" /\ call[t].op = "none"
  BY <1>0 DEF Client, InstallSighandler, UninstallSighandler, Begin,
              GuardedReturns, RunAtexit, At, ShapeOf
<1>2. strategy = "tss" => Installed'
  BY DEF Client, InstallSighandler, UninstallSighandler, Begin,
         GuardedReturns, RunAtexit, shared, state, TssInv, SlotInv, Installed
<1>3. CASE InstallSighandler(t) \/ UninstallSighandler(t) \/ Begin(t)
  <2>1. UNCHANGED <<strategy, slot, obj, items, values, guard>>
    BY <1>3 DEF InstallSighandler, UninstallSighandler, Begin, state
  <2>2. PICK p \in {"gate", "init"}, o \in Ops : Enter(t, p, o)
    BY <1>3 DEF InstallSighandler, UninstallSighandler, Begin, Ops
  <2> DEFINE k == [pc |-> p, op |-> o]
  <2>3. /\ Moves(t, k)
        /\ k.pc \notin {"thread_init", "destroy", "store", "get", "reset"}
    BY <1>0, <2>2, Steps DEF PCs
  <2> HIDE DEF k
  <2> QED
    BY <1>1, <1>2, <2>1, <2>3, CallMoves
<1>4. CASE GuardedReturns(t)
  <2>1. Moves(t, call[t])
    BY <1>0, <1>4 DEF GuardedReturns, Moves
  <2>2. /\ UNCHANGED <<strategy, slot, obj, items>> /\ UNCHANGED values
        /\ \A u \in Threads \ {t} : guard'[u] = guard[u]
        /\ guard'[t] = NULL
    BY <1>0, <1>4 DEF GuardedReturns, state, TypeOK
  <2>3. strategy = "tss" /\ ~raced => UseOf(t, call[t])'
    BY <1>1, <2>1, <2>2 DEF UseOf, Moves
  <2> QED
    BY <1>1, <1>2, <2>1, <2>2, <2>3, InstanceKept
<1>5. CASE RunAtexit(t)
  <2> SUFFICES ASSUME strategy = "tss" PROVE TssInv'
    BY <1>5 DEF TssInv, SlotInv, UseInv, RunAtexit
  <2>1. Moves(t, call[t])
    BY <1>0, <1>5 DEF RunAtexit, Moves
  <2>2. items[t] = {}
    BY DEF TssInv, SlotInv
  <2>3. UNCHANGED <<strategy, slot, obj, items>>
    BY <1>0, <1>5, <2>2 DEF RunAtexit, TypeOK
  <2>4. /\ UNCHANGED guard /\ guard[t] = NULL
        /\ \A o \in Objects, u \in Threads \ {t} :
             u \in values[o] => u \in values'[o]
    BY <1>5 DEF RunAtexit
  <2>5. UseOf(t, call[t])'
    BY <1>1, <2>1, <2>4 DEF UseOf, Moves
  <2>6. \A u \in Threads \ {t} : guard'[u] = guard[u]
    BY <2>4
  <2> QED
    BY <1>1, <1>2, <2>1, <2>3, <2>4, <2>5, <2>6, InstanceKept
<1> QED
  BY <1>3, <1>4, <1>5 DEF Client

(* The gate.                                                               *)
LEMMA TssGate ==
  ASSUME Base, TssInv, Witness, NEW t \in Threads, Gate(t)
  PROVE  TssInv'
<1>0. CallsOK /\ TypeOK /\ call[t] \in Call /\ ShapeOf(call[t])
  BY BaseCalls
<1>1. /\ UNCHANGED <<strategy, slot, obj, items, values, guard>>
      /\ UNCHANGED <<sighandlers_count, lock>> /\ call[t].pc # "reset"
  BY DEF Gate, GateLoad, GateExchange, GateSpin, InitTable, GatePublish, At,
         state, shared
<1>2. PICK p \in {"cas", "spin", "init_table", "publish", "lock"} : Goto(t, p)
  BY DEF Gate, GateLoad, GateExchange, GateSpin, InitTable, GatePublish
<1> DEFINE k == [pc |-> p, op |-> call[t].op]
<1>3. /\ Moves(t, k)
      /\ k.pc \notin {"get", "thread_init", "destroy", "store", "reset"}
  BY <1>0, <1>2, Steps DEF PCs
<1> HIDE DEF k
<1>4. strategy = "tss" => Installed'
  BY <1>1 DEF TssInv, SlotInv, Installed
<1> QED
  BY <1>1, <1>3, <1>4, CallMoves

(* The destroy and the reset: without a race nobody is inside.             *)
LEMMA TssDestroys ==
  ASSUME Base, TssInv, Witness, NEW t \in Threads, strategy = "tss",
         TssDestroy(t) \/ ResetSlot(t)
  PROVE  TssInv'
<1>0. /\ CallsOK /\ TypeOK /\ call[t] \in Call
      /\ \A u \in Threads : ShapeOf(call[u])
  BY BaseCalls
<1>1. /\ call[t].pc \in {"destroy", "reset"} /\ call[t].op = "uninstall"
      /\ call[t].pc = "destroy" => slot[t] \in Objects
  BY <1>0 DEF TssDestroy, ResetSlot, At, ShapeOf, TssInv, SlotInv, Destroyable,
              TypeOK
<1>2. lock = t /\ sighandlers_count = 0 /\ lock # NULL
  BY <1>1, NullAssumption DEF Base, LockShape, HoldsLock
<1>3. \A u \in Threads \ {t} : call[u].pc \notin {"destroy", "reset"}
  BY <1>2 DEF Base, LockShape, HoldsLock
<1>4. ~raced => \A u \in Threads : guard[u] = NULL /\ call[u].op \notin Calling
  BY <1>1 DEF TssInv, UseInv, Race, Inside, Calling
<1>5. ~raced => \A u \in Threads : call[u].pc \notin {"thread_init", "get"}
  BY <1>0, <1>4 DEF ShapeOf
<1>6. \A u \in Threads : slot[u] = slot[t] /\ items[u] = {}
  BY DEF TssInv, SlotInv, SameSlot
<1>7. CASE TssDestroy(t)
  <2> DEFINE k == [pc |-> "reset", op |-> call[t].op]
  <2>1. Moves(t, k) /\ k.pc = "reset"
    BY <1>0, <1>7, Steps DEF TssDestroy, PCs
  <2> HIDE DEF k
  <2>2. /\ UNCHANGED <<strategy, slot, items, guard, lock, sighandlers_count>>
        /\ call[t].pc = "destroy"
        /\ slot[t] \in Objects /\ obj'[slot[t]] = "freed"
        /\ \A o \in Objects \ {slot[t]} : obj'[o] = obj[o]
    BY <1>0, <1>1, <1>7 DEF TssDestroy, At, shared, TypeOK
  <2>3. Resetting'
    BY <2>1 DEF Resetting, Moves
  <2>4. SlotInv'
    <3>1. Destroyable'
      BY <1>3, <2>1 DEF Destroyable, Moves
    <3>2. SameSlot' /\ InstanceLive' /\ Installed'
      BY <1>2, <1>6, <2>2, <2>3 DEF SameSlot, InstanceLive, Installed
    <3> QED
      BY <1>6, <2>2, <3>1, <3>2 DEF SlotInv
  <2>5. UseInv'
    <3> SUFFICES ASSUME ~raced'
                 PROVE  ~Race' /\ InSlots' /\ \A u \in Threads : UseOf(u, call[u])'
      BY DEF UseInv
    <3>1. ~raced /\ ~Race'
      BY <1>0, Unraced
    <3>2. InSlots'
      BY <2>2, <3>1 DEF TssInv, UseInv, InSlots
    <3>3. ASSUME NEW u \in Threads PROVE UseOf(u, call[u])'
      <4>1. /\ guard'[u] = NULL /\ slot'[u] = slot[u]
            /\ call'[u].pc \notin {"thread_init", "get"}
            /\ call'[u].pc = "store" => call[u].pc = "store"
        BY <1>4, <1>5, <2>1, <2>2, <3>1 DEF Moves
      <4>2. slot[u] = slot[t] /\ slot'[t] = slot[t] /\ obj'[slot[t]] = "freed"
        BY <1>6, <2>2
      <4> QED
        BY <3>1, <4>1, <4>2 DEF UseOf, TssInv, UseInv
    <3> QED
      BY <3>1, <3>2, <3>3
  <2> QED
    BY <2>4, <2>5 DEF TssInv
<1>8. CASE ResetSlot(t)
  <2>1. Moves(t, Idle) /\ Idle.pc = "idle"
    BY <1>0, <1>8, Steps DEF ResetSlot, Idle
  <2>2. /\ UNCHANGED <<strategy, obj, items, guard, sighandlers_count>>
        /\ \A u \in Threads : slot'[u] = NULL
        /\ call[t].pc = "reset"
    BY <1>8 DEF ResetSlot, SetSlot, At
  <2>3. SlotInv'
    <3>1. Destroyable'
      BY <1>3, <2>1 DEF Destroyable, Moves
    <3>2. SameSlot' /\ InstanceLive' /\ Installed'
      BY <1>2, <2>2 DEF SameSlot, InstanceLive, Installed
    <3> QED
      BY <1>6, <2>2, <3>1, <3>2 DEF SlotInv
  <2>4. UseInv'
    <3> SUFFICES ASSUME ~raced'
                 PROVE  ~Race' /\ InSlots' /\ \A u \in Threads : UseOf(u, call[u])'
      BY DEF UseInv
    <3>1. ~raced /\ ~Race'
      BY <1>0, Unraced
    <3>2. InSlots'
      <4>1. \A o \in Objects : obj[o] # "live"
        <5>1. UseOf(t, call[t]) /\ InSlots
          BY <3>1 DEF TssInv, UseInv
        <5> QED
          BY <1>6, <2>2, <5>1, NullAssumption DEF UseOf, InSlots
      <4> QED
        BY <2>2, <4>1 DEF InSlots
    <3>3. ASSUME NEW u \in Threads PROVE UseOf(u, call[u])'
      <4>1. /\ guard'[u] = NULL /\ slot'[u] = NULL
            /\ call'[u].pc \notin {"thread_init", "get"}
        BY <1>4, <1>5, <2>1, <2>2, <3>1 DEF Moves
      <4> QED
        BY <4>1 DEF UseOf
    <3> QED
      BY <3>1, <3>2, <3>3
  <2> QED
    BY <2>3, <2>4 DEF TssInv
<1> QED
  BY <1>7, <1>8

(* The section under the lock.                                             *)
LEMMA TssLocked ==
  ASSUME Base, TssInv, Witness, NEW t \in Threads, Locked(t)
  PROVE  TssInv'
<1> SUFFICES ASSUME strategy = "tss" PROVE TssInv'
  BY DEF TssInv, SlotInv, UseInv, Locked, LookupLocked, InstallLocked,
         UninstallLocked, TssDestroy, ResetSlot
<1>0. /\ CallsOK /\ TypeOK /\ call[t] \in Call
      /\ sighandlers_count \in Nat
  BY BaseCalls DEF TypeOK
<1>1. CASE LookupLocked(t) \/ InstallLocked(t) \/ UninstallLocked(t)
  <2>1. /\ UNCHANGED <<strategy, slot, obj, items, values, guard>>
        /\ call[t].pc # "reset" /\ lock = NULL
    BY <1>1 DEF LookupLocked, InstallLocked, UninstallLocked, At, state
  <2>2. /\ Installed'
        /\ \/ Return(t)
           \/ Goto(t, "create")
           \/ Goto(t, "destroy") /\ slot[t] # NULL
    <3>1. CASE LookupLocked(t)
      BY <2>1, <3>1 DEF LookupLocked, TssInv, SlotInv, Installed, shared
    <3>2. CASE InstallLocked(t)
      <4>1. CASE sighandlers_count = 0
        BY <3>2, <4>1, NullAssumption DEF InstallLocked, Installed
      <4>2. CASE sighandlers_count # 0
        <5>1. \A u \in Threads : slot[u] # NULL
          BY <1>0, <2>1, <4>2 DEF TssInv, SlotInv, Installed
        <5> QED
          BY <2>1, <3>2, <4>2, <5>1 DEF InstallLocked, Installed
      <4> QED
        BY <4>1, <4>2
    <3>3. CASE UninstallLocked(t)
      <4>1. CASE sighandlers_count = 1
        <5>1. \A u \in Threads : slot[u] # NULL
          BY <2>1, <4>1 DEF TssInv, SlotInv, Installed
        <5> QED
          BY <2>1, <3>3, <4>1, <5>1 DEF UninstallLocked, Installed
      <4>2. CASE sighandlers_count # 1
        <5>1. sighandlers_count' > 0 => sighandlers_count > 0
          BY <1>0, <3>3 DEF UninstallLocked
        <5> QED
          BY <2>1, <3>3, <4>2, <5>1 DEF UninstallLocked, TssInv, SlotInv, Installed
      <4> QED
        BY <4>1, <4>2
    <3> QED
      BY <1>1, <3>1, <3>2, <3>3
  <2>3. PICK k : /\ Moves(t, k) 
                 /\ k.pc \in {"idle", "create", "destroy"}
                 /\ k.pc = "destroy" => slot[t] # NULL
    <3>1. CASE Return(t)
      <4>1. Moves(t, Idle) /\ Idle.pc = "idle"
        BY <1>0, <3>1, Steps DEF Idle
      <4> QED
        BY <4>1
    <3>2. CASE Goto(t, "create")
      <4> DEFINE k == [pc |-> "create", op |-> call[t].op]
      <4>1. Moves(t, k) /\ k.pc = "create"
        BY <1>0, <3>2, Steps DEF PCs
      <4> QED
        BY <4>1
    <3>3. CASE Goto(t, "destroy") /\ slot[t] # NULL
      <4> DEFINE k == [pc |-> "destroy", op |-> call[t].op]
      <4>1. Moves(t, k) /\ k.pc = "destroy"
        BY <1>0, <3>3, Steps DEF PCs
      <4> QED
        BY <3>3, <4>1
    <3> QED
      BY <2>2, <3>1, <3>2, <3>3
  <2>4. /\ k.pc \notin {"get", "reset"}
        /\ k.pc \in {"thread_init", "destroy"} => slot[t] # NULL
        /\ k.pc = "store" => slot[t] = NULL
    BY <2>3
  <2> QED
    BY <2>1, <2>2, <2>3, <2>4, CallMoves
<1> QED
  BY <1>1, TssDestroys DEF Locked

(* sig_global_tss_state_create() ends: the instance is there.              *)
LEMMA TssCreated ==
  ASSUME Base, NEW t \in Threads, Created(t)
  PROVE  \E k : /\ Moves(t, k)
                /\ k.pc \in {"idle", "thread_init"}
<1>0. CallsOK /\ call[t] \in Call
  BY BaseCalls
<1>1. CASE Return(t)
  <2>1. Moves(t, Idle) /\ Idle.pc = "idle"
    BY <1>0, <1>1, Steps DEF Idle
  <2> QED
    BY <2>1
<1>2. CASE Goto(t, "thread_init")
  <2> DEFINE k == [pc |-> "thread_init", op |-> call[t].op]
  <2>1. Moves(t, k) /\ k.pc = "thread_init"
    BY <1>0, <1>2, Steps DEF PCs
  <2> QED
    BY <2>1
<1> QED
  BY <1>1, <1>2 DEF Created

(* The store of the new instance.                                          *)
LEMMA TssStores ==
  ASSUME Base, TssInv, Witness, NEW t \in Threads, TssCreateStore(t)
  PROVE  TssInv'
<1>0. /\ CallsOK /\ TypeOK /\ \A u \in Threads : ShapeOf(call[u])
      /\ call[t].pc = "store" /\ UNCHANGED <<strategy, items, values, guard>>
  BY BaseCalls DEF TssCreateStore, At
<1>1. strategy = "tss" /\ call[t].op \in Calling \cup {"install"}
  BY <1>0 DEF ShapeOf
<1>2. PICK o \in Objects : /\ obj[o] = "unused"
                           /\ obj' = [obj EXCEPT ![o] = "live"]
                           /\ slot' = [u \in Threads |-> o]
  BY <1>1 DEF TssCreateStore, SetSlot
<1>3. /\ o # NULL /\ obj'[o] = "live"
      /\ \A u \in Threads : slot'[u] = o
      /\ \A x \in Objects \ {o} : obj'[x] = obj[x]
  BY <1>0, <1>2, NullAssumption DEF TypeOK
<1>4. PICK k : Moves(t, k) /\ k.pc \in {"idle", "thread_init"}
  BY TssCreated DEF TssCreateStore
<1>5. SlotInv'
  <2>1. SameSlot' /\ InstanceLive' /\ Installed' /\ Destroyable'
    BY <1>3 DEF SameSlot, InstanceLive, Installed, Destroyable
  <2> QED
    BY <1>0, <1>1, <2>1 DEF TssInv, SlotInv
<1>6. UseInv'
  <2> SUFFICES ASSUME ~raced'
               PROVE  ~Race' /\ InSlots' /\ \A u \in Threads : UseOf(u, call[u])'
    BY DEF UseInv
  <2>1. ~raced /\ ~Race'
    BY <1>0, Unraced
  <2>2. ~Race /\ InSlots /\ \A u \in Threads : UseOf(u, call[u])
    BY <1>1, <2>1 DEF TssInv, UseInv
  <2>3. slot[t] = NULL /\ \A u \in Threads : slot[u] = NULL
    BY <1>0, <1>1, <2>2 DEF TssInv, SlotInv, UseOf, SameSlot
  <2>4. \A u \in Threads : /\ guard[u] = NULL
                           /\ call[u].pc \notin {"thread_init", "get"}
    BY <2>2, <2>3 DEF UseOf
  <2>5. \A u \in Threads \ {t} : call[u].pc # "store"
    BY <1>0, <2>2 DEF Race
  <2>6. \A u \in Threads : call[u].pc # "reset"
    <3>1. CASE call[t].op \in Calling
      BY <2>2, <3>1 DEF Race, Inside, Calling
    <3>2. CASE call[t].op = "install"
      BY <1>0, <3>2 DEF Base, LockShape, HoldsLock
    <3> QED
      BY <1>1, <3>1, <3>2
  <2>7. InSlots'
    <3>1. \A x \in Objects \ {o} : obj'[x] # "live"
      BY <1>3, <2>2, <2>3, NullAssumption DEF InSlots
    <3> QED
      BY <1>3, <3>1 DEF InSlots
  <2>8. ASSUME NEW u \in Threads PROVE UseOf(u, call[u])'
    <3>1. /\ call'[u].pc \notin {"get", "store", "reset"}
          /\ guard'[u] = NULL /\ slot'[u] # NULL
      BY <1>0, <1>3, <1>4, <2>4, <2>5, <2>6 DEF Moves
    <3> QED
      BY <3>1 DEF UseOf
  <2> QED
    BY <2>1, <2>7, <2>8
<1> QED
  BY <1>5, <1>6 DEF TssInv

(* sig_global_tss_state_init() and sig_global_tss_state().                 *)
LEMMA TssState ==
  ASSUME Base, TssInv, Witness, NEW t \in Threads, State(t)
  PROVE  TssInv'
<1> SUFFICES ASSUME strategy = "tss" PROVE TssInv'
  BY DEF TssInv, SlotInv, UseInv, State, StateInit, StateAllocate, ThreadAtexit,
         TssCreate, TssCreateStore, TssCreateFails, TssThreadInit, StateGet
<1>0. /\ CallsOK /\ TypeOK /\ call[t] \in Call /\ call[t].op \in Ops
      /\ ShapeOf(call[t])
  BY BaseCalls
<1>1. CASE StateInit(t)
  <2>1. /\ UNCHANGED <<strategy, slot, obj, items, values, guard>>
        /\ UNCHANGED <<sighandlers_count, lock>> /\ call[t].pc = "init"
    BY <1>1 DEF StateInit, At, state, shared
  <2>2. PICK p \in {"create", "thread_init"} :
          Goto(t, p) /\ (p = "create" <=> slot[t] = NULL)
    BY <1>1 DEF StateInit
  <2> DEFINE k == [pc |-> p, op |-> call[t].op]
  <2>3. Moves(t, k) /\ k.pc = p
    BY <1>0, <2>2, Steps DEF PCs
  <2> HIDE DEF k
  <2>4. Installed'
    BY <2>1 DEF TssInv, SlotInv, Installed
  <2>5. /\ k.pc \notin {"get", "reset"} /\ call[t].pc # "reset"
        /\ k.pc \in {"thread_init", "destroy"} => slot[t] # NULL
        /\ k.pc = "store" => slot[t] = NULL
    BY <2>1, <2>2, <2>3
  <2> QED
    BY <2>1, <2>3, <2>4, <2>5, CallMoves
<1>2. CASE TssCreate(t)
  <2>1. /\ UNCHANGED <<strategy, slot, obj, items, values, guard>>
        /\ UNCHANGED sighandlers_count /\ call[t].pc = "create"
    BY <1>2 DEF TssCreate, At, state
  <2>2. CASE slot[t] # NULL
    <3>1. PICK k : /\ Moves(t, k)
                   /\ k.pc \in {"idle", "thread_init"}
      BY <1>2, <2>2, TssCreated DEF TssCreate
    <3>2. Installed'
      BY <2>1, <2>2 DEF TssInv, SlotInv, SameSlot, Installed
    <3>3. /\ k.pc \notin {"get", "reset"} /\ call[t].pc # "reset"
          /\ k.pc \in {"thread_init", "destroy"} => slot[t] # NULL
          /\ k.pc = "store" => slot[t] = NULL
      BY <2>1, <2>2, <3>1
    <3> QED
      BY <2>1, <3>1, <3>2, <3>3, CallMoves
  <2>3. CASE slot[t] = NULL
    <3> DEFINE k == [pc |-> "store", op |-> call[t].op]
    <3>1. Moves(t, k) /\ k.pc = "store" /\ UNCHANGED lock
      BY <1>0, <1>2, <2>3, Steps DEF TssCreate, PCs
    <3> HIDE DEF k
    <3>2. Installed'
      BY <2>1, <3>1 DEF TssInv, SlotInv, Installed
    <3>3. k.pc \notin {"get", "reset"} /\ call[t].pc # "reset"
      BY <2>1, <3>1
    <3> QED
      BY <2>1, <2>3, <3>1, <3>2, <3>3, CallMoves
  <2> QED
    BY <2>2, <2>3
<1>3. CASE TssCreateFails(t)
  <2>1. /\ UNCHANGED <<strategy, slot, obj, items, values, guard>>
        /\ call[t].pc = "store"
    BY <1>3 DEF TssCreateFails, At, state
  <2>2. Moves(t, Idle) /\ Idle.pc = "idle"
    BY <1>0, <1>3, Steps DEF TssCreateFails, Idle
  <2>3. Installed'
    <3>1. CASE call[t].op = "install"
      <4>1. sighandlers_count = 1
        BY <2>1, <3>1 DEF Base, LockShape, HoldsLock
      <4> QED
        BY <1>3, <3>1, <4>1 DEF TssCreateFails, Installed
    <3>2. CASE call[t].op # "install"
      BY <1>3, <2>1, <3>2 DEF TssCreateFails, shared, TssInv, SlotInv, Installed
    <3> QED
      BY <3>1, <3>2
  <2> QED
    BY <2>1, <2>2, <2>3, CallMoves
<1>4. CASE TssThreadInit(t)
  <2>1. /\ UNCHANGED <<strategy, slot, obj, items>> /\ UNCHANGED guard
        /\ UNCHANGED <<sighandlers_count, lock>> /\ call[t].pc = "thread_init"
    BY <1>4 DEF TssThreadInit, At, shared
  <2>2. Installed'
    BY <2>1 DEF TssInv, SlotInv, Installed
  <2>3. CASE Return(t) /\ UNCHANGED values
    <3>1. Moves(t, Idle) /\ Idle.pc = "idle"
      BY <1>0, <2>3, Steps DEF Idle
    <3> QED
      BY <2>1, <2>2, <2>3, <3>1, CallMoves
  <2>4. CASE ~(Return(t) /\ UNCHANGED values)
    <3>1. Goto(t, "get") /\ values' = [values EXCEPT ![slot[t]] = @ \cup {t}]
      BY <1>4, <2>4 DEF TssThreadInit
    <3> DEFINE k == [pc |-> "get", op |-> call[t].op]
    <3>2. Moves(t, k) /\ k.pc = "get"
      BY <1>0, <3>1, Steps DEF PCs
    <3> HIDE DEF k
    <3>3. \A o \in Objects, u \in Threads : u \in values[o] => u \in values'[o]
      BY <1>0, <3>1 DEF TypeOK
    <3>4. ~raced => UseOf(t, call[t])'
      <4> SUFFICES ASSUME ~raced PROVE UseOf(t, call[t])'
        OBVIOUS
      <4>1. UseOf(t, call[t]) /\ slot[t] # NULL
        BY <2>1 DEF TssInv, UseInv, UseOf
      <4>2. slot[t] \in Objects
        BY <1>0, <4>1 DEF TypeOK
      <4>3. t \in values'[slot[t]]
        BY <1>0, <3>1, <4>2 DEF TypeOK
      <4> QED
        BY <2>1, <3>2, <4>1, <4>3 DEF UseOf, Moves
    <3>5. /\ \A u \in Threads \ {t} : guard'[u] = guard[u]
          /\ call[t].pc # "reset" /\ k.pc # "destroy"
      BY <2>1, <3>2
    <3> QED
      BY <2>1, <2>2, <3>2, <3>3, <3>4, <3>5, InstanceKept
  <2> QED
    BY <2>3, <2>4
<1>5. CASE StateGet(t)
  <2>1. /\ UNCHANGED <<strategy, slot, obj, items>> /\ UNCHANGED values
        /\ UNCHANGED <<sighandlers_count, lock>> /\ call[t].pc = "get"
        /\ \A u \in Threads \ {t} : guard'[u] = guard[u]
        /\ guard'[t] \in {guard[t], slot[t]}
    BY <1>0, <1>5 DEF StateGet, At, state, shared, TypeOK
  <2>2. PICK k : Moves(t, k) /\ k.pc \in {"idle", "gate"}
    <3>1. CASE Return(t)
      <4>1. Moves(t, Idle) /\ Idle.pc = "idle"
        BY <1>0, <3>1, Steps DEF Idle
      <4> QED
        BY <4>1
    <3>2. CASE Goto(t, "gate")
      <4> DEFINE k == [pc |-> "gate", op |-> call[t].op]
      <4>1. Moves(t, k) /\ k.pc = "gate"
        BY <1>0, <3>2, Steps DEF PCs
      <4> QED
        BY <4>1
    <3> QED
      BY <1>5, <3>1, <3>2 DEF StateGet
  <2>3. Installed'
    BY <2>1 DEF TssInv, SlotInv, Installed
  <2>4. ~raced => UseOf(t, call[t])'
    <3> SUFFICES ASSUME ~raced PROVE UseOf(t, call[t])'
      OBVIOUS
    <3>1. UseOf(t, call[t])
      BY DEF TssInv, UseInv
    <3> QED
      BY <2>1, <2>2, <3>1 DEF UseOf, Moves
  <2>5. /\ call[t].pc # "reset" /\ k.pc # "destroy"
        /\ \A o \in Objects, u \in Threads \ {t} :
             u \in values[o] => u \in values'[o]
    BY <2>1, <2>2
  <2> QED
    BY <2>1, <2>2, <2>3, <2>4, <2>5, InstanceKept
<1> QED
  BY <1>0, <1>1, <1>2, <1>3, <1>4, <1>5, TssStores DEF State, StateAllocate,
       ThreadAtexit, At, ShapeOf

-----------------------------------------------------------------------------
(* Both builds.                                                            *)
StateInv == Base /\ TlsInv /\ TssInv

(* The initial state satisfies the invariant.                              *)
LEMMA StateInit0 == Init => StateInv
<1> SUFFICES ASSUME Init PROVE StateInv
  OBVIOUS
<1>1. Base
  BY BaseInit
<1>2. /\ \A t \in Threads : /\ slot[t] = NULL /\ guard[t] = NULL
                            /\ items[t] = {} /\ call[t].pc = "idle"
                            /\ call[t].op = "none"
      /\ \A o \in Objects : obj[o] = "unused"
      /\ sighandlers_count = 0
  BY DEF Init, Idle
<1>3. /\ OwnBlocks /\ InSlots /\ SameSlot /\ InstanceLive /\ Installed
      /\ Destroyable
  BY <1>2 DEF OwnBlocks, InSlots, SameSlot, InstanceLive, Installed, Destroyable
<1>4. ~Race
  BY <1>2 DEF Race
<1>5. \A t \in Threads : BlockOf(t, call[t]) /\ UseOf(t, call[t])
  BY <1>2 DEF BlockOf, UseOf
<1> QED
  BY <1>1, <1>2, <1>3, <1>4, <1>5 DEF StateInv, TlsInv, TssInv, SlotInv, UseInv

(* Every step keeps the invariant.                                         *)
LEMMA StateNext == StateInv /\ [Next]_vars => StateInv'
<1> SUFFICES ASSUME StateInv, [Next]_vars PROVE StateInv'
  OBVIOUS
<1>1. Base'
  BY BaseNext DEF StateInv
<1>2. CASE UNCHANGED vars
  <2>1. TlsInv'
    BY <1>2 DEF vars, StateInv, TlsInv, OwnBlocks, InSlots, BlockOf
  <2>2. SlotInv'
    BY <1>2 DEF vars, StateInv, TssInv, SlotInv, SameSlot, InstanceLive,
                Resetting, Installed, Destroyable
  <2>3. UseInv'
    BY <1>2 DEF vars, StateInv, TssInv, UseInv, Race, Inside, InSlots, UseOf
  <2> QED
    BY <1>1, <2>1, <2>2, <2>3 DEF StateInv, TssInv
<1>3. CASE Next
  <2>1. PICK t \in Threads : Client(t) \/ Gate(t) \/ Locked(t) \/ State(t)
    BY <1>3 DEF Next
  <2>2. TlsInv'
    BY <2>1, TlsClient, TlsLocked, TlsState DEF StateInv
  <2>3. TssInv'
    BY <1>3, <2>1, TssClient, TssGate, TssLocked, TssState DEF StateInv, Next
  <2> QED
    BY <1>1, <2>2, <2>3 DEF StateInv
<1> QED
  BY <1>2, <1>3

(* The invariant holds in every state.                                     *)
LEMMA StateInvariant == Spec => []StateInv
  BY StateInit0, StateNext, PTL DEF Spec

(* For any clients, any number of threads and both builds: a call finds    *)
(* the state of its thread, and a guarded section keeps it, unless one of  *)
(* the two races of a "tss" build has happened or, in a "tls" build, the   *)
(* exit callbacks of this very thread have run.                            *)
THEOREM StateLivesWhileUsed == Spec => []StateWhileUsed
<1>1. StateInv => StateWhileUsed
  <2> SUFFICES ASSUME StateInv, NEW t \in Threads, DanglingUse(t), ~raced,
                      ~(strategy = "tls" /\ t \in exited)
               PROVE  FALSE
    BY DEF StateWhileUsed
  <2>0. /\ strategy \in {"tls", "tss"} /\ ShapeOf(call[t])
        /\ call[t].pc = "get" \/ guard[t] # NULL \/ call[t].pc = "thread_init"
             => Inside(t)
    BY DEF StateInv, Base, Shape, ShapeOf, Inside, Calling
  <2>1. CASE strategy = "tls"
    <3>1. BlockOf(t, call[t])
      BY <2>1 DEF StateInv, TlsInv
    <3> QED
      BY <2>0, <2>1, <3>1 DEF DanglingUse, Usable, BlockOf, ShapeOf
  <2>2. CASE strategy = "tss"
    <3>1. ~Race /\ UseOf(t, call[t])
      BY <2>2 DEF StateInv, TssInv, UseInv
    <3>2. Inside(t) \/ call[t].pc = "destroy" => ~Resetting
      <4>1. CASE Inside(t)
        BY <3>1, <4>1 DEF Race, Resetting
      <4>2. CASE call[t].pc = "destroy"
        BY <4>2 DEF StateInv, Base, LockShape, HoldsLock, Resetting
      <4> QED
        BY <4>1, <4>2
    <3>3. /\ Inside(t) \/ call[t].pc = "destroy" =>
               (slot[t] # NULL => obj[slot[t]] = "live")
          /\ call[t].pc = "destroy" => slot[t] # NULL
      BY <2>2, <3>2 DEF StateInv, TssInv, SlotInv, InstanceLive, Destroyable
    <3> QED
      BY <2>0, <2>2, <3>1, <3>3 DEF DanglingUse, Usable, UseOf
  <2> QED
    BY <2>0, <2>1, <2>2
<1> QED
  BY <1>1, StateInvariant, PTL

(* While signals are installed and no call is changing that, a "tss" build *)
(* has a live instance in its slot, whatever the clients do and however    *)
(* they race: the signal that is delivered need not make one.              *)
THEOREM InstalledKeepsState == Spec => []InstalledHasState
<1>1. StateInv => InstalledHasState
  <2> SUFFICES ASSUME StateInv, strategy = "tss", lock = NULL,
                      sighandlers_count > 0, NEW t \in Threads
               PROVE  slot[t] # NULL /\ obj[slot[t]] = "live"
    BY DEF InstalledHasState
  <2>1. slot[t] # NULL
    BY DEF StateInv, TssInv, SlotInv, Installed
  <2>2. ~Resetting
    BY NullAssumption DEF StateInv, Base, LockShape, HoldsLock, Resetting
  <2> QED
    BY <2>1, <2>2 DEF StateInv, TssInv, SlotInv, InstanceLive
<1> QED
  BY <1>1, StateInvariant, PTL

(* For any clients and both builds: a live block is in the slot of the     *)
(* thread whose exit callbacks are to free it, unless their registration   *)
(* failed or is still to be made, and without one of the two races a live  *)
(* instance is the one in the slot.                                        *)
THEOREM StateNotLost == Spec => []NothingLost
<1>1. StateInv => NothingLost
  <2> SUFFICES ASSUME StateInv, ~raced, NEW o \in Objects, obj[o] = "live"
               PROVE  \E t \in Threads :
                        /\ slot[t] = o
                        /\ strategy = "tls" =>
                             \/ o \in items[t] \/ t \in unregistered
                             \/ call[t].pc = "atexit"
    BY DEF NothingLost, NoInstanceLost
  <2>0. strategy \in {"tls", "tss"} /\ o # NULL
    BY NullAssumption DEF StateInv, Base, Shape
  <2>1. PICK t \in Threads : slot[t] = o
    BY <2>0 DEF StateInv, TlsInv, TssInv, UseInv, InSlots
  <2>2. strategy = "tls" => \/ o \in items[t] \/ t \in unregistered
                            \/ call[t].pc = "atexit"
    BY <2>0, <2>1 DEF StateInv, TlsInv, BlockOf
  <2> QED
    BY <2>1, <2>2
<1> QED
  BY <1>1, StateInvariant, PTL
=============================================================================
