------------------------------ MODULE TssProofs ------------------------------
(***************************************************************************)
(* Thread-specific storage, for any number of threads, thread ids, values  *)
(* and deinit_state objects.                                               *)
(***************************************************************************)
EXTENDS TssAsyncSignalSafe, FiniteSetTheorems, TLAPS

(* What thread_atexit() and thread_atexit_run() do to the handlers that    *)
(* are still to run.                                                       *)
LEMMA PushedHandlers ==
  ASSUME NEW S, NEW x \in S, NEW q \in Seq(S)
  PROVE  /\ <<x>> \o q \in Seq(S)
         /\ \A y : y \in ToSet(<<x>> \o q) <=> y = x \/ y \in ToSet(q)
<1>1. /\ <<x>> \o q \in Seq(S) /\ Len(<<x>> \o q) = Len(q) + 1
      /\ (<<x>> \o q)[1] = x
      /\ \A i \in 1 .. Len(q) : (<<x>> \o q)[i + 1] = q[i]
  OBVIOUS
<1>2. \A i \in 1 .. Len(q) + 1 : i = 1 \/ (i - 1 \in 1 .. Len(q) /\ i = (i - 1) + 1)
  OBVIOUS
<1>3. /\ DOMAIN (<<x>> \o q) = 1 .. Len(q) + 1 /\ DOMAIN q = 1 .. Len(q)
      /\ 1 \in 1 .. Len(q) + 1
      /\ \A i \in 1 .. Len(q) : i + 1 \in 1 .. Len(q) + 1
  BY <1>1
<1>4. /\ ToSet(<<x>> \o q) = {(<<x>> \o q)[i] : i \in 1 .. Len(q) + 1}
      /\ ToSet(q) = {q[i] : i \in 1 .. Len(q)}
  BY <1>3 DEF ToSet
<1> DEFINE p == <<x>> \o q
           n == Len(q)
<1>5. n \in Nat
  OBVIOUS
<1>6. p \in Seq(S) /\ p[1] = x /\ \A i \in 1 .. n : p[i + 1] = q[i]
  BY <1>1
<1>7. ToSet(p) = {p[i] : i \in 1 .. n + 1} /\ ToSet(q) = {q[i] : i \in 1 .. n}
  BY <1>4
<1> HIDE DEF p, n
<1>8. ASSUME NEW y \in ToSet(p) PROVE y = x \/ y \in ToSet(q)
  <2>1. PICK i \in 1 .. n + 1 : y = p[i]
    BY <1>7
  <2>2. CASE i # 1
    <3>1. i - 1 \in 1 .. n /\ i = (i - 1) + 1
      BY <1>5, <2>2
    <3> QED
      BY <1>6, <1>7, <2>1, <3>1
  <2> QED
    BY <1>6, <2>1, <2>2
<1>9. ASSUME NEW y \in ToSet(q) PROVE y \in ToSet(p)
  <2>1. PICK i \in 1 .. n : y = q[i]
    BY <1>7
  <2>2. i + 1 \in 1 .. n + 1
    BY <1>5
  <2> QED
    BY <1>6, <1>7, <2>1, <2>2
<1>10. x \in ToSet(p)
  BY <1>5, <1>6, <1>7
<1> QED
  BY <1>6, <1>8, <1>9, <1>10 DEF p

(* The first handler taken off a thread's list.                            *)
LEMMA PoppedHandlers ==
  ASSUME NEW S, NEW q \in Seq(S), q # <<>>
  PROVE  /\ Head(q) \in ToSet(q) /\ Head(q) \in S /\ Tail(q) \in Seq(S)
         /\ \A y : y \in ToSet(Tail(q)) => y \in ToSet(q)
<1>1. /\ Len(q) \in Nat \ {0} /\ Head(q) = q[1] /\ Head(q) \in S
      /\ Tail(q) \in Seq(S) /\ DOMAIN Tail(q) = 1 .. Len(q) - 1
      /\ DOMAIN q = 1 .. Len(q)
      /\ \A i \in 1 .. Len(q) - 1 : Tail(q)[i] = q[i + 1]
  OBVIOUS
<1>2. /\ 1 \in 1 .. Len(q) /\ \A i \in 1 .. Len(q) - 1 : i + 1 \in 1 .. Len(q)
  BY <1>1
<1> QED
  BY <1>1, <1>2 DEF ToSet

(* A list of one handler.                                                  *)
LEMMA SingleHandler ==
  ASSUME NEW S, NEW x \in S
  PROVE  /\ <<x>> \in Seq(S) /\ <<x>> # <<>> /\ Head(<<x>>) = x /\ Tail(<<x>>) = <<>>
         /\ <<x>> \o <<>> = <<x>>
         /\ \A y : y \in ToSet(<<x>>) <=> y = x
  BY DEF ToSet

(* Generations no further apart than GenerationMod stay apart in a key.    *)
LEMMA ShortRemainder ==
  ASSUME NEW m \in Nat \ {0}, NEW a \in 1 .. m, NEW b \in 1 .. m, a % m = b % m
  PROVE  a = b
<1>1. \A c \in 0 .. m - 1 : c % m = c
  OBVIOUS
<1>2. m % m = 0
  OBVIOUS
<1> QED
  BY <1>1, <1>2

(* The high half of a key is in its range.                                 *)
LEMMA Remainder ==
  ASSUME NEW m \in Nat \ {0}, NEW a \in Nat
  PROVE  a % m \in 0 .. m - 1
  OBVIOUS

-----------------------------------------------------------------------------
(* The composite key of a generation and a thread id.                      *)
KeyOf(g, k) == <<g % GenerationMod, k>>

(* A key is a key of the map.                                              *)
LEMMA KeysTyped ==
  ASSUME NEW g \in Nat, NEW k \in Tids
  PROVE  KeyOf(g, k) \in Keys
  BY Remainder, GenerationAssumption DEF KeyOf, Keys

(* Keys of different thread ids differ.                                    *)
LEMMA KeysOfTids ==
  ASSUME NEW g, NEW k, NEW h, NEW l, KeyOf(g, k) = KeyOf(h, l)
  PROVE  k = l /\ g % GenerationMod = h % GenerationMod
  BY DEF KeyOf

Holding == {"registering", "deinit_lock", "deinit_destroy", "deinit_erase"}
Entered == {"creating", "inserting"} \cup Holding
Freeing(t) == call[t].pc \in {"destroying", "destroy_item"}

(* Threads, their ids and their generations: two threads share an id only  *)
(* if one has exited, and never a generation.                              *)
Ids ==
  /\ \A t \in Threads :
       /\ call[t].pc = "unborn" => generation[t] = 0
       /\ call[t].pc # "unborn" => tid[t] \in Tids
       /\ generation[t] <= counter
       /\ call[t].pc \in Entered => generation[t] # 0
       /\ atexit[t] # <<>> => generation[t] # 0 /\ call[t].pc # "exited"
  /\ \A t, u \in Threads :
       tid[t] = tid[u] /\ tid[t] # NULL /\ t # u
         => call[t].pc = "exited" \/ call[u].pc = "exited"
  /\ \A t, u \in Threads :
       generation[t] = generation[u] /\ generation[t] # 0 => t = u

(* The value in the map under a key was made by a thread with that key.    *)
Owned(k, i) ==
  /\ item[i].state # "unused" /\ item[i].owner \in Threads
  /\ generation[item[i].owner] # 0
  /\ KeyOf(generation[item[i].owner], tid[item[i].owner]) = k
Owners ==
  /\ \A k \in Keys : tls[k] # NULL => Owned(k, tls[k])
  /\ \A t \in Threads : call[t].pc = "inserting" =>
       /\ call[t].item \in Items /\ item[call[t].item].state # "unused"
       /\ item[call[t].item].owner = t
  /\ \A t \in Threads :
       call[t].pc \in {"deinit_destroy", "deinit_erase", "destroy_item"}
         => call[t].item \in Items

(* A deinit_state is live while references to it are counted, and what     *)
(* refers to it refers to one that was allocated.                          *)
StateShape ==
  /\ \A s \in States : dstate[s].state = "live" <=> dstate[s].count > 0
  /\ mstate # NULL => dstate[mstate].state = "live"
  /\ \A t \in Threads : call[t].pc \in Holding <=> call[t].state # NULL
  /\ \A t \in Threads :
       call[t].state # NULL => dstate[call[t].state].state # "unused"
  /\ \A t \in Threads : \A s \in ToSet(atexit[t]) :
       s # NULL => dstate[s].state # "unused"

Base == TypeOK /\ Ids /\ Owners /\ StateShape

-----------------------------------------------------------------------------
(* The steps, as what they do to one thread, one value and one             *)
(* deinit_state.                                                           *)

Moves(t, p, i, s) ==
  /\ call' \in [Threads -> Call]
  /\ call'[t].pc = p /\ call'[t].item = i /\ call'[t].state = s
  /\ \A u \in Threads : u # t => call'[u] = call[u]

SetsItem(i, st, o, n) ==
  /\ item' \in [Items -> Value]
  /\ item'[i].state = st /\ item'[i].owner = o /\ item'[i].destroys = n
  /\ \A j \in Items : j # i => item'[j] = item[j]

SetsState(s, st, n, v, l) ==
  /\ dstate' \in [States -> DeinitState]
  /\ dstate'[s].state = st /\ dstate'[s].count = n
  /\ dstate'[s].val = v /\ dstate'[s].lost = l
  /\ \A r \in States : r # s => dstate'[r] = dstate[r]

SetsValue(k, i) ==
  /\ tls' \in [Keys -> Items \cup {NULL}] /\ tls'[k] = i
  /\ \A j \in Keys : j # k => tls'[j] = tls[j]

(* A thread's record becomes another one.                                  *)
LEMMA StepMoves ==
  ASSUME call \in [Threads -> Call], NEW t \in Threads, NEW r \in Call, Step(t, r)
  PROVE  Moves(t, r.pc, r.item, r.state)
  BY DEF Step, Moves

(* The record at another control point, and the idle one.                  *)
LEMMA CallRecords ==
  ASSUME NEW r \in Call, NEW p \in PCs
  PROVE  /\ [r EXCEPT !.pc = p] \in Call
         /\ [r EXCEPT !.pc = p].pc = p
         /\ [r EXCEPT !.pc = p].item = r.item
         /\ [r EXCEPT !.pc = p].state = r.state
  BY DEF Call

(* The record of an idle thread.                                           *)
LEMMA IdleRecord ==
  Idle \in Call /\ Idle.pc = "idle" /\ Idle.item = NULL /\ Idle.state = NULL
  BY DEF Idle, Call, PCs

(* The steps that only move a thread to another control point.             *)
LEMMA GotoMoves ==
  ASSUME call \in [Threads -> Call], NEW t \in Threads, NEW p \in PCs, Goto(t, p)
  PROVE  Moves(t, p, call[t].item, call[t].state)
<1> DEFINE r == [call[t] EXCEPT !.pc = p]
<1>1. r \in Call /\ r.pc = p /\ r.item = call[t].item /\ r.state = call[t].state
  BY CallRecords
<1>2. Step(t, r)
  BY DEF Goto
<1> HIDE DEF r
<1> QED
  BY <1>1, <1>2, StepMoves

GotoIdle(t, p) == Step(t, [Idle EXCEPT !.pc = p])

(* The steps that leave a thread with nothing in its hands.                *)
LEMMA GotoIdleMoves ==
  ASSUME call \in [Threads -> Call], NEW t \in Threads, NEW p \in PCs, GotoIdle(t, p)
  PROVE  Moves(t, p, NULL, NULL)
<1> DEFINE r == [Idle EXCEPT !.pc = p]
<1>1. r \in Call /\ r.pc = p /\ r.item = NULL /\ r.state = NULL
  BY CallRecords, IdleRecord
<1>2. Step(t, r)
  BY DEF GotoIdle
<1> HIDE DEF r
<1> QED
  BY <1>1, <1>2, StepMoves

(* The record of a destroyed value.                                        *)
LEMMA ItemRecord ==
  ASSUME NEW q \in Value, NEW n \in Nat
  PROVE  /\ [q EXCEPT !.state = "destroyed", !.destroys = n] \in Value
         /\ [q EXCEPT !.state = "destroyed", !.destroys = n].state = "destroyed"
         /\ [q EXCEPT !.state = "destroyed", !.destroys = n].owner = q.owner
         /\ [q EXCEPT !.state = "destroyed", !.destroys = n].destroys = n
  BY DEF Value

(* attr.destroy of a value.                                                *)
LEMMA DestroyedItem ==
  ASSUME item \in [Items -> Value], NEW i \in Items, item' = Destroyed(i)
  PROVE  SetsItem(i, "destroyed", item[i].owner, item[i].destroys + 1)
<1> DEFINE r == [item[i] EXCEPT !.state = "destroyed",
                                !.destroys = item[i].destroys + 1]
<1>1. item[i] \in Value /\ item[i].destroys + 1 \in Nat
  BY DEF Value
<1>2. /\ r \in Value /\ r.state = "destroyed" /\ r.owner = item[i].owner
      /\ r.destroys = item[i].destroys + 1
  BY <1>1, ItemRecord
<1>3. item' = [item EXCEPT ![i] = r]
  BY Zenon DEF Destroyed
<1> HIDE DEF r
<1> QED
  BY <1>2, <1>3 DEF SetsItem

(* A thread drops its reference on a live deinit_state.                    *)
LEMMA DropsReference ==
  ASSUME dstate \in [States -> DeinitState], NEW s \in States,
         dstate[s].count > 0, DropReference(s)
  PROVE  /\ SetsState(s, IF dstate[s].count = 1 THEN "freed" ELSE "live",
                      dstate[s].count - 1, dstate[s].val, dstate[s].lost)
         /\ mstate' = IF dstate[s].count = 1 /\ mstate = s THEN NULL ELSE mstate
<1> DEFINE f == IF dstate[s].count = 1 THEN "freed" ELSE "live"
           n == dstate[s].count - 1
           r == [dstate[s] EXCEPT !.count = n, !.state = f]
<1>1. dstate[s] \in DeinitState /\ dstate[s].count \in Nat
  BY DEF DeinitState
<1>2. n \in Nat /\ f \in {"unused", "live", "freed"}
  BY <1>1
<1>3. dstate' = [dstate EXCEPT ![s] = r]
  BY Zenon DEF DropReference
<1>4. mstate' = IF dstate[s].count = 1 /\ mstate = s THEN NULL ELSE mstate
  BY DEF DropReference
<1> HIDE DEF f, n
<1>5. /\ r \in DeinitState /\ r.state = f /\ r.count = n
      /\ r.val = dstate[s].val /\ r.lost = dstate[s].lost
  BY <1>1, <1>2 DEF DeinitState
<1> HIDE DEF r
<1>6. SetsState(s, f, n, dstate[s].val, dstate[s].lost)
  BY <1>3, <1>5 DEF SetsState
<1> QED
  BY <1>4, <1>6 DEF f, n

(* While nothing dangles, the pointers of a thread and of its handlers are *)
(* to deinit_state objects that are live.                                  *)
LEMMA PointersLive ==
  ASSUME TypeOK, StateShape, NEW t \in Threads, ~UseAfterFree
  PROVE  /\ call[t].state # NULL =>
              call[t].state \in States /\ dstate[call[t].state].count > 0
         /\ \A s \in ToSet(atexit[t]) : s # NULL /\
              (s \in States => dstate[s].count > 0)
<1>1. \A s \in States : dstate[s].state \in {"unused", "live", "freed"}
  BY DEF TypeOK, DeinitState
<1>2. call[t].state \in States \cup {NULL}
  BY DEF TypeOK, Call
<1> QED
  BY <1>1, <1>2, NullAssumption DEF StateShape, UseAfterFree

-----------------------------------------------------------------------------
(* What each step does, field by field.                                    *)

SetsTid(t, k) ==
  /\ tid' \in [Threads -> Tids \cup {NULL}] /\ tid'[t] = k
  /\ \A u \in Threads : u # t => tid'[u] = tid[u]

SetsHandlers(t, q) ==
  /\ atexit' \in [Threads -> Seq(States \cup {NULL})] /\ atexit'[t] = q
  /\ \A u \in Threads : u # t => atexit'[u] = atexit[u]

Draws(t, g) ==
  /\ generation' \in [Threads -> Nat] /\ generation'[t] = g
  /\ \A u \in Threads : u # t => generation'[u] = generation[u]
  /\ \/ generation[t] # 0 /\ g = generation[t] /\ counter' = counter
     \/ generation[t] = 0 /\ g = counter + 1 /\ counter' = counter + 1

(* The key of a thread that has drawn its generation.                      *)
LEMMA KeyOfThread ==
  ASSUME NEW t
  PROVE  MyKey(t) = KeyOf(generation[t], tid[t])
  BY DEF MyKey, Key, KeyOf

(* A generation is drawn once, and is not zero.                            *)
LEMMA DrawEffect ==
  ASSUME TypeOK, NEW t \in Threads, Draw(t)
  PROVE  Drawn(t) \in Nat \ {0} /\ Draws(t, Drawn(t))
  BY DEF TypeOK, Draw, Drawn, Draws

ThreadStartDoes(t) ==
  /\ call[t].pc = "unborn"
  /\ Moves(t, "idle", call[t].item, call[t].state)
  /\ \E k \in Tids : /\ \A u \in Threads : tid[u] = k => call[u].pc = "exited"
                     /\ SetsTid(t, k)
  /\ UNCHANGED <<mem, mstate, tls, item, dstate, generation, counter, atexit>>

(* A thread starts with an id no running thread has.                       *)
LEMMA ThreadStartEffect ==
  ASSUME TypeOK, NEW t \in Threads, ThreadStart(t)
  PROVE  ThreadStartDoes(t)
<1> USE DEF ThreadStartDoes
<1>1. Moves(t, "idle", call[t].item, call[t].state)
  BY GotoMoves DEF TypeOK, PCs, ThreadStart
<1> QED
  BY <1>1 DEF ThreadStart, SetsTid, At, TypeOK

ThreadInitDoes(t) ==
  /\ Usable(t) /\ call[t].pc = "idle" /\ mem = "live"
  /\ \E g \in Nat \ {0} :
       /\ Draws(t, g)
       /\ \/ /\ tls[KeyOf(g, tid[t])] = NULL
             /\ Moves(t, "creating", call[t].item, call[t].state)
          \/ UNCHANGED call
  /\ UNCHANGED <<mem, mstate, tls, item, dstate, tid, atexit>>

(* thread_init() draws the generation and looks the thread up.             *)
LEMMA ThreadInitEffect ==
  ASSUME TypeOK, NEW t \in Threads, ThreadInit(t)
  PROVE  ThreadInitDoes(t)
<1> USE DEF ThreadInitDoes
<1>1. Drawn(t) \in Nat \ {0} /\ Draws(t, Drawn(t))
  BY DrawEffect DEF ThreadInit
<1>2. \/ /\ tls[KeyOf(Drawn(t), tid[t])] = NULL
         /\ Moves(t, "creating", call[t].item, call[t].state)
      \/ UNCHANGED call
  BY GotoMoves DEF ThreadInit, TypeOK, PCs, Key, KeyOf
<1>3. /\ Usable(t) /\ call[t].pc = "idle" /\ mem = "live"
      /\ UNCHANGED <<mem, mstate, tls, item, dstate, tid, atexit>>
  BY DEF ThreadInit, Usable, At
<1> QED
  BY <1>1, <1>2, <1>3

(* A thread's first get() only draws the generation.                       *)
LEMMA FirstGetEffect ==
  ASSUME TypeOK, NEW t \in Threads, FirstGet(t)
  PROVE  ThreadInitDoes(t)
<1>1. Drawn(t) \in Nat \ {0} /\ Draws(t, Drawn(t))
  BY DrawEffect DEF FirstGet
<1> QED
  BY <1>1 DEF FirstGet, Usable, At, ThreadInitDoes

CreateItemDoes(t) ==
  /\ call[t].pc = "creating"
  /\ \/ \E i \in Items : /\ item[i].state = "unused"
                         /\ SetsItem(i, "live", t, 0)
                         /\ Moves(t, "inserting", i, call[t].state)
     \/ Moves(t, "idle", NULL, NULL) /\ UNCHANGED item
  /\ UNCHANGED <<mem, mstate, tls, dstate, tid, generation, counter, atexit>>

(* attr.create makes a value for the thread, or fails.                     *)
LEMMA CreateItemEffect ==
  ASSUME TypeOK, NEW t \in Threads, CreateItem(t)
  PROVE  CreateItemDoes(t)
<1> USE DEF CreateItemDoes
<1>1. CASE Step(t, Idle) /\ UNCHANGED item
  <2>1. Moves(t, "idle", NULL, NULL)
    BY <1>1, IdleRecord, StepMoves DEF TypeOK
  <2> QED
    BY <1>1, <2>1 DEF CreateItem, At
<1>2. ASSUME NEW i \in Items, item[i].state = "unused",
             item' = [item EXCEPT ![i] = [state |-> "live", owner |-> t, destroys |-> 0]],
             Step(t, [call[t] EXCEPT !.pc = "inserting", !.item = i])
      PROVE  SetsItem(i, "live", t, 0) /\ Moves(t, "inserting", i, call[t].state)
  <2> DEFINE r == [call[t] EXCEPT !.pc = "inserting", !.item = i]
  <2>1. /\ r \in Call /\ r.pc = "inserting" /\ r.item = i /\ r.state = call[t].state
    <3>1. call[t] \in Call
      BY DEF TypeOK
    <3> QED
      BY <3>1 DEF Call, PCs
  <2>2. Step(t, r)
    BY <1>2
  <2> HIDE DEF r
  <2>3. Moves(t, "inserting", i, call[t].state)
    BY <2>1, <2>2, StepMoves DEF TypeOK
  <2>4. [state |-> "live", owner |-> t, destroys |-> 0] \in Value
    BY DEF Value
  <2> QED
    BY <1>2, <2>3, <2>4 DEF SetsItem, TypeOK
<1> QED
  BY <1>1, <1>2 DEF CreateItem, At

InsertDoes(t) ==
  /\ call[t].pc = "inserting"
  /\ KeyOf(generation[t], tid[t]) \in Keys
  /\ SetsValue(KeyOf(generation[t], tid[t]), call[t].item)
  /\ \E s \in States :
       /\ \/ mstate = NULL /\ dstate[s].state = "unused"
          \/ mstate # NULL /\ s = mstate
       /\ SetsState(s, "live",
                    IF mstate = NULL THEN 1 ELSE dstate[s].count + 1,
                    TRUE, dstate[s].lost)
       /\ Moves(t, "registering", call[t].item, s)
       /\ mstate' = s
  /\ UNCHANGED <<mem, item, tid, generation, counter, atexit>>

(* The value goes under the thread's key, and the reference is counted.    *)
LEMMA InsertEffect ==
  ASSUME TypeOK, Ids, NEW t \in Threads, Insert(t)
  PROVE  InsertDoes(t)
<1> USE DEF InsertDoes
<1>1. call[t].pc = "inserting" /\ KeyOf(generation[t], tid[t]) \in Keys
  BY KeysTyped DEF Insert, At, Ids, TypeOK
<1>2. SetsValue(KeyOf(generation[t], tid[t]), call[t].item)
  <2> DEFINE k == KeyOf(generation[t], tid[t])
             i == call[t].item
  <2>1. tls' = [tls EXCEPT ![k] = i] /\ i \in Items \cup {NULL} /\ k \in Keys
    BY <1>1, KeyOfThread DEF Insert, TypeOK, Call
  <2> HIDE DEF k, i
  <2>2. SetsValue(k, i)
    BY <2>1 DEF SetsValue, TypeOK
  <2> QED
    BY <2>2 DEF k, i
<1>3. PICK s \in States :
        /\ IF mstate = NULL THEN dstate[s].state = "unused" ELSE s = mstate
        /\ mstate' = s
        /\ dstate' = [dstate EXCEPT ![s] = [state |-> "live", val |-> TRUE,
             lost |-> dstate[s].lost, count |-> IF mstate = NULL THEN 1 ELSE dstate[s].count + 1]]
        /\ Step(t, [call[t] EXCEPT !.pc = "registering", !.state = s])
  BY DEF Insert
<1>4. Moves(t, "registering", call[t].item, s)
  <2> DEFINE r == [call[t] EXCEPT !.pc = "registering", !.state = s]
  <2>1. /\ r \in Call /\ r.pc = "registering" /\ r.item = call[t].item /\ r.state = s
    <3>1. call[t] \in Call
      BY DEF TypeOK
    <3> QED
      BY <3>1 DEF Call, PCs
  <2>2. Step(t, r)
    BY <1>3
  <2> HIDE DEF r
  <2> QED
    BY <2>1, <2>2, StepMoves DEF TypeOK
<1>5. SetsState(s, "live", IF mstate = NULL THEN 1 ELSE dstate[s].count + 1,
                TRUE, dstate[s].lost)
  <2> DEFINE n == IF mstate = NULL THEN 1 ELSE dstate[s].count + 1
             r == [state |-> "live", val |-> TRUE, lost |-> dstate[s].lost, count |-> n]
  <2>1. n \in Nat /\ dstate[s].lost \in BOOLEAN
    BY DEF TypeOK, DeinitState
  <2>2. dstate' = [dstate EXCEPT ![s] = r]
    BY <1>3, Zenon
  <2> HIDE DEF n
  <2>3. r \in DeinitState
    BY <2>1 DEF DeinitState
  <2>4. r.state = "live" /\ r.count = n /\ r.val = TRUE /\ r.lost = dstate[s].lost
    OBVIOUS
  <2> HIDE DEF r
  <2>5. SetsState(s, "live", n, TRUE, dstate[s].lost)
    BY <2>2, <2>3, <2>4 DEF SetsState, TypeOK
  <2> QED
    BY <2>5 DEF n
<1> QED
  BY <1>1, <1>2, <1>3, <1>4, <1>5 DEF Insert

InsertFailsDoes(t) ==
  /\ call[t].pc = "inserting" /\ call[t].item \in Items
  /\ SetsItem(call[t].item, "destroyed", item[call[t].item].owner,
              item[call[t].item].destroys + 1)
  /\ Moves(t, "idle", NULL, NULL)
  /\ UNCHANGED <<mem, mstate, tls, dstate, tid, generation, counter, atexit>>

(* A value that could not be inserted is destroyed.                        *)
LEMMA InsertFailsEffect ==
  ASSUME TypeOK, Owners, NEW t \in Threads, InsertFails(t)
  PROVE  InsertFailsDoes(t)
<1> USE DEF InsertFailsDoes
<1>1. call[t].pc = "inserting" /\ call[t].item \in Items
  BY DEF InsertFails, At, Owners
<1>2. Moves(t, "idle", NULL, NULL)
  BY IdleRecord, StepMoves DEF TypeOK, InsertFails
<1>3. SetsItem(call[t].item, "destroyed", item[call[t].item].owner,
               item[call[t].item].destroys + 1)
  BY <1>1, DestroyedItem DEF TypeOK, InsertFails
<1> QED
  BY <1>1, <1>2, <1>3 DEF InsertFails

ThreadAtexitDoes(t) ==
  /\ call[t].pc = "registering" /\ ~UseAfterFree
  /\ call[t].state \in States
  /\ \/ SetsHandlers(t, <<mstate>> \o atexit[t]) /\ UNCHANGED dstate
     \/ /\ UNCHANGED atexit
        /\ SetsState(call[t].state, dstate[call[t].state].state,
                     dstate[call[t].state].count,
                     dstate[call[t].state].val, TRUE)
  /\ Moves(t, "idle", NULL, NULL)
  /\ UNCHANGED <<mem, mstate, tls, item, tid, generation, counter>>

(* The handler is registered, or its reference is lost.                    *)
LEMMA ThreadAtexitEffect ==
  ASSUME TypeOK, StateShape, NEW t \in Threads, ThreadAtexit(t)
  PROVE  ThreadAtexitDoes(t)
<1> USE DEF ThreadAtexitDoes
<1>1. call[t].pc = "registering" /\ call[t].state \in States /\ ~UseAfterFree
  BY DEF ThreadAtexit, At, StateShape, Holding, TypeOK, Call
<1>2. Moves(t, "idle", NULL, NULL)
  BY IdleRecord, StepMoves DEF TypeOK, ThreadAtexit
<1>3. CASE atexit' = [atexit EXCEPT ![t] = <<mstate>> \o @] /\ UNCHANGED dstate
  <2>1. <<mstate>> \o atexit[t] \in Seq(States \cup {NULL})
    BY PushedHandlers DEF TypeOK
  <2> DEFINE q == <<mstate>> \o atexit[t]
  <2>2. atexit' = [atexit EXCEPT ![t] = q] /\ q \in Seq(States \cup {NULL})
    BY <1>3, <2>1
  <2> HIDE DEF q
  <2>3. SetsHandlers(t, q)
    BY <2>2 DEF SetsHandlers, TypeOK
  <2> QED
    BY <1>1, <1>2, <1>3, <2>3 DEF ThreadAtexit, q
<1>4. CASE UNCHANGED atexit /\ dstate' = [dstate EXCEPT ![call[t].state].lost = TRUE]
  <2> DEFINE s == call[t].state
             r == [dstate[s] EXCEPT !.lost = TRUE]
  <2>1. /\ r \in DeinitState /\ r.state = dstate[s].state
        /\ r.count = dstate[s].count /\ r.val = dstate[s].val /\ r.lost = TRUE
    <3>1. dstate[s] \in DeinitState
      BY <1>1 DEF TypeOK
    <3> QED
      BY <3>1 DEF DeinitState
  <2>2. dstate' = [dstate EXCEPT ![s] = r] /\ s \in States
    BY <1>1, <1>4
  <2> HIDE DEF r, s
  <2>3. SetsState(s, dstate[s].state, dstate[s].count, dstate[s].val, TRUE)
    BY <2>1, <2>2 DEF SetsState, TypeOK
  <2> QED
    BY <1>1, <1>2, <1>4, <2>3 DEF ThreadAtexit, s
<1> QED
  BY <1>3, <1>4 DEF ThreadAtexit

ExitDoes(t) ==
  /\ \/ /\ call[t].pc = "idle"
        /\ Moves(t, "exiting", call[t].item, call[t].state)
     \/ /\ call[t].pc = "exiting" /\ atexit[t] = <<>>
        /\ Moves(t, "exited", call[t].item, call[t].state)
  /\ UNCHANGED <<mem, mstate, tls, item, dstate, tid, generation, counter,
                 atexit>>

(* A thread begins or ends its exit.                                       *)
LEMMA ExitEffect ==
  ASSUME TypeOK, NEW t \in Threads, ThreadExit(t) \/ ExitDone(t)
  PROVE  ExitDoes(t)
<1> USE DEF ExitDoes
<1>1. CASE ThreadExit(t)
  <2>1. Moves(t, "exiting", call[t].item, call[t].state)
    BY <1>1, GotoMoves DEF TypeOK, PCs, ThreadExit
  <2> QED
    BY <1>1, <2>1 DEF ThreadExit, At
<1>2. CASE ExitDone(t)
  <2>1. Moves(t, "exited", call[t].item, call[t].state)
    BY <1>2, GotoMoves DEF TypeOK, PCs, ExitDone
  <2> QED
    BY <1>2, <2>1 DEF ExitDone, At
<1> QED
  BY <1>1, <1>2

(* The reference dropped, in the form of SetsState.                        *)
Drops(s) ==
  /\ SetsState(s, IF dstate[s].count = 1 THEN "freed" ELSE "live",
               dstate[s].count - 1, dstate[s].val, dstate[s].lost)
  /\ mstate' = IF dstate[s].count = 1 /\ mstate = s THEN NULL ELSE mstate

DeinitReadDoes(t) ==
  /\ call[t].pc = "exiting" /\ atexit[t] # <<>>
  /\ SetsHandlers(t, Tail(atexit[t]))
  /\ Head(atexit[t]) \in States /\ Head(atexit[t]) \in ToSet(atexit[t])
  /\ dstate[Head(atexit[t])].count > 0
  /\ \/ /\ dstate[Head(atexit[t])].val
        /\ Moves(t, "deinit_lock", NULL, Head(atexit[t]))
        /\ UNCHANGED <<dstate, mstate>>
     \/ /\ ~dstate[Head(atexit[t])].val
        /\ Drops(Head(atexit[t])) /\ UNCHANGED call
  /\ UNCHANGED <<mem, tls, item, tid, generation, counter>>

(* An exit handler reads the instance, or drops its reference.             *)
LEMMA DeinitReadEffect ==
  ASSUME TypeOK, StateShape, NEW t \in Threads, DeinitRead(t)
  PROVE  DeinitReadDoes(t)
<1> USE DEF DeinitReadDoes
<1> DEFINE s == Head(atexit[t])
<1>1. call[t].pc = "exiting" /\ atexit[t] # <<>> /\ ~UseAfterFree
  BY DEF DeinitRead, At
<1>2. /\ s \in ToSet(atexit[t]) /\ s \in States \cup {NULL}
      /\ Tail(atexit[t]) \in Seq(States \cup {NULL})
  BY <1>1, PoppedHandlers DEF TypeOK
<1>3. s \in States /\ dstate[s].count > 0
  BY <1>1, <1>2, PointersLive
<1>4. SetsHandlers(t, Tail(atexit[t]))
  <2> DEFINE q == Tail(atexit[t])
  <2>1. atexit' = [atexit EXCEPT ![t] = q] /\ q \in Seq(States \cup {NULL})
    BY <1>2 DEF DeinitRead
  <2> HIDE DEF q
  <2>2. SetsHandlers(t, q)
    BY <2>1 DEF SetsHandlers, TypeOK
  <2> QED
    BY <2>2 DEF q
<1>5. /\ IF dstate[s].val
         THEN /\ Step(t, [Idle EXCEPT !.pc = "deinit_lock", !.state = s])
              /\ UNCHANGED <<dstate, mstate>>
         ELSE DropReference(s) /\ UNCHANGED call
      /\ UNCHANGED <<mem, tls, item, tid, generation, counter>>
  BY DEF DeinitRead
<1> HIDE DEF s
<1>6. CASE dstate[s].val
  <2> DEFINE r == [Idle EXCEPT !.pc = "deinit_lock", !.state = s]
  <2>1. r \in Call /\ r.pc = "deinit_lock" /\ r.item = NULL /\ r.state = s
    BY <1>3 DEF Idle, Call, PCs
  <2>2. Step(t, r)
    BY <1>5, <1>6
  <2> HIDE DEF r
  <2>3. Moves(t, "deinit_lock", NULL, s)
    BY <2>1, <2>2, StepMoves DEF TypeOK
  <2> QED
    BY <1>1, <1>2, <1>3, <1>4, <1>5, <1>6, <2>3 DEF s
<1>7. CASE ~dstate[s].val
  <2>1. Drops(s)
    BY <1>3, <1>5, <1>7, DropsReference DEF TypeOK, Drops
  <2> QED
    BY <1>1, <1>2, <1>3, <1>4, <1>5, <1>7, <2>1 DEF s
<1> QED
  BY <1>6, <1>7

DeinitLockDoes(t) ==
  /\ call[t].pc = "deinit_lock"
  /\ call[t].state \in States /\ dstate[call[t].state].count > 0
  /\ KeyOf(generation[t], tid[t]) \in Keys
  /\ \/ /\ tls[KeyOf(generation[t], tid[t])] # NULL
        /\ Moves(t, "deinit_destroy", tls[KeyOf(generation[t], tid[t])],
                 call[t].state)
        /\ UNCHANGED <<mstate, dstate>>
     \/ /\ tls[KeyOf(generation[t], tid[t])] = NULL
        /\ Drops(call[t].state)
        /\ Moves(t, "exiting", NULL, NULL)
  /\ UNCHANGED <<mem, tls, item, tid, generation, counter, atexit>>

(* It finds the value of the thread, or drops its reference.               *)
LEMMA DeinitLockEffect ==
  ASSUME TypeOK, Ids, StateShape, NEW t \in Threads, DeinitLock(t)
  PROVE  DeinitLockDoes(t)
<1> USE DEF DeinitLockDoes
<1> DEFINE k == KeyOf(generation[t], tid[t])
           s == call[t].state
<1>1. call[t].pc = "deinit_lock" /\ k \in Keys /\ ~UseAfterFree
  BY KeysTyped DEF DeinitLock, At, Ids, TypeOK
<1>2. s \in States /\ dstate[s].count > 0
  BY <1>1, PointersLive DEF StateShape, Holding
<1>3. /\ IF tls[k] # NULL
         THEN /\ Step(t, [call[t] EXCEPT !.pc = "deinit_destroy", !.item = tls[k]])
              /\ UNCHANGED <<mstate, dstate>>
         ELSE DropReference(s) /\ Step(t, [Idle EXCEPT !.pc = "exiting"])
      /\ UNCHANGED <<mem, tls, item, tid, generation, counter, atexit>>
  BY KeyOfThread DEF DeinitLock
<1>4. tls[k] \in Items \cup {NULL}
  BY <1>1 DEF TypeOK
<1> HIDE DEF k
<1>5. CASE tls[k] # NULL
  <2> DEFINE r == [call[t] EXCEPT !.pc = "deinit_destroy", !.item = tls[k]]
  <2>1. /\ r \in Call /\ r.pc = "deinit_destroy" /\ r.item = tls[k]
        /\ r.state = call[t].state
    <3>1. call[t] \in Call
      BY DEF TypeOK
    <3> QED
      BY <1>4, <3>1 DEF Call, PCs
  <2>2. Step(t, r)
    BY <1>3, <1>5
  <2> HIDE DEF r
  <2>3. Moves(t, "deinit_destroy", tls[k], call[t].state)
    BY <2>1, <2>2, StepMoves DEF TypeOK
  <2> QED
    BY <1>1, <1>2, <1>3, <1>5, <2>3 DEF k
<1>6. CASE tls[k] = NULL
  <2>1. Drops(s)
    BY <1>2, <1>3, <1>6, DropsReference DEF TypeOK, Drops
  <2>2. Moves(t, "exiting", NULL, NULL)
    <3>1. GotoIdle(t, "exiting")
      BY <1>3, <1>6 DEF GotoIdle
    <3> QED
      BY <3>1, GotoIdleMoves DEF TypeOK, PCs
  <2> QED
    BY <1>1, <1>2, <1>3, <1>6, <2>1, <2>2 DEF k
<1> QED
  BY <1>5, <1>6

DeinitDestroyDoes(t) ==
  /\ call[t].pc = "deinit_destroy" /\ call[t].item \in Items
  /\ SetsItem(call[t].item, "destroyed", item[call[t].item].owner,
              item[call[t].item].destroys + 1)
  /\ Moves(t, "deinit_erase", call[t].item, call[t].state)
  /\ UNCHANGED <<mem, mstate, tls, dstate, tid, generation, counter, atexit>>

(* It destroys that value.                                                 *)
LEMMA DeinitDestroyEffect ==
  ASSUME TypeOK, Owners, NEW t \in Threads, DeinitDestroy(t)
  PROVE  DeinitDestroyDoes(t)
<1> USE DEF DeinitDestroyDoes
<1>1. call[t].pc = "deinit_destroy" /\ call[t].item \in Items
  BY DEF DeinitDestroy, At, Owners
<1>2. Moves(t, "deinit_erase", call[t].item, call[t].state)
  BY GotoMoves DEF TypeOK, PCs, DeinitDestroy
<1>3. SetsItem(call[t].item, "destroyed", item[call[t].item].owner,
               item[call[t].item].destroys + 1)
  BY <1>1, DestroyedItem DEF TypeOK, DeinitDestroy
<1> QED
  BY <1>1, <1>2, <1>3 DEF DeinitDestroy

DeinitEraseDoes(t) ==
  /\ call[t].pc = "deinit_erase"
  /\ call[t].state \in States /\ dstate[call[t].state].count > 0
  /\ KeyOf(generation[t], tid[t]) \in Keys
  /\ SetsValue(KeyOf(generation[t], tid[t]), NULL)
  /\ Drops(call[t].state)
  /\ Moves(t, "exiting", NULL, NULL)
  /\ UNCHANGED <<mem, item, tid, generation, counter, atexit>>

(* It erases the value's key and drops its reference.                      *)
LEMMA DeinitEraseEffect ==
  ASSUME TypeOK, Ids, StateShape, NEW t \in Threads, DeinitErase(t)
  PROVE  DeinitEraseDoes(t)
<1> USE DEF DeinitEraseDoes
<1> DEFINE k == KeyOf(generation[t], tid[t])
           s == call[t].state
<1>1. call[t].pc = "deinit_erase" /\ k \in Keys /\ ~UseAfterFree
  BY KeysTyped DEF DeinitErase, At, Ids, TypeOK
<1>2. s \in States /\ dstate[s].count > 0
  BY <1>1, PointersLive DEF StateShape, Holding
<1>3. Drops(s)
  BY <1>2, DropsReference DEF TypeOK, Drops, DeinitErase
<1>4. Moves(t, "exiting", NULL, NULL)
  BY GotoIdleMoves DEF TypeOK, PCs, DeinitErase, GotoIdle
<1>5. tls' = [tls EXCEPT ![k] = NULL]
  BY KeyOfThread DEF DeinitErase
<1> HIDE DEF k
<1>6. SetsValue(k, NULL)
  BY <1>1, <1>5 DEF SetsValue, TypeOK
<1> QED
  BY <1>1, <1>2, <1>3, <1>4, <1>6 DEF k, DeinitErase

DestroyDoes(t) ==
  /\ call[t].pc = "idle" /\ mem = "live" /\ DestroyAllowed /\ ~Destroying
  /\ \/ mstate = NULL /\ UNCHANGED dstate
     \/ /\ mstate \in States
        /\ SetsState(mstate, dstate[mstate].state, dstate[mstate].count,
                     FALSE, dstate[mstate].lost)
  /\ mstate' = NULL
  /\ Moves(t, "destroying", call[t].item, call[t].state)
  /\ UNCHANGED <<mem, tls, item, tid, generation, counter, atexit>>

(* destroy() cuts mem->state off from the instance.                        *)
LEMMA DestroyEffect ==
  ASSUME TypeOK, NEW t \in Threads, Destroy(t)
  PROVE  DestroyDoes(t)
<1> USE DEF DestroyDoes
<1>1. Moves(t, "destroying", call[t].item, call[t].state)
  BY GotoMoves DEF TypeOK, PCs, Destroy
<1>2. CASE mstate # NULL
  <2> DEFINE s == mstate
             r == [dstate[s] EXCEPT !.val = FALSE]
  <2>1. s \in States
    BY <1>2 DEF TypeOK
  <2>2. /\ r \in DeinitState /\ r.state = dstate[s].state
        /\ r.count = dstate[s].count /\ r.val = FALSE /\ r.lost = dstate[s].lost
    <3>1. dstate[s] \in DeinitState
      BY <2>1 DEF TypeOK
    <3> QED
      BY <3>1 DEF DeinitState
  <2>3. dstate' = [dstate EXCEPT ![s] = r]
    BY <1>2 DEF Destroy
  <2> HIDE DEF r
  <2>4. SetsState(s, dstate[s].state, dstate[s].count, FALSE, dstate[s].lost)
    BY <2>1, <2>2, <2>3 DEF SetsState, TypeOK
  <2> QED
    BY <1>1, <1>2, <2>1, <2>4 DEF Destroy, At
<1> QED
  BY <1>1, <1>2 DEF Destroy, At

DestroyEraseDoes(t) ==
  /\ call[t].pc = "destroying"
  /\ \E k \in Keys : /\ tls[k] # NULL /\ SetsValue(k, NULL)
                     /\ Moves(t, "destroy_item", tls[k], call[t].state)
  /\ UNCHANGED <<mem, mstate, item, dstate, tid, generation, counter, atexit>>

(* destroy() takes one value out of the map.                               *)
LEMMA DestroyEraseEffect ==
  ASSUME TypeOK, NEW t \in Threads, DestroyErase(t)
  PROVE  DestroyEraseDoes(t)
<1> USE DEF DestroyEraseDoes
<1>1. PICK k \in Keys :
        /\ tls[k] # NULL
        /\ tls' = [tls EXCEPT ![k] = NULL]
        /\ Step(t, [call[t] EXCEPT !.pc = "destroy_item", !.item = tls[k]])
  BY DEF DestroyErase
<1> DEFINE r == [call[t] EXCEPT !.pc = "destroy_item", !.item = tls[k]]
<1>2. /\ r \in Call /\ r.pc = "destroy_item" /\ r.item = tls[k]
      /\ r.state = call[t].state
  <2>1. call[t] \in Call /\ tls[k] \in Items \cup {NULL}
    BY DEF TypeOK
  <2> QED
    BY <2>1 DEF Call, PCs
<1>3. Step(t, r)
  BY <1>1
<1> HIDE DEF r
<1>4. Moves(t, "destroy_item", tls[k], call[t].state)
  BY <1>2, <1>3, StepMoves DEF TypeOK
<1>5. SetsValue(k, NULL)
  BY <1>1 DEF SetsValue, TypeOK
<1> QED
  BY <1>1, <1>4, <1>5 DEF DestroyErase, At

DestroyItemDoes(t) ==
  /\ call[t].pc = "destroy_item" /\ call[t].item \in Items
  /\ SetsItem(call[t].item, "destroyed", item[call[t].item].owner,
              item[call[t].item].destroys + 1)
  /\ Moves(t, "destroying", NULL, NULL)
  /\ UNCHANGED <<mem, mstate, tls, dstate, tid, generation, counter, atexit>>

(* destroy() destroys the value it took.                                   *)
LEMMA DestroyItemEffect ==
  ASSUME TypeOK, Owners, NEW t \in Threads, DestroyItem(t)
  PROVE  DestroyItemDoes(t)
<1> USE DEF DestroyItemDoes
<1>1. call[t].pc = "destroy_item" /\ call[t].item \in Items
  BY DEF DestroyItem, At, Owners
<1>2. Moves(t, "destroying", NULL, NULL)
  BY GotoIdleMoves DEF TypeOK, PCs, DestroyItem, GotoIdle
<1>3. SetsItem(call[t].item, "destroyed", item[call[t].item].owner,
               item[call[t].item].destroys + 1)
  BY <1>1, DestroyedItem DEF TypeOK, DestroyItem
<1> QED
  BY <1>1, <1>2, <1>3 DEF DestroyItem

DestroyDoneDoes(t) ==
  /\ call[t].pc = "destroying" /\ (mstate = NULL => \A k \in Keys : tls[k] = NULL)
  /\ mem' = "freed" /\ Moves(t, "idle", NULL, NULL)
  /\ UNCHANGED <<mstate, tls, item, dstate, tid, generation, counter, atexit>>

(* destroy() frees the instance when the iterator is at the end.           *)
LEMMA DestroyDoneEffect ==
  ASSUME TypeOK, NEW t \in Threads, DestroyDone(t)
  PROVE  DestroyDoneDoes(t)
<1> USE DEF DestroyDoneDoes
<1>1. Moves(t, "idle", NULL, NULL)
  BY IdleRecord, StepMoves DEF TypeOK, DestroyDone
<1> QED
  BY <1>1 DEF DestroyDone, At





-----------------------------------------------------------------------------
(* Every step keeps Base, whatever the caller of destroy() guarantees.     *)

(* What the type invariant says of a thread, a deinit_state and the map.   *)
LEMMA Typed ==
  ASSUME TypeOK
  PROVE  /\ \A s \in States : /\ dstate[s].count \in Nat
                              /\ dstate[s].state \in {"unused", "live", "freed"}
         /\ mstate \in States \cup {NULL} /\ counter \in Nat
         /\ \A t \in Threads : /\ generation[t] \in Nat
                               /\ call[t].state \in States \cup {NULL}
                               /\ tid[t] \in Tids \cup {NULL}
                               /\ atexit[t] \in Seq(States \cup {NULL})
         /\ \A k \in Keys : tls[k] \in Items \cup {NULL}
  BY DEF TypeOK, DeinitState, Call

(* A value keeps its owner, and its owner its key, until it is erased.     *)
LEMMA ValuesOwned ==
  ASSUME TypeOK, Owners,
         \A i \in Items : item[i].state # "unused" =>
           item'[i].state # "unused" /\ item'[i].owner = item[i].owner,
         \A u \in Threads : generation[u] # 0 =>
           generation'[u] = generation[u] /\ tid'[u] = tid[u],
         NEW k \in Keys, tls'[k] = tls[k], tls[k] # NULL
  PROVE  Owned(k, tls[k])'
<1>1. tls[k] \in Items /\ Owned(k, tls[k])
  BY Typed DEF Owners
<1> DEFINE i == tls[k]
           o == item[i].owner
<1>2. /\ i \in Items /\ item[i].state # "unused" /\ o \in Threads
      /\ generation[o] # 0 /\ KeyOf(generation[o], tid[o]) = k
  BY <1>1 DEF Owned
<1> HIDE DEF o
<1>3. item'[i].state # "unused" /\ item'[i].owner = o
  BY <1>2 DEF o
<1>4. generation'[o] = generation[o] /\ tid'[o] = tid[o]
  BY <1>2
<1>5. tls'[k] = i
  OBVIOUS
<1> HIDE DEF i
<1> QED
  BY <1>2, <1>3, <1>4, <1>5 DEF Owned

(* How the references to the deinit_state objects may change.              *)
LEMMA StateShapeKept ==
  ASSUME TypeOK, StateShape,
         \A s \in States : dstate'[s].state = "live" <=> dstate'[s].count > 0,
         \A s \in States : dstate[s].state # "unused" => dstate'[s].state # "unused",
         mstate' # NULL => dstate'[mstate'].state = "live",
         \A u \in Threads : call'[u].pc \in Holding <=> call'[u].state # NULL,
         \A u \in Threads : call'[u].state # NULL =>
           \/ call'[u].state = call[u].state
           \/ dstate'[call'[u].state].state # "unused",
         \A u \in Threads : \A s \in ToSet(atexit'[u]) :
           s \in ToSet(atexit[u]) \/ s = mstate
  PROVE  StateShape'
<1>1. \A u \in Threads : call'[u].state # NULL => dstate'[call'[u].state].state # "unused"
  BY Typed, NullAssumption DEF StateShape
<1>2. ASSUME NEW u \in Threads, NEW s \in ToSet(atexit'[u]), s # NULL
      PROVE  dstate'[s].state # "unused"
  <2>1. CASE s = mstate
    BY <1>2, <2>1, Typed, Zenon DEF StateShape
  <2>2. CASE s \in ToSet(atexit[u])
    <3>1. s \in States
      <4>1. atexit[u] \in Seq(States \cup {NULL})
        BY Typed
      <4>2. \A y \in ToSet(atexit[u]) : y \in States \cup {NULL}
        BY <4>1 DEF ToSet
      <4> QED
        BY <1>2, <2>2, <4>2
    <3>2. dstate[s].state # "unused"
      BY <1>2, <2>2 DEF StateShape
    <3> QED
      BY <3>1, <3>2
  <2> QED
    BY <1>2, <2>1, <2>2
<1> QED
  BY <1>1, <1>2 DEF StateShape

(* A reference dropped leaves mem->state NULL or live.                     *)
LEMMA DropsShape ==
  ASSUME TypeOK, StateShape, NEW s \in States, dstate[s].count > 0, Drops(s)
  PROVE  /\ \A r \in States : dstate'[r].state = "live" <=> dstate'[r].count > 0
         /\ \A r \in States : dstate[r].state # "unused" => dstate'[r].state # "unused"
         /\ mstate' # NULL => dstate'[mstate'].state = "live"
<1>1. /\ dstate[s].count \in Nat /\ dstate[s].count > 0
      /\ dstate'[s].count = dstate[s].count - 1
      /\ dstate'[s].state = IF dstate[s].count = 1 THEN "freed" ELSE "live"
      /\ \A r \in States : r # s => dstate'[r] = dstate[r]
      /\ mstate' = IF dstate[s].count = 1 /\ mstate = s THEN NULL ELSE mstate
  BY Typed DEF Drops, SetsState
<1>2. dstate'[s].state \in {"freed", "live"}
      /\ (dstate'[s].state = "live" <=> dstate'[s].count > 0)
  BY <1>1
<1>3. \A r \in States : dstate'[r].state = "live" <=> dstate'[r].count > 0
  BY <1>1, <1>2 DEF StateShape
<1>4. mstate' # NULL => dstate'[mstate'].state = "live"
  <2>1. CASE mstate = s
    BY <1>1, <2>1
  <2>2. CASE mstate # s
    BY <1>1, <2>2, Typed DEF StateShape
  <2> QED
    BY <2>1, <2>2
<1> QED
  BY <1>1, <1>2, <1>3, <1>4

(* Every step, of any caller, keeps Base.                                  *)
LEMMA BaseNext ==
  ASSUME Base, [Next]_vars
  PROVE  Base'
<1> USE NullAssumption
<1>0. /\ TypeOK /\ Ids /\ Owners /\ StateShape
  BY DEF Base
<1>1. ASSUME NEW t \in Threads, ThreadStart(t)
      PROVE  Base'
  <2>0. ThreadStartDoes(t)
    BY <1>0, <1>1, ThreadStartEffect
  <2>1. TypeOK'
    BY <1>0, <2>0 DEF ThreadStartDoes, TypeOK, Moves, SetsTid
  <2>2. Ids'
    BY <1>0, <2>0 DEF ThreadStartDoes, Ids, Entered, Holding, Moves, SetsTid
  <2>3. Owners'
    <3>1. \A k \in Keys : tls'[k] # NULL => Owned(k, tls[k])'
      <4> SUFFICES ASSUME NEW k \in Keys, tls'[k] # NULL
                   PROVE  Owned(k, tls[k])'
        OBVIOUS
      <4>1. \A i \in Items : item[i].state # "unused" =>
              item'[i].state # "unused" /\ item'[i].owner = item[i].owner
        BY <2>0 DEF ThreadStartDoes, Moves, SetsTid
      <4>2. \A u \in Threads : generation[u] # 0 =>
              generation'[u] = generation[u] /\ tid'[u] = tid[u]
        BY <1>0, <2>0 DEF ThreadStartDoes, Ids, SetsTid
      <4>3. tls'[k] = tls[k]
        BY <2>0 DEF ThreadStartDoes, SetsTid
      <4> QED
        BY <1>0, <4>1, <4>2, <4>3, ValuesOwned
    <3>2. /\ \A u \in Threads : call'[u].pc = "inserting" =>
             /\ call'[u].item \in Items /\ item'[call'[u].item].state # "unused"
             /\ item'[call'[u].item].owner = u
          /\ \A u \in Threads :
             call'[u].pc \in {"deinit_destroy", "deinit_erase", "destroy_item"}
               => call'[u].item \in Items
      BY SMTT(30), <1>0, <2>0, Typed DEF ThreadStartDoes, Owners, Moves, SetsTid
    <3> QED
      BY <3>1, <3>2 DEF Owners
  <2>4. StateShape'
    BY <1>0, <2>0 DEF ThreadStartDoes, StateShape, Holding, Moves, SetsTid
  <2> QED
    BY <2>1, <2>2, <2>3, <2>4 DEF Base
<1>2. ASSUME NEW t \in Threads, ThreadInit(t) \/ FirstGet(t)
      PROVE  Base'
  <2>0. ThreadInitDoes(t)
    BY <1>0, <1>2, ThreadInitEffect, FirstGetEffect
  <2>1. TypeOK'
    BY <1>0, <2>0 DEF ThreadInitDoes, TypeOK, Moves, Draws
  <2>2. Ids'
    <3>1. /\ \A u \in Threads : u # t => call'[u] = call[u]
                                        /\ generation'[u] = generation[u]
          /\ call[t].pc = "idle" /\ call'[t].pc \in {"idle", "creating"}
          /\ UNCHANGED <<tid, atexit>>
      BY <2>0 DEF ThreadInitDoes, Moves, Draws
    <3>2. /\ generation'[t] # 0 /\ counter' >= counter /\ generation'[t] <= counter'
          /\ generation'[t] = generation[t] \/ generation'[t] > counter
          /\ counter' \in Nat /\ generation'[t] \in Nat
      BY <1>0, <2>0, Typed DEF ThreadInitDoes, Draws, Ids
    <3>3. /\ \A u \in Threads : generation[u] \in Nat /\ generation[u] <= counter
          /\ counter \in Nat
      BY <1>0, Typed DEF Ids
    <3>4. \A u, v \in Threads :
            generation'[u] = generation'[v] /\ generation'[u] # 0 => u = v
      BY <1>0, <3>1, <3>2, <3>3 DEF Ids
    <3>5. \A u \in Threads : generation'[u] <= counter'
      BY <3>1, <3>2, <3>3
    <3> QED
      BY <1>0, <3>1, <3>2, <3>4, <3>5 DEF Ids, Entered, Holding
  <2>3. Owners'
    BY <1>0, <2>0 DEF ThreadInitDoes, Owners, Owned, Moves, Draws
  <2>4. StateShape'
    BY <1>0, <2>0 DEF ThreadInitDoes, StateShape, Holding, Moves, Draws
  <2> QED
    BY <2>1, <2>2, <2>3, <2>4 DEF Base
<1>3. ASSUME NEW t \in Threads, CreateItem(t)
      PROVE  Base'
  <2>0. CreateItemDoes(t)
    BY <1>0, <1>3, CreateItemEffect
  <2>1. TypeOK'
    BY <1>0, <2>0 DEF CreateItemDoes, TypeOK, Moves, SetsItem
  <2>2. Ids'
    BY <1>0, <2>0 DEF CreateItemDoes, Ids, Entered, Holding, Moves, SetsItem
  <2>3. Owners'
    <3>1. \A k \in Keys : tls'[k] # NULL => Owned(k, tls[k])'
      <4> SUFFICES ASSUME NEW k \in Keys, tls'[k] # NULL
                   PROVE  Owned(k, tls[k])'
        OBVIOUS
      <4>1. \A i \in Items : item[i].state # "unused" =>
              item'[i].state # "unused" /\ item'[i].owner = item[i].owner
        BY <2>0 DEF CreateItemDoes, Moves, SetsItem
      <4>2. \A u \in Threads : generation[u] # 0 =>
              generation'[u] = generation[u] /\ tid'[u] = tid[u]
        BY <1>0, <2>0 DEF CreateItemDoes, Ids, SetsItem
      <4>3. tls'[k] = tls[k]
        BY <2>0 DEF CreateItemDoes, SetsItem
      <4> QED
        BY <1>0, <4>1, <4>2, <4>3, ValuesOwned
    <3>2. \A u \in Threads : call'[u].pc = "inserting" =>
            /\ call'[u].item \in Items /\ item'[call'[u].item].state # "unused"
            /\ item'[call'[u].item].owner = u
      <4> SUFFICES ASSUME NEW u \in Threads, call'[u].pc = "inserting"
                   PROVE  /\ call'[u].item \in Items
                          /\ item'[call'[u].item].state # "unused"
                          /\ item'[call'[u].item].owner = u
        OBVIOUS
      <4>1. CASE u = t
        BY <2>0, <4>1 DEF CreateItemDoes, Moves, SetsItem
      <4>2. CASE u # t
        <5>1. call'[u] = call[u]
          BY <2>0, <4>2 DEF CreateItemDoes, Moves
        <5>2. /\ call[u].item \in Items /\ item[call[u].item].state # "unused"
              /\ item[call[u].item].owner = u
          BY <1>0, <5>1 DEF Owners
        <5>3. item'[call[u].item] = item[call[u].item]
          BY <2>0, <5>2 DEF CreateItemDoes, SetsItem
        <5> QED
          BY <5>1, <5>2, <5>3
      <4> QED
        BY <4>1, <4>2
    <3>3. \A u \in Threads :
            call'[u].pc \in {"deinit_destroy", "deinit_erase", "destroy_item"}
              => call'[u].item \in Items
      BY <1>0, <2>0 DEF CreateItemDoes, Owners, Moves
    <3> QED
      BY <3>1, <3>2, <3>3 DEF Owners
  <2>4. StateShape'
    BY <1>0, <2>0 DEF CreateItemDoes, StateShape, Holding, Moves, SetsItem
  <2> QED
    BY <2>1, <2>2, <2>3, <2>4 DEF Base
<1>4. ASSUME NEW t \in Threads, Insert(t)
      PROVE  Base'
  <2>0. InsertDoes(t)
    BY <1>0, <1>4, InsertEffect
  <2>1. TypeOK'
    BY <1>0, <2>0 DEF InsertDoes, TypeOK, Moves, SetsState, SetsValue
  <2>2. Ids'
    BY <1>0, <2>0 DEF InsertDoes, Ids, Entered, Holding, Moves, SetsState, SetsValue
  <2>3. Owners'
    <3>1. \A k \in Keys : tls'[k] # NULL => Owned(k, tls[k])'
      <4> SUFFICES ASSUME NEW k \in Keys, tls'[k] # NULL
                   PROVE  Owned(k, tls[k])'
        OBVIOUS
      <4>0. CASE k = KeyOf(generation[t], tid[t])
        <5>1. tls'[k] = call[t].item /\ UNCHANGED <<item, generation, tid>>
          BY <2>0, <4>0 DEF InsertDoes, SetsValue
        <5>2. /\ item[call[t].item].state # "unused"
              /\ item[call[t].item].owner = t /\ generation[t] # 0
          BY <1>0, <2>0 DEF InsertDoes, Owners, Ids, Entered
        <5> QED
          BY <4>0, <5>1, <5>2 DEF Owned
      <4> SUFFICES ASSUME k # KeyOf(generation[t], tid[t])
                   PROVE  Owned(k, tls[k])'
        BY <4>0
      <4>1. \A i \in Items : item[i].state # "unused" =>
              item'[i].state # "unused" /\ item'[i].owner = item[i].owner
        BY <2>0 DEF InsertDoes, Moves, SetsState, SetsValue
      <4>2. \A u \in Threads : generation[u] # 0 =>
              generation'[u] = generation[u] /\ tid'[u] = tid[u]
        BY <1>0, <2>0 DEF InsertDoes, Ids, SetsState, SetsValue
      <4>3. tls'[k] = tls[k]
        BY <2>0 DEF InsertDoes, SetsValue
      <4> QED
        BY <1>0, <4>1, <4>2, <4>3, ValuesOwned
    <3>2. /\ \A u \in Threads : call'[u].pc = "inserting" =>
             /\ call'[u].item \in Items /\ item'[call'[u].item].state # "unused"
             /\ item'[call'[u].item].owner = u
          /\ \A u \in Threads :
             call'[u].pc \in {"deinit_destroy", "deinit_erase", "destroy_item"}
               => call'[u].item \in Items
      <4>1. \A u \in Threads : u # t => call'[u] = call[u]
        BY <2>0 DEF InsertDoes, Moves
      <4>2. call'[t].pc = "registering" /\ item' = item
        BY <2>0 DEF InsertDoes, Moves
      <4> QED
        BY <1>0, <4>1, <4>2 DEF Owners
    <3> QED
      BY <3>1, <3>2 DEF Owners
  <2>4. StateShape'
    <3>1. PICK r \in States :
            /\ \/ mstate = NULL /\ dstate[r].state = "unused"
               \/ mstate # NULL /\ r = mstate
            /\ SetsState(r, "live",
                         IF mstate = NULL THEN 1 ELSE dstate[r].count + 1,
                         TRUE, dstate[r].lost)
            /\ Moves(t, "registering", call[t].item, r)
            /\ mstate' = r
      BY <2>0 DEF InsertDoes
    <3>2. dstate'[r].count > 0 /\ dstate'[r].state = "live"
          /\ \A q \in States : q # r => dstate'[q] = dstate[q]
      BY <1>0, <3>1, Typed DEF SetsState
    <3>3. \A u \in Threads : /\ call'[u].pc \in Holding <=> call'[u].state # NULL
                             /\ call'[u].state # NULL =>
                                 call'[u].state \in {call[u].state, r}
      BY <1>0, <3>1 DEF Moves, StateShape, Holding
    <3>4. atexit' = atexit
      BY <2>0 DEF InsertDoes
    <3>5. \A q \in States : dstate'[q].state = "live" <=> dstate'[q].count > 0
      BY <1>0, <3>2 DEF StateShape
    <3>6. mstate' = r
      BY <3>1
    <3>7. \A u \in Threads : call'[u].pc \in Holding <=> call'[u].state # NULL
      BY <3>2, <3>3, <3>4, <3>5, <3>6
    <3>8. \A u \in Threads : call'[u].state # NULL =>
            \/ call'[u].state = call[u].state
            \/ dstate'[call'[u].state].state # "unused"
      BY <3>2, <3>3, <3>4, <3>5, <3>6
    <3>9. \A u \in Threads : \A s \in ToSet(atexit'[u]) :
            s \in ToSet(atexit[u]) \/ s = mstate
      BY <3>2, <3>3, <3>4, <3>5, <3>6
    <3>10. /\ \A s \in States : dstate'[s].state = "live" <=> dstate'[s].count > 0
           /\ \A s \in States : dstate[s].state # "unused" => dstate'[s].state # "unused"
      BY <3>2, <3>3, <3>4, <3>5, <3>6
    <3>11. mstate' # NULL => dstate'[mstate'].state = "live"
      BY <3>2, <3>3, <3>4, <3>5, <3>6
    <3> QED
      BY <1>0, <3>7, <3>8, <3>9, <3>10, <3>11, StateShapeKept
  <2> QED
    BY <2>1, <2>2, <2>3, <2>4 DEF Base
<1>5. ASSUME NEW t \in Threads, InsertFails(t)
      PROVE  Base'
  <2>0. InsertFailsDoes(t)
    BY <1>0, <1>5, InsertFailsEffect
  <2>1. TypeOK'
    BY <1>0, <2>0 DEF InsertFailsDoes, TypeOK, Moves, SetsItem
  <2>2. Ids'
    BY <1>0, <2>0 DEF InsertFailsDoes, Ids, Entered, Holding, Moves, SetsItem
  <2>3. Owners'
    <3>1. \A k \in Keys : tls'[k] # NULL => Owned(k, tls[k])'
      <4> SUFFICES ASSUME NEW k \in Keys, tls'[k] # NULL
                   PROVE  Owned(k, tls[k])'
        OBVIOUS
      <4>1. \A i \in Items : item[i].state # "unused" =>
              item'[i].state # "unused" /\ item'[i].owner = item[i].owner
        BY <2>0 DEF InsertFailsDoes, Moves, SetsItem
      <4>2. \A u \in Threads : generation[u] # 0 =>
              generation'[u] = generation[u] /\ tid'[u] = tid[u]
        BY <1>0, <2>0 DEF InsertFailsDoes, Ids, SetsItem
      <4>3. tls'[k] = tls[k]
        BY <2>0 DEF InsertFailsDoes, SetsItem
      <4> QED
        BY <1>0, <4>1, <4>2, <4>3, ValuesOwned
    <3>2. /\ \A u \in Threads : call'[u].pc = "inserting" =>
             /\ call'[u].item \in Items /\ item'[call'[u].item].state # "unused"
             /\ item'[call'[u].item].owner = u
          /\ \A u \in Threads :
             call'[u].pc \in {"deinit_destroy", "deinit_erase", "destroy_item"}
               => call'[u].item \in Items
      BY <1>0, <2>0, Typed DEF InsertFailsDoes, Owners, Moves, SetsItem
    <3> QED
      BY <3>1, <3>2 DEF Owners
  <2>4. StateShape'
    BY <1>0, <2>0 DEF InsertFailsDoes, StateShape, Holding, Moves, SetsItem
  <2> QED
    BY <2>1, <2>2, <2>3, <2>4 DEF Base
<1>6. ASSUME NEW t \in Threads, ThreadAtexit(t)
      PROVE  Base'
  <2>0. ThreadAtexitDoes(t)
    BY <1>0, <1>6, ThreadAtexitEffect
  <2>1. TypeOK'
    BY <1>0, <2>0 DEF ThreadAtexitDoes, TypeOK, Moves, SetsHandlers, SetsState
  <2>2. Ids'
    BY <1>0, <2>0 DEF ThreadAtexitDoes, Ids, Entered, Holding, Moves, SetsHandlers, SetsState
  <2>3. Owners'
    BY SMTT(30), <1>0, <2>0 DEF ThreadAtexitDoes, Owners, Owned, Moves, SetsHandlers, SetsState
  <2>4. StateShape'
    <3>1. /\ \A s \in States : /\ dstate'[s].state = dstate[s].state
                               /\ dstate'[s].count = dstate[s].count
          /\ mstate' = mstate
      BY <2>0 DEF ThreadAtexitDoes, SetsState
    <3>2. \A u \in Threads : /\ call'[u].pc \in Holding <=> call'[u].state # NULL
                             /\ call'[u].state # NULL => call'[u].state = call[u].state
      BY <1>0, <2>0 DEF ThreadAtexitDoes, Moves, StateShape, Holding
    <3>3. \A u \in Threads : \A s \in ToSet(atexit'[u]) :
            s \in ToSet(atexit[u]) \/ s = mstate
      <4>1. \A u \in Threads : u # t => atexit'[u] = atexit[u]
        BY <2>0 DEF ThreadAtexitDoes, SetsHandlers
      <4>2. atexit'[t] = <<mstate>> \o atexit[t] \/ atexit'[t] = atexit[t]
        BY <2>0 DEF ThreadAtexitDoes, SetsHandlers
      <4>3. \A s : s \in ToSet(<<mstate>> \o atexit[t])
                    => s \in ToSet(atexit[t]) \/ s = mstate
        BY <1>0, Typed, PushedHandlers
      <4> QED
        BY <4>1, <4>2, <4>3
    <3>4. /\ \A s \in States : dstate'[s].state = "live" <=> dstate'[s].count > 0
          /\ mstate' # NULL => dstate'[mstate'].state = "live"
      BY <1>0, <3>1, Typed DEF StateShape
    <3>7. \A u \in Threads : call'[u].pc \in Holding <=> call'[u].state # NULL
      BY <3>1, <3>2, <3>3, <3>4
    <3>8. \A u \in Threads : call'[u].state # NULL =>
            \/ call'[u].state = call[u].state
            \/ dstate'[call'[u].state].state # "unused"
      BY <3>1, <3>2, <3>3, <3>4
    <3>9. \A u \in Threads : \A s \in ToSet(atexit'[u]) :
            s \in ToSet(atexit[u]) \/ s = mstate
      BY <3>1, <3>2, <3>3, <3>4
    <3>10. /\ \A s \in States : dstate'[s].state = "live" <=> dstate'[s].count > 0
           /\ \A s \in States : dstate[s].state # "unused" => dstate'[s].state # "unused"
      BY <3>1, <3>2, <3>3, <3>4
    <3>11. mstate' # NULL => dstate'[mstate'].state = "live"
      BY <3>1, <3>2, <3>3, <3>4
    <3> QED
      BY <1>0, <3>7, <3>8, <3>9, <3>10, <3>11, StateShapeKept
  <2> QED
    BY <2>1, <2>2, <2>3, <2>4 DEF Base
<1>7. ASSUME NEW t \in Threads, ThreadExit(t) \/ ExitDone(t)
      PROVE  Base'
  <2>0. ExitDoes(t)
    BY <1>0, <1>7, ExitEffect
  <2>1. TypeOK'
    BY <1>0, <2>0 DEF ExitDoes, TypeOK, Moves
  <2>2. Ids'
    BY <1>0, <2>0 DEF ExitDoes, Ids, Entered, Holding, Moves
  <2>3. Owners'
    BY <1>0, <2>0 DEF ExitDoes, Owners, Owned, Moves
  <2>4. StateShape'
    BY <1>0, <2>0 DEF ExitDoes, StateShape, Holding, Moves
  <2> QED
    BY <2>1, <2>2, <2>3, <2>4 DEF Base
<1>8. ASSUME NEW t \in Threads, DeinitRead(t)
      PROVE  Base'
  <2>0. DeinitReadDoes(t)
    BY <1>0, <1>8, DeinitReadEffect
  <2>1. TypeOK'
    BY <1>0, <2>0 DEF DeinitReadDoes, TypeOK, Moves, SetsHandlers, Drops, SetsState
  <2>2. Ids'
    <3>1. \A u \in Threads : u # t => call'[u] = call[u] /\ atexit'[u] = atexit[u]
      BY <2>0 DEF DeinitReadDoes, Moves, SetsHandlers
    <3>2. call'[t].pc \in {"exiting", "deinit_lock"} /\ call[t].pc = "exiting"
      BY <2>0 DEF DeinitReadDoes, Moves
    <3>3. generation[t] # 0 /\ UNCHANGED <<tid, generation, counter>>
      BY <1>0, <2>0 DEF DeinitReadDoes, Ids
    <3> QED
      BY <1>0, <3>1, <3>2, <3>3 DEF Ids, Entered, Holding
  <2>3. Owners'
    <3>1. \A k \in Keys : tls'[k] # NULL => Owned(k, tls[k])'
      <4> SUFFICES ASSUME NEW k \in Keys, tls'[k] # NULL
                   PROVE  Owned(k, tls[k])'
        OBVIOUS
      <4>1. \A i \in Items : item[i].state # "unused" =>
              item'[i].state # "unused" /\ item'[i].owner = item[i].owner
        BY <2>0 DEF DeinitReadDoes, Moves, SetsHandlers, Drops, SetsState
      <4>2. \A u \in Threads : generation[u] # 0 =>
              generation'[u] = generation[u] /\ tid'[u] = tid[u]
        BY <1>0, <2>0 DEF DeinitReadDoes, Ids, SetsHandlers, Drops, SetsState
      <4>3. tls'[k] = tls[k]
        BY <2>0 DEF DeinitReadDoes, SetsHandlers, Drops, SetsState
      <4> QED
        BY <1>0, <4>1, <4>2, <4>3, ValuesOwned
    <3>2. /\ \A u \in Threads : call'[u].pc = "inserting" =>
             /\ call'[u].item \in Items /\ item'[call'[u].item].state # "unused"
             /\ item'[call'[u].item].owner = u
          /\ \A u \in Threads :
             call'[u].pc \in {"deinit_destroy", "deinit_erase", "destroy_item"}
               => call'[u].item \in Items
      <4>1. \A u \in Threads : u # t => call'[u] = call[u]
        BY <2>0 DEF DeinitReadDoes, Moves
      <4>2. call'[t].pc \in {"exiting", "deinit_lock"} /\ item' = item
        BY <2>0 DEF DeinitReadDoes, Moves
      <4> QED
        BY <1>0, <4>1, <4>2 DEF Owners
    <3> QED
      BY <3>1, <3>2 DEF Owners
  <2>4. StateShape'
    <3> DEFINE h == Head(atexit[t])
    <3>1. /\ \A s \in States : dstate'[s].state = "live" <=> dstate'[s].count > 0
          /\ \A s \in States : dstate[s].state # "unused" => dstate'[s].state # "unused"
          /\ mstate' # NULL => dstate'[mstate'].state = "live"
      <4>1. CASE Drops(h)
        BY <1>0, <2>0, <4>1, DropsShape DEF DeinitReadDoes
      <4>2. CASE UNCHANGED <<mstate, dstate>>
        BY <1>0, <4>2 DEF StateShape
      <4> QED
        BY <2>0, <4>1, <4>2 DEF DeinitReadDoes
    <3>2. \A u \in Threads : /\ call'[u].pc \in Holding <=> call'[u].state # NULL
                             /\ call'[u].state # NULL =>
                                 call'[u].state \in {call[u].state, h}
      BY <1>0, <2>0 DEF DeinitReadDoes, Moves, StateShape, Holding
    <3>3. h \in States /\ dstate[h].state # "unused"
      BY <1>0, <2>0 DEF DeinitReadDoes, StateShape
    <3>4. \A u \in Threads : \A s \in ToSet(atexit'[u]) : s \in ToSet(atexit[u])
      <4>1. \A u \in Threads : u # t => atexit'[u] = atexit[u]
        BY <2>0 DEF DeinitReadDoes, SetsHandlers
      <4>2. atexit'[t] = Tail(atexit[t]) /\ atexit[t] # <<>>
        BY <2>0 DEF DeinitReadDoes, SetsHandlers
      <4>3. \A s : s \in ToSet(Tail(atexit[t])) => s \in ToSet(atexit[t])
        BY <1>0, <4>2, Typed, PoppedHandlers
      <4> QED
        BY <4>1, <4>2, <4>3
    <3> HIDE DEF h
    <3>7. \A u \in Threads : call'[u].pc \in Holding <=> call'[u].state # NULL
      BY <3>1, <3>2, <3>3, <3>4
    <3>8. \A u \in Threads : call'[u].state # NULL =>
            \/ call'[u].state = call[u].state
            \/ dstate'[call'[u].state].state # "unused"
      BY <3>1, <3>2, <3>3, <3>4
    <3>9. \A u \in Threads : \A s \in ToSet(atexit'[u]) :
            s \in ToSet(atexit[u]) \/ s = mstate
      BY <3>1, <3>2, <3>3, <3>4
    <3>10. /\ \A s \in States : dstate'[s].state = "live" <=> dstate'[s].count > 0
           /\ \A s \in States : dstate[s].state # "unused" => dstate'[s].state # "unused"
      BY <3>1, <3>2, <3>3, <3>4
    <3>11. mstate' # NULL => dstate'[mstate'].state = "live"
      BY <3>1, <3>2, <3>3, <3>4
    <3> QED
      BY <1>0, <3>7, <3>8, <3>9, <3>10, <3>11, StateShapeKept
  <2> QED
    BY <2>1, <2>2, <2>3, <2>4 DEF Base
<1>9. ASSUME NEW t \in Threads, DeinitLock(t)
      PROVE  Base'
  <2>0. DeinitLockDoes(t)
    BY <1>0, <1>9, DeinitLockEffect
  <2>1. TypeOK'
    BY <1>0, <2>0 DEF DeinitLockDoes, TypeOK, Moves, Drops, SetsState
  <2>2. Ids'
    BY <1>0, <2>0 DEF DeinitLockDoes, Ids, Entered, Holding, Moves, Drops, SetsState
  <2>3. Owners'
    <3>1. \A k \in Keys : tls'[k] # NULL => Owned(k, tls[k])'
      <4> SUFFICES ASSUME NEW k \in Keys, tls'[k] # NULL
                   PROVE  Owned(k, tls[k])'
        OBVIOUS
      <4>1. \A i \in Items : item[i].state # "unused" =>
              item'[i].state # "unused" /\ item'[i].owner = item[i].owner
        BY <2>0 DEF DeinitLockDoes, Moves, Drops, SetsState
      <4>2. \A u \in Threads : generation[u] # 0 =>
              generation'[u] = generation[u] /\ tid'[u] = tid[u]
        BY <1>0, <2>0 DEF DeinitLockDoes, Ids, Drops, SetsState
      <4>3. tls'[k] = tls[k]
        BY <2>0 DEF DeinitLockDoes, Drops, SetsState
      <4> QED
        BY <1>0, <4>1, <4>2, <4>3, ValuesOwned
    <3>2. /\ \A u \in Threads : call'[u].pc = "inserting" =>
             /\ call'[u].item \in Items /\ item'[call'[u].item].state # "unused"
             /\ item'[call'[u].item].owner = u
          /\ \A u \in Threads :
             call'[u].pc \in {"deinit_destroy", "deinit_erase", "destroy_item"}
               => call'[u].item \in Items
      BY SMTT(30), <1>0, <2>0, Typed DEF DeinitLockDoes, Owners, Moves, Drops, SetsState
    <3> QED
      BY <3>1, <3>2 DEF Owners
  <2>4. StateShape'
    <3>1. /\ \A s \in States : dstate'[s].state = "live" <=> dstate'[s].count > 0
          /\ \A s \in States : dstate[s].state # "unused" => dstate'[s].state # "unused"
          /\ mstate' # NULL => dstate'[mstate'].state = "live"
      <4>1. CASE Drops(call[t].state)
        BY <1>0, <2>0, <4>1, DropsShape DEF DeinitLockDoes
      <4>2. CASE UNCHANGED <<mstate, dstate>>
        BY <1>0, <4>2 DEF StateShape
      <4> QED
        BY <2>0, <4>1, <4>2 DEF DeinitLockDoes
    <3>2. \A u \in Threads : /\ call'[u].pc \in Holding <=> call'[u].state # NULL
                             /\ call'[u].state # NULL => call'[u].state = call[u].state
      BY <1>0, <2>0 DEF DeinitLockDoes, Moves, StateShape, Holding
    <3>3. atexit' = atexit
      BY <2>0 DEF DeinitLockDoes
    <3>7. \A u \in Threads : call'[u].pc \in Holding <=> call'[u].state # NULL
      BY <3>1, <3>2, <3>3
    <3>8. \A u \in Threads : call'[u].state # NULL =>
            \/ call'[u].state = call[u].state
            \/ dstate'[call'[u].state].state # "unused"
      BY <3>1, <3>2, <3>3
    <3>9. \A u \in Threads : \A s \in ToSet(atexit'[u]) :
            s \in ToSet(atexit[u]) \/ s = mstate
      BY <3>1, <3>2, <3>3
    <3>10. /\ \A s \in States : dstate'[s].state = "live" <=> dstate'[s].count > 0
           /\ \A s \in States : dstate[s].state # "unused" => dstate'[s].state # "unused"
      BY <3>1, <3>2, <3>3
    <3>11. mstate' # NULL => dstate'[mstate'].state = "live"
      BY <3>1, <3>2, <3>3
    <3> QED
      BY <1>0, <3>7, <3>8, <3>9, <3>10, <3>11, StateShapeKept
  <2> QED
    BY <2>1, <2>2, <2>3, <2>4 DEF Base
<1>10. ASSUME NEW t \in Threads, DeinitDestroy(t)
      PROVE  Base'
  <2>0. DeinitDestroyDoes(t)
    BY <1>0, <1>10, DeinitDestroyEffect
  <2>1. TypeOK'
    BY <1>0, <2>0 DEF DeinitDestroyDoes, TypeOK, Moves, SetsItem
  <2>2. Ids'
    BY <1>0, <2>0 DEF DeinitDestroyDoes, Ids, Entered, Holding, Moves, SetsItem
  <2>3. Owners'
    <3>1. \A k \in Keys : tls'[k] # NULL => Owned(k, tls[k])'
      <4> SUFFICES ASSUME NEW k \in Keys, tls'[k] # NULL
                   PROVE  Owned(k, tls[k])'
        OBVIOUS
      <4>1. \A i \in Items : item[i].state # "unused" =>
              item'[i].state # "unused" /\ item'[i].owner = item[i].owner
        BY <2>0 DEF DeinitDestroyDoes, Moves, SetsItem
      <4>2. \A u \in Threads : generation[u] # 0 =>
              generation'[u] = generation[u] /\ tid'[u] = tid[u]
        BY <1>0, <2>0 DEF DeinitDestroyDoes, Ids, SetsItem
      <4>3. tls'[k] = tls[k]
        BY <2>0 DEF DeinitDestroyDoes, SetsItem
      <4> QED
        BY <1>0, <4>1, <4>2, <4>3, ValuesOwned
    <3>2. /\ \A u \in Threads : call'[u].pc = "inserting" =>
             /\ call'[u].item \in Items /\ item'[call'[u].item].state # "unused"
             /\ item'[call'[u].item].owner = u
          /\ \A u \in Threads :
             call'[u].pc \in {"deinit_destroy", "deinit_erase", "destroy_item"}
               => call'[u].item \in Items
      <4>1. /\ \A u \in Threads : u # t => call'[u] = call[u]
            /\ call'[t].pc = "deinit_erase" /\ call'[t].item \in Items
        BY <2>0 DEF DeinitDestroyDoes, Moves
      <4>2. \A i \in Items : item[i].state # "unused" =>
              item'[i].state # "unused" /\ item'[i].owner = item[i].owner
        BY <2>0 DEF DeinitDestroyDoes, SetsItem
      <4> QED
        BY <1>0, <4>1, <4>2 DEF Owners
    <3> QED
      BY <3>1, <3>2 DEF Owners
  <2>4. StateShape'
    BY <1>0, <2>0 DEF DeinitDestroyDoes, StateShape, Holding, Moves, SetsItem
  <2> QED
    BY <2>1, <2>2, <2>3, <2>4 DEF Base
<1>11. ASSUME NEW t \in Threads, DeinitErase(t)
      PROVE  Base'
  <2>0. DeinitEraseDoes(t)
    BY <1>0, <1>11, DeinitEraseEffect
  <2>1. TypeOK'
    BY <1>0, <2>0 DEF DeinitEraseDoes, TypeOK, Moves, SetsValue, Drops, SetsState
  <2>2. Ids'
    BY <1>0, <2>0 DEF DeinitEraseDoes, Ids, Entered, Holding, Moves, SetsValue, Drops, SetsState
  <2>3. Owners'
    BY <1>0, <2>0 DEF DeinitEraseDoes, Owners, Owned, Moves, SetsValue, Drops, SetsState
  <2>4. StateShape'
    <3>1. /\ \A s \in States : dstate'[s].state = "live" <=> dstate'[s].count > 0
          /\ \A s \in States : dstate[s].state # "unused" => dstate'[s].state # "unused"
          /\ mstate' # NULL => dstate'[mstate'].state = "live"
      BY <1>0, <2>0, DropsShape DEF DeinitEraseDoes
    <3>2. \A u \in Threads : /\ call'[u].pc \in Holding <=> call'[u].state # NULL
                             /\ call'[u].state # NULL => call'[u].state = call[u].state
      BY <1>0, <2>0 DEF DeinitEraseDoes, Moves, StateShape, Holding
    <3>3. atexit' = atexit
      BY <2>0 DEF DeinitEraseDoes
    <3>7. \A u \in Threads : call'[u].pc \in Holding <=> call'[u].state # NULL
      BY <3>1, <3>2, <3>3
    <3>8. \A u \in Threads : call'[u].state # NULL =>
            \/ call'[u].state = call[u].state
            \/ dstate'[call'[u].state].state # "unused"
      BY <3>1, <3>2, <3>3
    <3>9. \A u \in Threads : \A s \in ToSet(atexit'[u]) :
            s \in ToSet(atexit[u]) \/ s = mstate
      BY <3>1, <3>2, <3>3
    <3>10. /\ \A s \in States : dstate'[s].state = "live" <=> dstate'[s].count > 0
           /\ \A s \in States : dstate[s].state # "unused" => dstate'[s].state # "unused"
      BY <3>1, <3>2, <3>3
    <3>11. mstate' # NULL => dstate'[mstate'].state = "live"
      BY <3>1, <3>2, <3>3
    <3> QED
      BY <1>0, <3>7, <3>8, <3>9, <3>10, <3>11, StateShapeKept
  <2> QED
    BY <2>1, <2>2, <2>3, <2>4 DEF Base
<1>12. ASSUME NEW t \in Threads, Destroy(t)
      PROVE  Base'
  <2>0. DestroyDoes(t)
    BY <1>0, <1>12, DestroyEffect
  <2>1. TypeOK'
    BY <1>0, <2>0 DEF DestroyDoes, TypeOK, Moves, SetsState
  <2>2. Ids'
    BY <1>0, <2>0 DEF DestroyDoes, Ids, Entered, Holding, Moves, SetsState
  <2>3. Owners'
    BY <1>0, <2>0 DEF DestroyDoes, Owners, Owned, Moves, SetsState
  <2>4. StateShape'
    <3>1. /\ \A s \in States : /\ dstate'[s].state = dstate[s].state
                               /\ dstate'[s].count = dstate[s].count
          /\ mstate' = NULL
      BY <2>0 DEF DestroyDoes, SetsState
    <3>2. \A u \in Threads : /\ call'[u].pc \in Holding <=> call'[u].state # NULL
                             /\ call'[u].state = call[u].state
      BY <1>0, <2>0 DEF DestroyDoes, Moves, StateShape, Holding
    <3>3. atexit' = atexit
      BY <2>0 DEF DestroyDoes
    <3>4. \A s \in States : dstate'[s].state = "live" <=> dstate'[s].count > 0
      BY <1>0, <3>1 DEF StateShape
    <3>7. \A u \in Threads : call'[u].pc \in Holding <=> call'[u].state # NULL
      BY <3>1, <3>2, <3>3, <3>4
    <3>8. \A u \in Threads : call'[u].state # NULL =>
            \/ call'[u].state = call[u].state
            \/ dstate'[call'[u].state].state # "unused"
      BY <3>1, <3>2, <3>3, <3>4
    <3>9. \A u \in Threads : \A s \in ToSet(atexit'[u]) :
            s \in ToSet(atexit[u]) \/ s = mstate
      BY <3>1, <3>2, <3>3, <3>4
    <3>10. /\ \A s \in States : dstate'[s].state = "live" <=> dstate'[s].count > 0
           /\ \A s \in States : dstate[s].state # "unused" => dstate'[s].state # "unused"
      BY <3>1, <3>2, <3>3, <3>4
    <3>11. mstate' # NULL => dstate'[mstate'].state = "live"
      BY <3>1, <3>2, <3>3, <3>4
    <3> QED
      BY <1>0, <3>7, <3>8, <3>9, <3>10, <3>11, StateShapeKept
  <2> QED
    BY <2>1, <2>2, <2>3, <2>4 DEF Base
<1>13. ASSUME NEW t \in Threads, DestroyErase(t)
      PROVE  Base'
  <2>0. DestroyEraseDoes(t)
    BY <1>0, <1>13, DestroyEraseEffect
  <2>1. TypeOK'
    BY <1>0, <2>0 DEF DestroyEraseDoes, TypeOK, Moves, SetsValue
  <2>2. Ids'
    BY <1>0, <2>0 DEF DestroyEraseDoes, Ids, Entered, Holding, Moves, SetsValue
  <2>3. Owners'
    <3>1. \A k \in Keys : tls'[k] # NULL => Owned(k, tls[k])'
      <4> SUFFICES ASSUME NEW k \in Keys, tls'[k] # NULL
                   PROVE  Owned(k, tls[k])'
        OBVIOUS
      <4>1. \A i \in Items : item[i].state # "unused" =>
              item'[i].state # "unused" /\ item'[i].owner = item[i].owner
        BY <2>0 DEF DestroyEraseDoes, Moves, SetsValue
      <4>2. \A u \in Threads : generation[u] # 0 =>
              generation'[u] = generation[u] /\ tid'[u] = tid[u]
        BY <1>0, <2>0 DEF DestroyEraseDoes, Ids, SetsValue
      <4>3. tls'[k] = tls[k]
        BY <2>0 DEF DestroyEraseDoes, SetsValue
      <4> QED
        BY <1>0, <4>1, <4>2, <4>3, ValuesOwned
    <3>2. /\ \A u \in Threads : call'[u].pc = "inserting" =>
             /\ call'[u].item \in Items /\ item'[call'[u].item].state # "unused"
             /\ item'[call'[u].item].owner = u
          /\ \A u \in Threads :
             call'[u].pc \in {"deinit_destroy", "deinit_erase", "destroy_item"}
               => call'[u].item \in Items
      BY <1>0, <2>0, Typed DEF DestroyEraseDoes, Owners, Moves, SetsValue
    <3> QED
      BY <3>1, <3>2 DEF Owners
  <2>4. StateShape'
    BY <1>0, <2>0 DEF DestroyEraseDoes, StateShape, Holding, Moves, SetsValue
  <2> QED
    BY <2>1, <2>2, <2>3, <2>4 DEF Base
<1>14. ASSUME NEW t \in Threads, DestroyItem(t)
      PROVE  Base'
  <2>0. DestroyItemDoes(t)
    BY <1>0, <1>14, DestroyItemEffect
  <2>1. TypeOK'
    BY <1>0, <2>0 DEF DestroyItemDoes, TypeOK, Moves, SetsItem
  <2>2. Ids'
    BY <1>0, <2>0 DEF DestroyItemDoes, Ids, Entered, Holding, Moves, SetsItem
  <2>3. Owners'
    <3>1. \A k \in Keys : tls'[k] # NULL => Owned(k, tls[k])'
      <4> SUFFICES ASSUME NEW k \in Keys, tls'[k] # NULL
                   PROVE  Owned(k, tls[k])'
        OBVIOUS
      <4>1. \A i \in Items : item[i].state # "unused" =>
              item'[i].state # "unused" /\ item'[i].owner = item[i].owner
        BY <2>0 DEF DestroyItemDoes, Moves, SetsItem
      <4>2. \A u \in Threads : generation[u] # 0 =>
              generation'[u] = generation[u] /\ tid'[u] = tid[u]
        BY <1>0, <2>0 DEF DestroyItemDoes, Ids, SetsItem
      <4>3. tls'[k] = tls[k]
        BY <2>0 DEF DestroyItemDoes, SetsItem
      <4> QED
        BY <1>0, <4>1, <4>2, <4>3, ValuesOwned
    <3>2. /\ \A u \in Threads : call'[u].pc = "inserting" =>
             /\ call'[u].item \in Items /\ item'[call'[u].item].state # "unused"
             /\ item'[call'[u].item].owner = u
          /\ \A u \in Threads :
             call'[u].pc \in {"deinit_destroy", "deinit_erase", "destroy_item"}
               => call'[u].item \in Items
      BY <1>0, <2>0, Typed DEF DestroyItemDoes, Owners, Moves, SetsItem
    <3> QED
      BY <3>1, <3>2 DEF Owners
  <2>4. StateShape'
    BY <1>0, <2>0 DEF DestroyItemDoes, StateShape, Holding, Moves, SetsItem
  <2> QED
    BY <2>1, <2>2, <2>3, <2>4 DEF Base
<1>15. ASSUME NEW t \in Threads, DestroyDone(t)
      PROVE  Base'
  <2>0. DestroyDoneDoes(t)
    BY <1>0, <1>15, DestroyDoneEffect
  <2>1. TypeOK'
    BY <1>0, <2>0 DEF DestroyDoneDoes, TypeOK, Moves
  <2>2. Ids'
    BY <1>0, <2>0 DEF DestroyDoneDoes, Ids, Entered, Holding, Moves
  <2>3. Owners'
    BY <1>0, <2>0 DEF DestroyDoneDoes, Owners, Owned, Moves
  <2>4. StateShape'
    BY <1>0, <2>0 DEF DestroyDoneDoes, StateShape, Holding, Moves
  <2> QED
    BY <2>1, <2>2, <2>3, <2>4 DEF Base
<1>16. ASSUME NEW t \in Threads, Create(t)
       PROVE  Base'
  BY <1>0, <1>16 DEF Create, Base, TypeOK, Ids, Owners, Owned, StateShape
<1>17. CASE UNCHANGED vars
  BY <1>0, <1>17 DEF vars, Base, TypeOK, Ids, Owners, Owned, StateShape
<1> QED
  BY <1>1, <1>2, <1>3, <1>4, <1>5, <1>6, <1>7, <1>8, <1>9, <1>10, <1>11, <1>12,
     <1>13, <1>14, <1>15, <1>16, <1>17 DEF Next

(* Base holds before the first step.                                       *)
LEMMA BaseInit == Init => Base
<1> SUFFICES ASSUME Init PROVE Base
  OBVIOUS
<1>1. /\ [state |-> "unused", owner |-> NULL, destroys |-> 0] \in Value
      /\ [state |-> "unused", count |-> 0, val |-> FALSE, lost |-> FALSE]
           \in DeinitState
      /\ [Idle EXCEPT !.pc = "unborn"] \in Call
      /\ [Idle EXCEPT !.pc = "unborn"].pc = "unborn"
      /\ [Idle EXCEPT !.pc = "unborn"].state = NULL
  BY DEF Value, DeinitState, Call, PCs, Idle
<1>2. <<>> \in Seq(States \cup {NULL}) /\ \A y : y \notin ToSet(<<>>)
  BY DEF ToSet
<1>3. TypeOK
  BY <1>1, <1>2 DEF Init, TypeOK
<1>4. /\ \A t \in Threads : /\ call[t].pc = "unborn" /\ call[t].state = NULL
                            /\ generation[t] = 0 /\ tid[t] = NULL /\ atexit[t] = <<>>
      /\ counter = 0 /\ mstate = NULL
  BY <1>1 DEF Init
<1>5. \A s \in States : dstate[s].state = "unused" /\ dstate[s].count = 0
  BY DEF Init
<1>6. Ids
  BY <1>4 DEF Ids, Entered, Holding
<1>7. Owners
  BY <1>1 DEF Init, Owners
<1>8. StateShape
  BY <1>2, <1>4, <1>5 DEF StateShape, Holding
<1> QED
  BY <1>3, <1>6, <1>7, <1>8 DEF Base

(* Base is an invariant whatever the callers of destroy() guarantee.       *)
LEMMA BaseInvariant == Spec => []Base
  BY BaseInit, BaseNext, PTL DEF Spec

(* Every variable of the storage holds a value of its type, whatever the   *)
(* caller guarantees: no reference is dropped that was not counted, so     *)
(* that a count never wraps below zero.                                    *)
THEOREM StorageTyped == Spec => []TypeOK
<1>1. Base => TypeOK
  BY DEF Base
<1> QED
  BY <1>1, BaseInvariant, PTL

-----------------------------------------------------------------------------
(* The generations drawn are counted: with fewer threads than generations  *)
(* a key is the key of one thread.                                         *)

Drew == {t \in Threads : generation[t] # 0}
GenerationsCounted == IsFiniteSet(Drew) /\ counter = Cardinality(Drew)

(* Only the first use of the library on a thread draws a generation.       *)
LEMMA OnlyDraws ==
  ASSUME TypeOK, [Next]_vars
  PROVE  \/ UNCHANGED <<generation, counter>>
         \/ \E t \in Threads, g \in Nat \ {0} : Draws(t, g)
<1>1. ASSUME NEW t \in Threads, ThreadInit(t) \/ FirstGet(t)
      PROVE  \E g \in Nat \ {0} : Draws(t, g)
  BY <1>1, DrawEffect DEF ThreadInit, FirstGet
<1>2. ASSUME NEW t \in Threads,
             \/ ThreadStart(t) \/ Create(t) \/ CreateItem(t) \/ Insert(t)
             \/ InsertFails(t) \/ ThreadAtexit(t) \/ ThreadExit(t) \/ ExitDone(t)
             \/ DeinitRead(t) \/ DeinitLock(t) \/ DeinitDestroy(t) \/ DeinitErase(t)
             \/ Destroy(t) \/ DestroyErase(t) \/ DestroyItem(t) \/ DestroyDone(t)
      PROVE  UNCHANGED <<generation, counter>>
  BY <1>2 DEF ThreadStart, Create, CreateItem, Insert, InsertFails, ThreadAtexit,
              ThreadExit, ExitDone, DeinitRead, DeinitLock, DeinitDestroy,
              DeinitErase, Destroy, DestroyErase, DestroyItem, DestroyDone
<1>3. CASE UNCHANGED vars
  BY <1>3 DEF vars
<1> QED
  BY <1>1, <1>2, <1>3 DEF Next

(* Every step keeps the count of the generations drawn.                    *)
LEMMA GenerationsNext ==
  ASSUME TypeOK, GenerationsCounted, [Next]_vars
  PROVE  GenerationsCounted'
<1>1. CASE UNCHANGED <<generation, counter>>
  BY <1>1 DEF GenerationsCounted, Drew
<1>2. ASSUME NEW t \in Threads, NEW g \in Nat \ {0}, Draws(t, g)
      PROVE  GenerationsCounted'
  <2>1. \A u \in Threads : u # t => generation'[u] = generation[u]
    BY <1>2 DEF Draws
  <2>2. CASE generation[t] # 0
    <3>1. generation'[t] = generation[t] /\ counter' = counter
      BY <1>2, <2>2 DEF Draws
    <3>2. Drew' = Drew
      BY <2>1, <3>1 DEF Drew
    <3> QED
      BY <3>1, <3>2 DEF GenerationsCounted
  <2>3. CASE generation[t] = 0
    <3>1. generation'[t] # 0 /\ counter' = counter + 1
      BY <1>2, <2>3 DEF Draws
    <3>2. Drew' = Drew \cup {t} /\ t \notin Drew
      BY <2>1, <2>3, <3>1 DEF Drew
    <3>3. IsFiniteSet(Drew \cup {t}) /\ Cardinality(Drew \cup {t}) = Cardinality(Drew) + 1
      BY <3>2, FS_AddElement DEF GenerationsCounted
    <3> QED
      BY <3>1, <3>2, <3>3 DEF GenerationsCounted
  <2> QED
    BY <2>2, <2>3
<1> QED
  BY <1>1, <1>2, OnlyDraws

(* No more generations are drawn than there are threads.                   *)
LEMMA GenerationsInvariant == Spec => []GenerationsCounted
<1>1. Init => GenerationsCounted
  <2> SUFFICES ASSUME Init PROVE GenerationsCounted
    OBVIOUS
  <2>1. Drew = {} /\ counter = 0
    BY DEF Init, Drew
  <2> QED
    BY <2>1, FS_EmptySet DEF GenerationsCounted
<1>2. TypeOK /\ GenerationsCounted /\ [Next]_vars => GenerationsCounted'
  BY GenerationsNext
<1> QED
  BY <1>1, <1>2, StorageTyped, PTL DEF Spec

(* What get() returns on a thread is NULL or the value that thread made,   *)
(* even though the kernel reuses thread ids and a value may outlive its    *)
(* thread: the composite key separates them for as long as the threads     *)
(* that ever start are no more than the generations.                       *)
THEOREM GetReturnsOwn ==
  ASSUME IsFiniteSet(Threads), Cardinality(Threads) <= GenerationMod
  PROVE  Spec => []OwnValue
<1>1. Base /\ GenerationsCounted => OwnValue
  <2> SUFFICES ASSUME Base, GenerationsCounted, NEW t \in Threads,
                      call[t].pc # "exited", Get(t) # NULL
               PROVE  item[Get(t)].owner = t
    BY DEF OwnValue
  <2>0. TypeOK /\ Ids /\ Owners
    BY DEF Base
  <2>1. counter <= GenerationMod
    <3>1. Cardinality(Drew) <= Cardinality(Threads)
      BY FS_Subset DEF Drew
    <3>2. Cardinality(Drew) \in Nat /\ Cardinality(Threads) \in Nat
      BY FS_CardinalityType DEF GenerationsCounted
    <3> QED
      BY <3>1, <3>2, GenerationAssumption DEF GenerationsCounted
  <2> DEFINE k == KeyOf(generation[t], tid[t])
  <2>2. generation[t] # 0 /\ Get(t) = tls[k] /\ tls[k] # NULL
    BY KeyOfThread DEF Get
  <2>3. tid[t] \in Tids /\ k \in Keys
    BY <2>0, <2>2, KeysTyped, Typed DEF Ids
  <2>4. Owned(k, tls[k])
    BY <2>0, <2>2, <2>3 DEF Owners
  <2> DEFINE o == item[tls[k]].owner
  <2>5. o \in Threads /\ generation[o] # 0 /\ KeyOf(generation[o], tid[o]) = k
    BY <2>4 DEF Owned
  <2> HIDE DEF o
  <2>6. generation[o] % GenerationMod = generation[t] % GenerationMod
    BY <2>5, KeysOfTids
  <2>7. generation[o] \in 1 .. GenerationMod /\ generation[t] \in 1 .. GenerationMod
    <3>1. /\ generation[o] \in Nat \ {0} /\ generation[t] \in Nat \ {0}
          /\ generation[o] <= counter /\ generation[t] <= counter /\ counter \in Nat
      BY <2>0, <2>2, <2>5, Typed DEF Ids
    <3> QED
      BY <2>1, <3>1, GenerationAssumption
  <2>8. generation[o] = generation[t]
    BY <2>6, <2>7, ShortRemainder, GenerationAssumption
  <2>9. o = t
    BY <2>0, <2>2, <2>5, <2>8 DEF Ids
  <2> QED
    BY <2>2, <2>9 DEF o
<1> QED
  BY <1>1, BaseInvariant, GenerationsInvariant, PTL

-----------------------------------------------------------------------------
(* A caller of destroy() that waits until no thread is inside.             *)

Does(t) ==
  \/ ThreadStartDoes(t) \/ ThreadInitDoes(t) \/ CreateItemDoes(t) \/ InsertDoes(t)
  \/ InsertFailsDoes(t) \/ ThreadAtexitDoes(t) \/ ExitDoes(t) \/ DeinitReadDoes(t)
  \/ DeinitLockDoes(t) \/ DeinitDestroyDoes(t) \/ DeinitEraseDoes(t) \/ DestroyDoes(t)
  \/ DestroyEraseDoes(t) \/ DestroyItemDoes(t) \/ DestroyDoneDoes(t) \/ Create(t)

(* Every step is one of these effects.                                     *)
LEMMA StepEffect ==
  ASSUME Base, [Next]_vars
  PROVE  UNCHANGED vars \/ \E t \in Threads : Does(t)
<1>0. TypeOK /\ Ids /\ Owners /\ StateShape
  BY DEF Base
<1> SUFFICES ASSUME NEW t \in Threads,
               \/ ThreadStart(t) \/ Create(t) \/ FirstGet(t) \/ ThreadInit(t)
               \/ CreateItem(t) \/ Insert(t) \/ InsertFails(t)
               \/ ThreadAtexit(t) \/ ThreadExit(t) \/ ExitDone(t)
               \/ DeinitRead(t) \/ DeinitLock(t) \/ DeinitDestroy(t)
               \/ DeinitErase(t)
               \/ Destroy(t) \/ DestroyErase(t) \/ DestroyItem(t) \/ DestroyDone(t)
             PROVE  Does(t)
  BY DEF Next
<1> USE DEF Does
<1>1. CASE ThreadStart(t) \/ FirstGet(t) \/ ThreadInit(t) \/ CreateItem(t)
  BY <1>0, <1>1, ThreadStartEffect, FirstGetEffect, ThreadInitEffect, CreateItemEffect
<1>2. CASE Insert(t) \/ InsertFails(t) \/ ThreadAtexit(t)
  BY <1>0, <1>2, InsertEffect, InsertFailsEffect, ThreadAtexitEffect
<1>3. CASE ThreadExit(t) \/ ExitDone(t) \/ DeinitRead(t) \/ DeinitLock(t)
  BY <1>0, <1>3, ExitEffect, DeinitReadEffect, DeinitLockEffect
<1>4. CASE DeinitDestroy(t) \/ DeinitErase(t) \/ Destroy(t)
  BY <1>0, <1>4, DeinitDestroyEffect, DeinitEraseEffect, DestroyEffect
<1>5. CASE DestroyErase(t) \/ DestroyItem(t) \/ DestroyDone(t) \/ Create(t)
  BY <1>0, <1>5, DestroyEraseEffect, DestroyItemEffect, DestroyDoneEffect
<1> QED
  BY <1>1, <1>2, <1>3, <1>4, <1>5

(* While a thread destroys the instance the others are outside, and        *)
(* mem->state is the one deinit_state that still leads to the instance.    *)
Phases ==
  /\ \A t \in Threads : call[t].pc \in Entered \/ Freeing(t) => mem = "live"
  /\ \A t, u \in Threads : Freeing(t) /\ t # u => call[u].pc \in Outside
  /\ mstate # NULL => /\ mem = "live" /\ dstate[mstate].val
                      /\ \A t \in Threads : ~Freeing(t)
  /\ \A s \in States : dstate[s].state = "live" /\ dstate[s].val => mstate = s

(* A thread has at most one handler, on mem->state while the instance      *)
(* lives, and with it its value in the map.                                *)
Handlers ==
  /\ \A t \in Threads :
       /\ call[t].pc \in Holding => call[t].state = mstate
       /\ atexit[t] = <<>> \/ \E s \in States : atexit[t] = <<s>>
       /\ call[t].pc \in Entered => atexit[t] = <<>>
       /\ atexit[t] # <<>> => mem # "none"
       /\ call[t].pc \in {"creating", "inserting"} => tls[KeyOf(generation[t], tid[t])] = NULL
  /\ mem = "live" /\ (\A u \in Threads : ~Freeing(u)) =>
       \A t \in Threads : call[t].pc \in Holding \/ atexit[t] # <<>> =>
         tls[KeyOf(generation[t], tid[t])] # NULL

(* The references on a deinit_state are counted, and none is missing       *)
(* unless a registration failed.                                           *)
HoldersOf(c, h, s) == {t \in Threads : c[t].state = s \/ h[t] = <<s>>}
CountedBy(n, l, H) ==
  IsFiniteSet(H) /\ Cardinality(H) <= n /\ (~l => Cardinality(H) = n)
Counts ==
  \A s \in States :
    CountedBy(dstate[s].count, dstate[s].lost, HoldersOf(call, atexit, s))

QuietInv == Base /\ Phases /\ Handlers /\ Counts

(* A reference dropped keeps mem->state the only way to the instance.      *)
LEMMA DropsPhases ==
  ASSUME TypeOK, StateShape, Phases, NEW s \in States, dstate[s].count > 0, Drops(s)
  PROVE  /\ mstate' # NULL => mstate' = mstate /\ dstate'[mstate].val
         /\ \A r \in States : dstate'[r].state = "live" /\ dstate'[r].val => mstate' = r
<1>1. /\ dstate[s].count \in Nat /\ dstate[s].count > 0
      /\ dstate'[s].state = IF dstate[s].count = 1 THEN "freed" ELSE "live"
      /\ dstate'[s].val = dstate[s].val
      /\ \A r \in States : r # s => dstate'[r] = dstate[r]
      /\ mstate' = IF dstate[s].count = 1 /\ mstate = s THEN NULL ELSE mstate
  BY Typed DEF Drops, SetsState
<1>2. dstate[s].state = "live"
  BY DEF StateShape
<1> QED
  BY <1>1, <1>2, Typed DEF Phases

(* Every step keeps the phases of the instance.                            *)
LEMMA PhasesStep ==
  ASSUME Contract = "quiet", QuietInv, NEW t \in Threads, Does(t)
  PROVE  Phases'
<1> USE NullAssumption
<1>0. TypeOK /\ Phases /\ StateShape
  BY DEF QuietInv, Base
<1>1. CASE ThreadStartDoes(t)
  BY <1>0, <1>1 DEF ThreadStartDoes, Phases, Freeing, Entered, Holding, Outside, Moves, SetsTid
<1>2. CASE ThreadInitDoes(t)
  <2>1. \A u \in Threads : ~Freeing(u)
    BY <1>2 DEF ThreadInitDoes, Usable, Destroying, Freeing
  <2> QED
    BY <1>0, <1>2, <2>1 DEF ThreadInitDoes, Phases, Freeing, Entered, Holding, Outside,
       Moves, Draws
<1>3. CASE CreateItemDoes(t)
  BY <1>0, <1>3 DEF CreateItemDoes, Phases, Freeing, Entered, Holding, Outside, Moves, SetsItem
<1>4. CASE InsertDoes(t)
  BY <1>0, <1>4 DEF InsertDoes, Phases, Freeing, Entered, Holding, Outside, Moves,
     SetsState, SetsValue
<1>5. CASE InsertFailsDoes(t)
  BY <1>0, <1>5 DEF InsertFailsDoes, Phases, Freeing, Entered, Holding, Outside, Moves, SetsItem
<1>6. CASE ThreadAtexitDoes(t)
  <2>1. \A s \in States : /\ dstate'[s].state = dstate[s].state
                          /\ dstate'[s].val = dstate[s].val
    BY <1>6 DEF ThreadAtexitDoes, SetsState
  <2>2. /\ mstate' = mstate /\ mem' = mem /\ mstate \in States \cup {NULL}
        /\ call'[t].pc = "idle" /\ \A u \in Threads : u # t => call'[u] = call[u]
    BY <1>0, <1>6, Typed DEF ThreadAtexitDoes, Moves
  <2> QED
    BY <1>0, <2>1, <2>2 DEF Phases, Freeing, Entered, Holding, Outside
<1>7. CASE ExitDoes(t)
  BY <1>0, <1>7 DEF ExitDoes, Phases, Freeing, Entered, Holding, Outside, Moves
<1>8. CASE DeinitReadDoes(t)
  <2> DEFINE h == Head(atexit[t])
  <2>1. /\ h \in States /\ dstate[h].count > 0 /\ dstate[h].state = "live"
        /\ call[t].pc = "exiting" /\ mem' = mem
        /\ \A u \in Threads : u # t => call'[u] = call[u]
    BY <1>0, <1>8 DEF DeinitReadDoes, StateShape, Moves
  <2>2. CASE dstate[h].val /\ call'[t].pc = "deinit_lock" /\ UNCHANGED <<dstate, mstate>>
    BY <1>0, <2>1, <2>2 DEF Phases, Freeing, Entered, Holding, Outside
  <2>3. CASE Drops(h) /\ UNCHANGED call
    <3>1. /\ mstate' # NULL => mstate' = mstate /\ dstate'[mstate].val
          /\ \A r \in States : dstate'[r].state = "live" /\ dstate'[r].val => mstate' = r
      BY <1>0, <2>1, <2>3, DropsPhases
    <3> QED
      BY <1>0, <2>1, <2>3, <3>1 DEF Phases, Freeing
  <2> QED
    BY <1>8, <2>2, <2>3 DEF DeinitReadDoes, Moves
<1>9. CASE DeinitLockDoes(t)
  <2>1. /\ mstate' # NULL => mstate' = mstate /\ dstate'[mstate].val
        /\ \A r \in States : dstate'[r].state = "live" /\ dstate'[r].val => mstate' = r
    <3>1. CASE Drops(call[t].state)
      BY <1>0, <1>9, <3>1, DropsPhases DEF DeinitLockDoes
    <3>2. CASE UNCHANGED <<mstate, dstate>>
      BY <1>0, <3>2 DEF Phases
    <3> QED
      BY <1>9, <3>1, <3>2 DEF DeinitLockDoes
  <2>2. /\ call[t].pc = "deinit_lock" /\ call'[t].pc \in {"exiting", "deinit_destroy"}
        /\ mem' = mem /\ \A u \in Threads : u # t => call'[u] = call[u]
    BY <1>9 DEF DeinitLockDoes, Moves
  <2> QED
    BY <1>0, <2>1, <2>2 DEF Phases, Freeing, Entered, Holding, Outside
<1>10. CASE DeinitDestroyDoes(t)
  BY <1>0, <1>10 DEF DeinitDestroyDoes, Phases, Freeing, Entered, Holding, Outside, Moves,
     SetsItem
<1>11. CASE DeinitEraseDoes(t)
  <2>1. /\ mstate' # NULL => mstate' = mstate /\ dstate'[mstate].val
        /\ \A r \in States : dstate'[r].state = "live" /\ dstate'[r].val => mstate' = r
    BY <1>0, <1>11, DropsPhases DEF DeinitEraseDoes
  <2>2. /\ call[t].pc = "deinit_erase" /\ call'[t].pc = "exiting" /\ mem' = mem
        /\ \A u \in Threads : u # t => call'[u] = call[u]
    BY <1>11 DEF DeinitEraseDoes, Moves
  <2> QED
    BY <1>0, <2>1, <2>2 DEF Phases, Freeing, Entered, Holding, Outside
<1>12. CASE DestroyDoes(t)
  <2>1. /\ \A u \in Threads : call[u].pc \in Outside
        /\ mem' = "live" /\ mstate' = NULL
        /\ call'[t].pc = "destroying" /\ \A u \in Threads : u # t => call'[u] = call[u]
    BY <1>12 DEF DestroyDoes, DestroyAllowed, Moves
  <2>2. \A s \in States : ~(dstate'[s].state = "live" /\ dstate'[s].val)
    BY <1>0, <1>12 DEF DestroyDoes, SetsState, Phases
  <2> QED
    BY <2>1, <2>2 DEF Phases, Freeing, Entered, Holding, Outside
<1>13. CASE DestroyEraseDoes(t)
  BY <1>0, <1>13 DEF DestroyEraseDoes, Phases, Freeing, Entered, Holding, Outside, Moves,
     SetsValue
<1>14. CASE DestroyItemDoes(t)
  BY <1>0, <1>14 DEF DestroyItemDoes, Phases, Freeing, Entered, Holding, Outside, Moves,
     SetsItem
<1>15. CASE DestroyDoneDoes(t)
  BY <1>0, <1>15 DEF DestroyDoneDoes, Phases, Freeing, Entered, Holding, Outside, Moves
<1>16. CASE Create(t)
  BY <1>0, <1>16 DEF Create, Phases, Freeing, Entered, Holding, Outside, Moves
<1> QED
  BY <1>1, <1>2, <1>3, <1>4, <1>5, <1>6, <1>7, <1>8,
     <1>9, <1>10, <1>11, <1>12, <1>13, <1>14, <1>15, <1>16 DEF Does

(* Counting a reference, dropping one and losing one.                      *)
LEMMA Counting ==
  ASSUME NEW n \in Nat, NEW l, NEW H, CountedBy(n, l, H), NEW t
  PROVE  /\ t \notin H => CountedBy(n + 1, l, H \cup {t})
         /\ t \in H => n > 0 /\ CountedBy(n - 1, l, H \ {t})
         /\ CountedBy(n, TRUE, H \ {t})
<1>1. IsFiniteSet(H) /\ Cardinality(H) \in Nat
  BY FS_CardinalityType DEF CountedBy
<1>2. t \notin H => /\ IsFiniteSet(H \cup {t})
                    /\ Cardinality(H \cup {t}) = Cardinality(H) + 1
  BY <1>1, FS_AddElement
<1>3. /\ IsFiniteSet(H \ {t}) /\ Cardinality(H \ {t}) \in Nat
      /\ Cardinality(H \ {t}) = IF t \in H THEN Cardinality(H) - 1 ELSE Cardinality(H)
  BY <1>1, FS_RemoveElement, FS_CardinalityType
<1> QED
  BY <1>1, <1>2, <1>3 DEF CountedBy

(* Steps that touch no reference.                                          *)
LEMMA CountsKept ==
  ASSUME Counts,
         \A s \in States : dstate'[s].count = dstate[s].count /\ dstate'[s].lost = dstate[s].lost,
         \A u \in Threads : call'[u].state = call[u].state,
         atexit' = atexit
  PROVE  Counts'
<1>1. ASSUME NEW s \in States
      PROVE  HoldersOf(call', atexit', s) = HoldersOf(call, atexit, s)
  BY DEF HoldersOf
<1> QED
  BY <1>1 DEF Counts

(* Thread t drops the reference it has.                                    *)
LEMMA CountsDrop ==
  ASSUME TypeOK, Counts, NEW t \in Threads, NEW s \in States, Drops(s),
         t \in HoldersOf(call, atexit, s),
         \A r \in States : HoldersOf(call', atexit', r)
                             = HoldersOf(call, atexit, r) \ {t},
         \A r \in States : r # s => t \notin HoldersOf(call, atexit, r)
  PROVE  Counts'
<1>1. ASSUME NEW r \in States
      PROVE  CountedBy(dstate'[r].count, dstate'[r].lost, HoldersOf(call', atexit', r))
  <2> DEFINE H == HoldersOf(call, atexit, r)
             n == dstate[r].count
             l == dstate[r].lost
  <2>1. CountedBy(n, l, H) /\ n \in Nat
    BY Typed DEF Counts
  <2>2. HoldersOf(call', atexit', r) = H \ {t}
    OBVIOUS
  <2>3. CASE r = s
    <3>1. dstate'[r].count = n - 1 /\ dstate'[r].lost = l /\ t \in H
      BY <2>3 DEF Drops, SetsState
    <3> HIDE DEF H, n, l
    <3>2. CountedBy(n - 1, l, H \ {t})
      BY <2>1, <3>1, Counting
    <3> QED
      BY <2>2, <3>1, <3>2
  <2>4. CASE r # s
    <3>1. dstate'[r] = dstate[r] /\ t \notin H
      BY <2>4 DEF Drops, SetsState
    <3>2. H \ {t} = H
      BY <3>1
    <3> QED
      BY <2>1, <2>2, <3>1, <3>2
  <2> QED
    BY <2>3, <2>4
<1> QED
  BY <1>1 DEF Counts

(* Every step keeps the references counted.                                *)
LEMMA CountsStep ==
  ASSUME Contract = "quiet", QuietInv, NEW t \in Threads, Does(t)
  PROVE  Counts'
<1> USE NullAssumption
<1>0. TypeOK /\ Phases /\ StateShape /\ Handlers /\ Counts
  BY DEF QuietInv, Base
<1>1. CASE ThreadStartDoes(t)
  <2>1. \A s \in States : dstate'[s].count = dstate[s].count /\ dstate'[s].lost = dstate[s].lost
    BY <1>1 DEF ThreadStartDoes
  <2>2. \A u \in Threads : call'[u].state = call[u].state
    BY <1>0, <1>1 DEF ThreadStartDoes, Moves, StateShape, Holding
  <2>3. atexit' = atexit
    BY <1>1 DEF ThreadStartDoes
  <2> QED
    BY <1>0, <2>1, <2>2, <2>3, CountsKept
<1>2. CASE ThreadInitDoes(t)
  <2>1. \A s \in States : dstate'[s].count = dstate[s].count /\ dstate'[s].lost = dstate[s].lost
    BY <1>2 DEF ThreadInitDoes
  <2>2. \A u \in Threads : call'[u].state = call[u].state
    BY <1>0, <1>2 DEF ThreadInitDoes, Moves, StateShape, Holding
  <2>3. atexit' = atexit
    BY <1>2 DEF ThreadInitDoes
  <2> QED
    BY <1>0, <2>1, <2>2, <2>3, CountsKept
<1>3. CASE CreateItemDoes(t)
  <2>1. \A s \in States : dstate'[s].count = dstate[s].count /\ dstate'[s].lost = dstate[s].lost
    BY <1>3 DEF CreateItemDoes
  <2>2. \A u \in Threads : call'[u].state = call[u].state
    BY <1>0, <1>3 DEF CreateItemDoes, Moves, StateShape, Holding
  <2>3. atexit' = atexit
    BY <1>3 DEF CreateItemDoes
  <2> QED
    BY <1>0, <2>1, <2>2, <2>3, CountsKept
<1>4. CASE InsertDoes(t)
  <2>1. PICK s \in States :
          /\ \/ mstate = NULL /\ dstate[s].state = "unused"
             \/ mstate # NULL /\ s = mstate
          /\ SetsState(s, "live",
                       IF mstate = NULL THEN 1 ELSE dstate[s].count + 1,
                       TRUE, dstate[s].lost)
          /\ Moves(t, "registering", call[t].item, s)
          /\ mstate' = s
    BY <1>4 DEF InsertDoes
  <2>2. /\ call[t].state = NULL /\ atexit[t] = <<>> /\ atexit' = atexit
        /\ dstate[s].count \in Nat
    BY <1>0, <1>4, Typed DEF InsertDoes, StateShape, Handlers, Holding, Entered
  <2>3. dstate'[s].count = dstate[s].count + 1 /\ dstate'[s].lost = dstate[s].lost
    BY <1>0, <2>1, <2>2 DEF SetsState, StateShape
  <2>4. \A r \in States : /\ t \notin HoldersOf(call, atexit, r)
                          /\ r # s => HoldersOf(call', atexit', r) = HoldersOf(call, atexit, r)
    BY <2>1, <2>2, SingleHandler DEF HoldersOf, Moves
  <2>5. HoldersOf(call', atexit', s) = HoldersOf(call, atexit, s) \cup {t}
    BY <2>1, <2>2, SingleHandler DEF HoldersOf, Moves
  <2>6. CountedBy(dstate'[s].count, dstate'[s].lost, HoldersOf(call', atexit', s))
    <3> DEFINE H == HoldersOf(call, atexit, s)
               n == dstate[s].count
               l == dstate[s].lost
    <3>1. CountedBy(n, l, H) /\ n \in Nat /\ t \notin H
      BY <1>0, <2>2, <2>4 DEF Counts
    <3>2. HoldersOf(call', atexit', s) = H \cup {t}
      BY <2>5
    <3>3. dstate'[s].count = n + 1 /\ dstate'[s].lost = l
      BY <2>3
    <3> HIDE DEF H, n, l
    <3>4. CountedBy(n + 1, l, H \cup {t})
      BY <3>1, Counting
    <3> QED
      BY <3>2, <3>3, <3>4
  <2>7. \A r \in States : r # s => dstate'[r] = dstate[r]
    BY <2>1 DEF SetsState
  <2> QED
    BY <1>0, <2>4, <2>6, <2>7 DEF Counts
<1>5. CASE InsertFailsDoes(t)
  <2>1. \A s \in States : dstate'[s].count = dstate[s].count /\ dstate'[s].lost = dstate[s].lost
    BY <1>5 DEF InsertFailsDoes
  <2>2. \A u \in Threads : call'[u].state = call[u].state
    BY <1>0, <1>5 DEF InsertFailsDoes, Moves, StateShape, Holding
  <2>3. atexit' = atexit
    BY <1>5 DEF InsertFailsDoes
  <2> QED
    BY <1>0, <2>1, <2>2, <2>3, CountsKept
<1>6. CASE ThreadAtexitDoes(t)
  <2> DEFINE s == call[t].state
  <2>1. /\ s \in States /\ s = mstate /\ atexit[t] = <<>>
        /\ call'[t].state = NULL /\ \A u \in Threads : u # t => call'[u] = call[u]
    BY <1>0, <1>6 DEF ThreadAtexitDoes, Moves, Handlers, Holding, Entered
  <2>2. CASE SetsHandlers(t, <<mstate>> \o atexit[t]) /\ UNCHANGED dstate
    <3>1. atexit'[t] = <<s>> /\ \A u \in Threads : u # t => atexit'[u] = atexit[u]
      BY <2>1, <2>2, SingleHandler DEF SetsHandlers
    <3>2. ASSUME NEW r \in States
          PROVE  HoldersOf(call', atexit', r) = HoldersOf(call, atexit, r)
      BY <2>1, <3>1 DEF HoldersOf
    <3> QED
      BY <1>0, <2>2, <3>2 DEF Counts
  <2>3. CASE /\ UNCHANGED atexit
             /\ SetsState(s, dstate[s].state, dstate[s].count, dstate[s].val, TRUE)
    <3>1. /\ dstate'[s].count = dstate[s].count /\ dstate'[s].lost = TRUE
          /\ \A r \in States : r # s => dstate'[r] = dstate[r]
      BY <2>3 DEF SetsState
    <3>2. ASSUME NEW r \in States
          PROVE  HoldersOf(call', atexit', r)
                   = IF r = s THEN HoldersOf(call, atexit, r) \ {t}
                              ELSE HoldersOf(call, atexit, r)
      BY <2>1, <2>3 DEF HoldersOf
    <3>3. CountedBy(dstate[s].count, TRUE, HoldersOf(call, atexit, s) \ {t})
      BY <1>0, <2>1, Typed, Counting DEF Counts
    <3> HIDE DEF s
    <3> QED
      BY <1>0, <3>1, <3>2, <3>3 DEF Counts
  <2> QED
    BY <1>6, <2>2, <2>3 DEF ThreadAtexitDoes
<1>7. CASE ExitDoes(t)
  <2>1. \A s \in States : dstate'[s].count = dstate[s].count /\ dstate'[s].lost = dstate[s].lost
    BY <1>7 DEF ExitDoes
  <2>2. \A u \in Threads : call'[u].state = call[u].state
    BY <1>0, <1>7 DEF ExitDoes, Moves, StateShape, Holding
  <2>3. atexit' = atexit
    BY <1>7 DEF ExitDoes
  <2> QED
    BY <1>0, <2>1, <2>2, <2>3, CountsKept
<1>8. CASE DeinitReadDoes(t)
  <2> DEFINE s == Head(atexit[t])
  <2>1. /\ s \in States /\ call[t].state = NULL
        /\ \A u \in Threads : u # t => call'[u] = call[u] /\ atexit'[u] = atexit[u]
    BY <1>0, <1>8 DEF DeinitReadDoes, Moves, SetsHandlers, StateShape, Holding
  <2>2. atexit[t] = <<s>> /\ atexit'[t] = <<>>
    <3>1. PICK r \in States : atexit[t] = <<r>>
      BY <1>0, <1>8 DEF DeinitReadDoes, Handlers
    <3>2. r = s /\ Tail(atexit[t]) = <<>>
      BY <3>1, SingleHandler
    <3> QED
      BY <1>8, <3>1, <3>2 DEF DeinitReadDoes, SetsHandlers
  <2>3. \A r \in States : t \in HoldersOf(call, atexit, r) <=> r = s
    BY <2>1, <2>2 DEF HoldersOf
  <2> HIDE DEF s
  <2>4. CASE Moves(t, "deinit_lock", NULL, s) /\ UNCHANGED <<dstate, mstate>>
    <3>1. ASSUME NEW r \in States
          PROVE  HoldersOf(call', atexit', r) = HoldersOf(call, atexit, r)
      BY <2>1, <2>2, <2>4 DEF HoldersOf, Moves
    <3> QED
      BY <1>0, <2>4, <3>1 DEF Counts
  <2>5. CASE Drops(s) /\ UNCHANGED call
    <3>1. ASSUME NEW r \in States
          PROVE  HoldersOf(call', atexit', r) = HoldersOf(call, atexit, r) \ {t}
      BY <2>1, <2>2, <2>5 DEF HoldersOf
    <3> QED
      BY <1>0, <2>1, <2>3, <2>5, <3>1, CountsDrop
  <2> QED
    BY <1>8, <2>4, <2>5 DEF DeinitReadDoes, s
<1>9. CASE DeinitLockDoes(t)
  <2> DEFINE s == call[t].state
  <2>1. s \in States /\ atexit[t] = <<>> /\ atexit' = atexit
    BY <1>0, <1>9 DEF DeinitLockDoes, Handlers, Entered, Holding
  <2>2. \A r \in States : t \in HoldersOf(call, atexit, r) <=> r = s
    BY <2>1 DEF HoldersOf
  <2>3. ASSUME Drops(s), Moves(t, "exiting", NULL, NULL)
        PROVE  Counts'
    <3>1. ASSUME NEW r \in States
          PROVE  HoldersOf(call', atexit', r) = HoldersOf(call, atexit, r) \ {t}
      BY <2>1, <2>3 DEF HoldersOf, Moves
    <3> HIDE DEF s
    <3> QED
      BY <1>0, <2>1, <2>2, <2>3, <3>1, CountsDrop
  <2>4. ASSUME UNCHANGED <<mstate, dstate>>,
               Moves(t, "deinit_destroy", tls[KeyOf(generation[t], tid[t])], s)
        PROVE  Counts'
    <3>1. \A u \in Threads : call'[u].state = call[u].state
      BY <2>4 DEF Moves
    <3> QED
      BY <1>0, <2>1, <2>4, <3>1, CountsKept
  <2> QED
    BY <1>9, <2>3, <2>4 DEF DeinitLockDoes
<1>10. CASE DeinitDestroyDoes(t)
  <2>1. \A s \in States : dstate'[s].count = dstate[s].count /\ dstate'[s].lost = dstate[s].lost
    BY <1>10 DEF DeinitDestroyDoes
  <2>2. \A u \in Threads : call'[u].state = call[u].state
    BY <1>0, <1>10 DEF DeinitDestroyDoes, Moves, StateShape, Holding
  <2>3. atexit' = atexit
    BY <1>10 DEF DeinitDestroyDoes
  <2> QED
    BY <1>0, <2>1, <2>2, <2>3, CountsKept
<1>11. CASE DeinitEraseDoes(t)
  <2> DEFINE s == call[t].state
  <2>1. s \in States /\ atexit[t] = <<>> /\ atexit' = atexit
    BY <1>0, <1>11 DEF DeinitEraseDoes, Handlers, Entered, Holding
  <2>2. \A r \in States : t \in HoldersOf(call, atexit, r) <=> r = s
    BY <2>1 DEF HoldersOf
  <2>3. ASSUME Drops(s), Moves(t, "exiting", NULL, NULL)
        PROVE  Counts'
    <3>1. ASSUME NEW r \in States
          PROVE  HoldersOf(call', atexit', r) = HoldersOf(call, atexit, r) \ {t}
      BY <2>1, <2>3 DEF HoldersOf, Moves
    <3> HIDE DEF s
    <3> QED
      BY <1>0, <2>1, <2>2, <2>3, <3>1, CountsDrop
  <2> QED
    BY <1>11, <2>3 DEF DeinitEraseDoes
<1>12. CASE DestroyDoes(t)
  <2>1. \A s \in States : dstate'[s].count = dstate[s].count /\ dstate'[s].lost = dstate[s].lost
    BY <1>12 DEF DestroyDoes, SetsState
  <2>2. \A u \in Threads : call'[u].state = call[u].state
    BY <1>0, <1>12 DEF DestroyDoes, Moves, StateShape, Holding
  <2>3. atexit' = atexit
    BY <1>12 DEF DestroyDoes
  <2> QED
    BY <1>0, <2>1, <2>2, <2>3, CountsKept
<1>13. CASE DestroyEraseDoes(t)
  <2>1. \A s \in States : dstate'[s].count = dstate[s].count /\ dstate'[s].lost = dstate[s].lost
    BY <1>13 DEF DestroyEraseDoes
  <2>2. \A u \in Threads : call'[u].state = call[u].state
    BY <1>0, <1>13 DEF DestroyEraseDoes, Moves, StateShape, Holding
  <2>3. atexit' = atexit
    BY <1>13 DEF DestroyEraseDoes
  <2> QED
    BY <1>0, <2>1, <2>2, <2>3, CountsKept
<1>14. CASE DestroyItemDoes(t)
  <2>1. \A s \in States : dstate'[s].count = dstate[s].count /\ dstate'[s].lost = dstate[s].lost
    BY <1>14 DEF DestroyItemDoes
  <2>2. \A u \in Threads : call'[u].state = call[u].state
    BY <1>0, <1>14 DEF DestroyItemDoes, Moves, StateShape, Holding
  <2>3. atexit' = atexit
    BY <1>14 DEF DestroyItemDoes
  <2> QED
    BY <1>0, <2>1, <2>2, <2>3, CountsKept
<1>15. CASE DestroyDoneDoes(t)
  <2>1. \A s \in States : dstate'[s].count = dstate[s].count /\ dstate'[s].lost = dstate[s].lost
    BY <1>15 DEF DestroyDoneDoes
  <2>2. \A u \in Threads : call'[u].state = call[u].state
    BY <1>0, <1>15 DEF DestroyDoneDoes, Moves, StateShape, Holding
  <2>3. atexit' = atexit
    BY <1>15 DEF DestroyDoneDoes
  <2> QED
    BY <1>0, <2>1, <2>2, <2>3, CountsKept
<1>16. CASE Create(t)
  <2>1. \A s \in States : dstate'[s].count = dstate[s].count /\ dstate'[s].lost = dstate[s].lost
    BY <1>16 DEF Create
  <2>2. \A u \in Threads : call'[u].state = call[u].state
    BY <1>0, <1>16 DEF Create, Moves, StateShape, Holding
  <2>3. atexit' = atexit
    BY <1>16 DEF Create
  <2> QED
    BY <1>0, <2>1, <2>2, <2>3, CountsKept
<1> QED
  BY <1>1, <1>2, <1>3, <1>4, <1>5, <1>6, <1>7, <1>8,
     <1>9, <1>10, <1>11, <1>12, <1>13, <1>14, <1>15, <1>16 DEF Does

(* Two threads that have not exited have different keys.                   *)
LEMMA KeysApart ==
  ASSUME TypeOK, Ids, NEW t \in Threads, NEW u \in Threads, t # u,
         call[t].pc \notin {"unborn", "exited"}, call[u].pc \notin {"unborn", "exited"}
  PROVE  KeyOf(generation[t], tid[t]) # KeyOf(generation[u], tid[u])
<1>1. tid[t] # tid[u]
  BY NullAssumption DEF Ids
<1> QED
  BY <1>1, KeysOfTids

(* With two references the count is not one.                               *)
LEMMA NotTheLast ==
  ASSUME TypeOK, Counts, NEW s \in States, NEW t \in Threads, NEW u \in Threads, t # u,
         t \in HoldersOf(call, atexit, s), u \in HoldersOf(call, atexit, s)
  PROVE  dstate[s].count # 1
<1> DEFINE H == HoldersOf(call, atexit, s)
           n == dstate[s].count
           l == dstate[s].lost
<1>1. CountedBy(n, l, H) /\ n \in Nat /\ t \in H /\ u \in H \ {t}
  BY Typed DEF Counts
<1> HIDE DEF H, n, l
<1>2. n > 0 /\ CountedBy(n - 1, l, H \ {t})
  BY <1>1, Counting
<1>3. n - 1 \in Nat
  BY <1>1, <1>2
<1>4. n - 1 > 0
  BY <1>1, <1>2, <1>3, Counting
<1> QED
  BY <1>1, <1>4 DEF n

(* Every step keeps a thread's handler in step with its value.             *)
LEMMA HandlersStep ==
  ASSUME Contract = "quiet", QuietInv, NEW t \in Threads, Does(t)
  PROVE  Handlers'
<1> USE NullAssumption
<1>0. TypeOK /\ Ids /\ Owners /\ Phases /\ StateShape /\ Handlers /\ Counts
  BY DEF QuietInv, Base
<1>1. CASE ThreadStartDoes(t)
  BY <1>0, <1>1 DEF ThreadStartDoes, Handlers, Ids, Freeing, Entered, Holding, Phases,
     Outside, Moves, SetsTid
<1>2. CASE ThreadInitDoes(t)
  <2>1. PICK g \in Nat \ {0} :
          /\ Draws(t, g)
          /\ \/ /\ tls[KeyOf(g, tid[t])] = NULL
                /\ Moves(t, "creating", call[t].item, call[t].state)
             \/ UNCHANGED call
    BY <1>2 DEF ThreadInitDoes
  <2>2. /\ call[t].pc = "idle" /\ mem = "live" /\ \A u \in Threads : ~Freeing(u)
        /\ UNCHANGED <<mem, mstate, tls, tid, atexit>>
    BY <1>2 DEF ThreadInitDoes, Usable, Destroying, Freeing
  <2>3. /\ generation'[t] = g
        /\ \A u \in Threads : u # t => call'[u] = call[u] /\ generation'[u] = generation[u]
        /\ call'[t].state = call[t].state
    BY <2>1 DEF Draws, Moves
  <2>4. \/ tls[KeyOf(g, tid[t])] = NULL /\ call'[t].pc = "creating"
        \/ call'[t].pc = "idle"
    BY <2>1, <2>2 DEF Moves
  <2>5. atexit[t] # <<>> => /\ g = generation[t]
                            /\ tls[KeyOf(generation[t], tid[t])] # NULL
    BY <1>0, <2>1, <2>2 DEF Draws, Ids, Handlers
  <2>6. \A u \in Threads : /\ call'[u].pc \in Holding => call'[u].state = mstate
                           /\ call'[u].pc \in Entered => atexit[u] = <<>>
                           /\ call'[u].pc \in {"creating", "inserting"} =>
                                tls[KeyOf(generation'[u], tid[u])] = NULL
    BY <1>0, <2>2, <2>3, <2>4, <2>5 DEF Handlers, Holding, Entered
  <2>7. \A u \in Threads : call'[u].pc \in Holding \/ atexit[u] # <<>> =>
          tls[KeyOf(generation'[u], tid[u])] # NULL
    BY <1>0, <2>2, <2>3, <2>4, <2>5 DEF Handlers, Holding
  <2> QED
    BY <1>0, <2>2, <2>6, <2>7 DEF Handlers
<1>3. CASE CreateItemDoes(t)
  BY <1>0, <1>3 DEF CreateItemDoes, Handlers, Ids, Freeing, Entered, Holding, Phases,
     Outside, Moves, SetsItem
<1>4. CASE InsertDoes(t)
  <2> DEFINE k == KeyOf(generation[t], tid[t])
  <2>1. /\ call[t].pc = "inserting" /\ call[t].item \in Items /\ k \in Keys
        /\ SetsValue(k, call[t].item)
        /\ UNCHANGED <<mem, tid, generation, atexit>>
    BY <1>0, <1>4 DEF InsertDoes, Owners
  <2>2. PICK s \in States : /\ mstate # NULL => s = mstate
                            /\ Moves(t, "registering", call[t].item, s)
                            /\ mstate' = s
    BY <1>4 DEF InsertDoes
  <2>3. \A u \in Threads : call'[u].pc \in Holding => call'[u].state = s
    BY <1>0, <2>2 DEF Moves, Handlers, StateShape
  <2>4. \A u \in Threads : u # t /\ call[u].pc \notin {"unborn", "exited"} =>
          KeyOf(generation[u], tid[u]) # k
    BY <1>0, <2>1, KeysApart
  <2>5. \A u \in Threads : atexit[u] # <<>> => call[u].pc \notin {"unborn", "exited"}
    BY <1>0 DEF Ids
  <2>6. \A u \in Threads : call[u].pc \notin {"unborn", "exited"} =>
          KeyOf(generation[u], tid[u]) \in Keys
    BY <1>0, KeysTyped, Typed DEF Ids
  <2>7. /\ call'[t].pc = "registering" /\ \A u \in Threads : u # t => call'[u] = call[u]
        /\ tls'[k] # NULL /\ \A j \in Keys : j # k => tls'[j] = tls[j]
    BY <2>1, <2>2 DEF Moves, SetsValue
  <2>8. ASSUME NEW u \in Threads, u # t
        PROVE  /\ call'[u].pc \in {"creating", "inserting"} =>
                    tls'[KeyOf(generation[u], tid[u])] = NULL
               /\ tls[KeyOf(generation[u], tid[u])] # NULL /\
                  (call'[u].pc \in Holding \/ atexit[u] # <<>>) =>
                    tls'[KeyOf(generation[u], tid[u])] # NULL
    BY <1>0, <2>4, <2>5, <2>6, <2>7, <2>8 DEF Handlers, Holding
  <2>9. (\A u \in Threads : ~Freeing(u)') => \A u \in Threads : ~Freeing(u)
    BY <2>1, <2>7 DEF Freeing
  <2> HIDE DEF k
  <2>10. /\ \A u \in Threads :
            /\ call'[u].pc \in Entered => atexit'[u] = <<>>
            /\ call'[u].pc \in {"creating", "inserting"} =>
                 tls'[KeyOf(generation[u], tid[u])] = NULL
         /\ mem = "live" /\ (\A u \in Threads : ~Freeing(u)') =>
             \A u \in Threads : call'[u].pc \in Holding \/ atexit[u] # <<>> =>
               tls'[KeyOf(generation[u], tid[u])] # NULL
    BY <1>0, <2>1, <2>7, <2>8, <2>9 DEF Handlers, Entered, k
  <2>11. mstate' = s
    BY <2>2
  <2> QED
    BY <1>0, <2>1, <2>3, <2>10, <2>11 DEF Handlers
<1>5. CASE InsertFailsDoes(t)
  BY <1>0, <1>5 DEF InsertFailsDoes, Handlers, Ids, Freeing, Entered, Holding, Phases,
     Outside, Moves, SetsItem
<1>6. CASE ThreadAtexitDoes(t)
  BY <1>0, <1>6 DEF ThreadAtexitDoes, Handlers, Ids, Freeing, Entered, Holding, Phases,
     Outside, Moves, SetsHandlers, SetsState
<1>7. CASE ExitDoes(t)
  BY <1>0, <1>7 DEF ExitDoes, Handlers, Ids, Freeing, Entered, Holding, Phases, Outside, Moves
<1>8. CASE DeinitReadDoes(t)
  <2> DEFINE s == Head(atexit[t])
  <2>1. /\ s \in States /\ dstate[s].count > 0 /\ dstate[s].state = "live"
        /\ call[t].pc = "exiting" /\ atexit[t] # <<>>
        /\ UNCHANGED <<mem, tls, tid, generation>>
        /\ \A u \in Threads : u # t => call'[u] = call[u] /\ atexit'[u] = atexit[u]
    BY <1>0, <1>8 DEF DeinitReadDoes, Moves, SetsHandlers, StateShape
  <2>2. atexit'[t] = <<>>
    <3>1. PICK r \in States : atexit[t] = <<r>>
      BY <1>0, <2>1 DEF Handlers
    <3>2. Tail(atexit[t]) = <<>>
      BY <3>1, SingleHandler
    <3> QED
      BY <1>8, <3>2 DEF DeinitReadDoes, SetsHandlers
  <2>3. mstate' = mstate
    BY <1>0, <1>8, <2>1 DEF DeinitReadDoes, Drops, Phases
  <2>4. \/ call'[t].pc = "deinit_lock" /\ call'[t].state = mstate
        \/ call'[t].pc = "exiting"
    <3>1. CASE dstate[s].val /\ Moves(t, "deinit_lock", NULL, s)
      <4>1. s = mstate
        BY <1>0, <2>1, <3>1 DEF Phases
      <4> QED
        BY <3>1, <4>1 DEF Moves
    <3> QED
      BY <1>8, <2>1, <3>1 DEF DeinitReadDoes
  <2> HIDE DEF s
  <2>5. \A u \in Threads : Freeing(u)' <=> Freeing(u)
    BY <2>1, <2>4 DEF Freeing
  <2> QED
    BY <1>0, <2>1, <2>2, <2>3, <2>4, <2>5 DEF Handlers, Entered, Holding
<1>9. CASE DeinitLockDoes(t)
  BY <1>0, <1>9 DEF DeinitLockDoes, Handlers, Ids, Freeing, Entered, Holding, Phases,
     Outside, Moves, Drops, SetsState
<1>10. CASE DeinitDestroyDoes(t)
  BY <1>0, <1>10 DEF DeinitDestroyDoes, Handlers, Ids, Freeing, Entered, Holding, Phases,
     Outside, Moves, SetsItem
<1>11. CASE DeinitEraseDoes(t)
  <2> DEFINE k == KeyOf(generation[t], tid[t])
  <2>1. /\ call[t].pc = "deinit_erase" /\ k \in Keys /\ call[t].state \in States
        /\ SetsValue(k, NULL) /\ Drops(call[t].state)
        /\ UNCHANGED <<mem, tid, generation, atexit>>
        /\ call'[t].pc = "exiting" /\ \A u \in Threads : u # t => call'[u] = call[u]
    BY <1>11 DEF DeinitEraseDoes, Moves
  <2>2. atexit[t] = <<>> /\ call[t].state = mstate
    BY <1>0, <2>1 DEF Handlers, Holding, Entered
  <2>3. ASSUME NEW u \in Threads, u # t, call[u].pc \in Holding
        PROVE  mstate' = mstate
    <3>1. call[u].state = mstate
      BY <1>0, <2>3 DEF Handlers
    <3>2. t \in HoldersOf(call, atexit, mstate) /\ u \in HoldersOf(call, atexit, mstate)
      BY <2>2, <3>1 DEF HoldersOf
    <3>3. dstate[mstate].count # 1
      BY <1>0, <2>1, <2>2, <2>3, <3>2, NotTheLast
    <3> QED
      BY <2>1, <2>2, <3>3 DEF Drops
  <2>4. \A u \in Threads : u # t /\ call[u].pc \notin {"unborn", "exited"} =>
          KeyOf(generation[u], tid[u]) # k
    BY <1>0, <2>1, KeysApart
  <2>5. \A u \in Threads : atexit[u] # <<>> => call[u].pc \notin {"unborn", "exited"}
    BY <1>0 DEF Ids
  <2>6. \A u \in Threads : call[u].pc \notin {"unborn", "exited"} =>
          KeyOf(generation[u], tid[u]) \in Keys
    BY <1>0, KeysTyped, Typed DEF Ids
  <2>7. \A j \in Keys : j # k => tls'[j] = tls[j]
    BY <2>1 DEF SetsValue
  <2>8. ASSUME NEW u \in Threads, u # t
        PROVE  /\ call'[u].pc \in {"creating", "inserting"} =>
                    tls'[KeyOf(generation[u], tid[u])] = NULL
               /\ tls[KeyOf(generation[u], tid[u])] # NULL /\
                  (call'[u].pc \in Holding \/ atexit[u] # <<>>) =>
                    tls'[KeyOf(generation[u], tid[u])] # NULL
    BY <1>0, <2>1, <2>4, <2>5, <2>6, <2>7, <2>8 DEF Handlers, Holding
  <2>9. (\A u \in Threads : ~Freeing(u)') => \A u \in Threads : ~Freeing(u)
    BY <2>1 DEF Freeing
  <2> HIDE DEF k
  <2>10. /\ \A u \in Threads :
            /\ call'[u].pc \in Holding => call'[u].state = mstate'
            /\ call'[u].pc \in Entered => atexit'[u] = <<>>
            /\ call'[u].pc \in {"creating", "inserting"} =>
                 tls'[KeyOf(generation[u], tid[u])] = NULL
         /\ mem = "live" /\ (\A u \in Threads : ~Freeing(u)') =>
             \A u \in Threads : call'[u].pc \in Holding \/ atexit[u] # <<>> =>
               tls'[KeyOf(generation[u], tid[u])] # NULL
    BY <1>0, <2>1, <2>2, <2>3, <2>8, <2>9 DEF Handlers, Entered, Holding
  <2> QED
    BY <1>0, <2>1, <2>10 DEF Handlers
<1>12. CASE DestroyDoes(t)
  <2>1. /\ \A u \in Threads : call[u].pc \in Outside
        /\ call'[t].pc = "destroying" /\ \A u \in Threads : u # t => call'[u] = call[u]
        /\ UNCHANGED <<mem, tls, generation, tid, atexit>>
    BY <1>12 DEF DestroyDoes, DestroyAllowed, Moves
  <2> QED
    BY <1>0, <2>1 DEF Handlers, Freeing, Entered, Holding, Outside
<1>13. CASE DestroyEraseDoes(t)
  BY <1>0, <1>13 DEF DestroyEraseDoes, Handlers, Ids, Freeing, Entered, Holding, Phases,
     Outside, Moves, SetsValue
<1>14. CASE DestroyItemDoes(t)
  BY <1>0, <1>14 DEF DestroyItemDoes, Handlers, Ids, Freeing, Entered, Holding, Phases,
     Outside, Moves, SetsItem
<1>15. CASE DestroyDoneDoes(t)
  BY <1>0, <1>15 DEF DestroyDoneDoes, Handlers, Ids, Freeing, Entered, Holding, Phases,
     Outside, Moves
<1>16. CASE Create(t)
  BY <1>0, <1>16 DEF Create, Handlers, Ids, Freeing, Entered, Holding, Phases, Outside, Moves
<1> QED
  BY <1>1, <1>2, <1>3, <1>4, <1>5, <1>6, <1>7, <1>8,
     <1>9, <1>10, <1>11, <1>12, <1>13, <1>14, <1>15, <1>16 DEF Does

(* Every step keeps QuietInv.                                              *)
LEMMA QuietNext ==
  ASSUME Contract = "quiet", QuietInv, [Next]_vars
  PROVE  QuietInv'
<1>0. Base /\ Phases /\ Handlers /\ Counts
  BY DEF QuietInv
<1>1. Base'
  BY <1>0, BaseNext
<1>2. CASE UNCHANGED vars
  <2>1. UNCHANGED <<mem, mstate, tls, dstate, tid, generation, atexit, call>>
    BY <1>2 DEF vars
  <2>2. Phases'
    BY <1>0, <2>1 DEF Phases, Freeing
  <2>3. Handlers'
    BY <1>0, <2>1 DEF Handlers, Freeing
  <2>4. Counts'
    BY <1>0, <2>1 DEF Counts
  <2> QED
    BY <1>1, <2>2, <2>3, <2>4 DEF QuietInv
<1>3. ASSUME NEW t \in Threads, Does(t)
      PROVE  QuietInv'
  BY <1>1, <1>3, PhasesStep, HandlersStep, CountsStep DEF QuietInv
<1> QED
  BY <1>0, <1>2, <1>3, StepEffect

(* QuietInv holds before the first step.                                   *)
LEMMA QuietInit == Init => QuietInv
<1> SUFFICES ASSUME Init PROVE QuietInv
  OBVIOUS
<1>1. /\ \A t \in Threads : call[t].pc = "unborn" /\ call[t].state = NULL
      /\ \A t \in Threads : atexit[t] = <<>>
      /\ mstate = NULL /\ mem = "none"
  BY DEF Init, Idle
<1>2. \A s \in States : /\ dstate[s].state = "unused" /\ dstate[s].count = 0
                        /\ ~dstate[s].lost
  BY DEF Init
<1>3. Phases
  BY <1>1, <1>2 DEF Phases, Freeing, Entered, Holding, Outside
<1>4. Handlers
  BY <1>1 DEF Handlers, Holding, Entered
<1>5. \A s \in States : HoldersOf(call, atexit, s) = {}
  BY <1>1, NullAssumption, SingleHandler DEF HoldersOf
<1>6. Counts
  BY <1>2, <1>5, FS_EmptySet DEF Counts, CountedBy
<1> QED
  BY <1>3, <1>4, <1>6, BaseInit DEF QuietInv

(* QuietInv is an invariant when destroy() is called in a quiet moment.    *)
LEMMA QuietInvariant ==
  ASSUME Contract = "quiet"
  PROVE  Spec => []QuietInv
<1>1. QuietInv /\ [Next]_vars => QuietInv'
  BY QuietNext
<1> QED
  BY <1>1, QuietInit, PTL DEF Spec

(* A reference that a thread or one of its handlers has is counted.        *)
LEMMA HeldIsLive ==
  ASSUME QuietInv, NEW s \in States, NEW t \in Threads,
         t \in HoldersOf(call, atexit, s)
  PROVE  dstate[s].state = "live"
<1> DEFINE H == HoldersOf(call, atexit, s)
           n == dstate[s].count
           l == dstate[s].lost
<1>1. CountedBy(n, l, H) /\ n \in Nat /\ t \in H
  BY Typed DEF QuietInv, Base, Counts
<1> HIDE DEF H, n, l
<1>2. n > 0
  BY <1>1, Counting
<1> QED
  BY <1>2 DEF n, QuietInv, Base, StateShape

(* If destroy() is called while no thread is inside thread_init() or       *)
(* deinit(), no thread inside the library and no exit handler still to run *)
(* has a pointer to freed memory, however the exits interleave and even    *)
(* where registrations failed.                                             *)
THEOREM StorageNotFreed ==
  ASSUME Contract = "quiet"
  PROVE  Spec => []NoUseAfterFree
<1>1. QuietInv => NoUseAfterFree
  <2> SUFFICES ASSUME QuietInv, NEW t \in Threads
               PROVE  /\ ~(mem = "freed" /\ call[t].pc \in Entered)
                      /\ call[t].state # NULL => dstate[call[t].state].state # "freed"
                      /\ \A s \in ToSet(atexit[t]) :
                           s # NULL /\ dstate[s].state # "freed"
    BY DEF NoUseAfterFree, UseAfterFree, Entered, Holding
  <2>0. TypeOK /\ Phases /\ Handlers
    BY DEF QuietInv, Base
  <2>1. ~(mem = "freed" /\ call[t].pc \in Entered)
    BY <2>0 DEF Phases
  <2>2. ASSUME call[t].state # NULL
        PROVE  dstate[call[t].state].state # "freed"
    <3> DEFINE s == call[t].state
    <3>1. s \in States /\ t \in HoldersOf(call, atexit, s)
      BY <2>0, <2>2, Typed DEF HoldersOf
    <3> HIDE DEF s
    <3>2. dstate[s].state = "live"
      BY <3>1, HeldIsLive
    <3> QED
      BY <3>2 DEF s
  <2>3. ASSUME NEW s \in ToSet(atexit[t])
        PROVE  s # NULL /\ dstate[s].state # "freed"
    <3>1. atexit[t] # <<>>
      BY DEF ToSet
    <3>2. PICK r \in States : atexit[t] = <<r>>
      BY <2>0, <3>1 DEF Handlers
    <3>3. s = r
      BY <3>2, SingleHandler
    <3>4. dstate[r].state = "live"
      BY <3>2, HeldIsLive DEF HoldersOf
    <3> QED
      BY <3>3, <3>4, NullAssumption
  <2> QED
    BY <2>1, <2>2, <2>3
<1> QED
  BY <1>1, QuietInvariant, PTL

-----------------------------------------------------------------------------
(* The values: where each one is, and how often it was destroyed.          *)

(* The value of the exiting thread with key k is destroyed and not yet     *)
(* erased from the map.                                                    *)
ErasingAt(k) ==
  \E t \in Threads : call[t].pc = "deinit_erase" /\ KeyOf(generation[t], tid[t]) = k

(* A thread has value i and no key of the map has it.                      *)
Carries(t, i) == call[t].item = i /\ call[t].pc \in {"inserting", "destroy_item"}

(* A value in the map is live, except while its thread erases it.          *)
MappedLive ==
  \A k \in Keys : tls[k] # NULL => item[tls[k]].state = "live" \/ ErasingAt(k)
(* A value a thread is about to insert or destroy is live.                 *)
CarriedLive ==
  \A t \in Threads : call[t].pc \in {"inserting", "destroy_item", "deinit_destroy"} =>
    item[call[t].item].state = "live"
(* A value about to be erased by its thread is destroyed.                  *)
ErasedDestroyed ==
  \A t \in Threads : call[t].pc = "deinit_erase" =>
    item[call[t].item].state = "destroyed"
(* The value an exiting thread works on is the one under its key.          *)
OwnKey ==
  \A t \in Threads : call[t].pc \in {"deinit_destroy", "deinit_erase"} =>
    tls[KeyOf(generation[t], tid[t])] = call[t].item
(* A value being inserted, or taken out by destroy(), is under no key.     *)
CarriedUnmapped ==
  \A t \in Threads : call[t].pc \in {"inserting", "destroy_item"} =>
    \A k \in Keys : tls[k] # call[t].item
(* A value is destroyed once if it is destroyed, and else never.           *)
DestroysCounted ==
  \A i \in Items : item[i].destroys = IF item[i].state = "destroyed" THEN 1 ELSE 0
(* A live value is in the map or carried by a thread.                      *)
LivePlaced ==
  \A i \in Items : item[i].state = "live" =>
    (\E k \in Keys : tls[k] = i) \/ \E t \in Threads : Carries(t, i)
(* A freed instance has no value in its map.                               *)
FreedEmpty == mem = "freed" => \A k \in Keys : tls[k] = NULL

Values ==
  /\ MappedLive /\ CarriedLive /\ ErasedDestroyed /\ OwnKey /\ CarriedUnmapped
  /\ DestroysCounted /\ LivePlaced /\ FreedEmpty

ValueInv == QuietInv /\ Values

(* A value is under one key.                                               *)
LEMMA OneKey ==
  ASSUME Owners, NEW k \in Keys, NEW j \in Keys, tls[k] = tls[j], tls[k] # NULL
  PROVE  k = j
  BY DEF Owners, Owned

(* The threads of which the values are known to be live or destroyed.      *)
Special == {"inserting", "destroy_item", "deinit_destroy", "deinit_erase"}

(* Steps that touch no value.                                              *)
LEMMA ValuesKept ==
  ASSUME Values, NEW t \in Threads,
         UNCHANGED <<mem, tls, item, generation, tid>>,
         \A u \in Threads : u # t => call'[u] = call[u],
         call[t].pc \notin Special, call'[t].pc \notin Special
  PROVE  Values'
<1> USE DEF Values, Special
<1>1. MappedLive'
  BY DEF MappedLive, ErasingAt
<1>2. CarriedLive' /\ ErasedDestroyed' /\ OwnKey' /\ CarriedUnmapped'
  BY DEF CarriedLive, ErasedDestroyed, OwnKey, CarriedUnmapped
<1>3. DestroysCounted' /\ FreedEmpty'
  BY DEF DestroysCounted, FreedEmpty
<1>4. LivePlaced'
  BY DEF LivePlaced, Carries
<1> QED
  BY <1>1, <1>2, <1>3, <1>4

(* Every step keeps the values where Values says.                          *)
LEMMA ValuesStep ==
  ASSUME Contract = "quiet", ValueInv, NEW t \in Threads, Does(t)
  PROVE  Values'
<1> USE NullAssumption
<1>0. TypeOK /\ Ids /\ Owners /\ Phases /\ StateShape /\ Handlers /\ Values
  BY DEF ValueInv, QuietInv, Base
<1>00. /\ MappedLive /\ CarriedLive /\ ErasedDestroyed /\ OwnKey /\ CarriedUnmapped
       /\ DestroysCounted /\ LivePlaced /\ FreedEmpty
  BY <1>0 DEF Values
<1>01. ASSUME NEW u \in Threads, u # t, call[t].pc \notin {"unborn", "exited"},
              call[u].pc \notin {"unborn", "exited"}
       PROVE  KeyOf(generation[u], tid[u]) # KeyOf(generation[t], tid[t])
  BY <1>0, <1>01, KeysApart
<1>02. ASSUME NEW u \in Threads, call[u].pc \notin {"unborn", "exited"}
       PROVE  KeyOf(generation[u], tid[u]) \in Keys
  BY <1>0, <1>02, KeysTyped, Typed DEF Ids
<1>03. \A k \in Keys : tls[k] \in Items \cup {NULL}
  BY <1>0, Typed
<1>04. \A u \in Threads :
         call[u].pc \in {"inserting", "destroy_item", "deinit_destroy"} =>
           call[u].item \in Items
  BY <1>0 DEF Owners
<1>05. ASSUME NEW u \in Threads, u # t,
              call[t].pc \in {"inserting", "destroy_item", "deinit_destroy"},
              call[u].pc \in {"inserting", "destroy_item", "deinit_destroy"}
       PROVE  call[u].item # call[t].item
  <2>1. call[t].pc # "destroy_item" /\ call[u].pc # "destroy_item"
    BY <1>0, <1>05 DEF Phases, Freeing, Outside
  <2>2. /\ KeyOf(generation[t], tid[t]) \in Keys /\ KeyOf(generation[u], tid[u]) \in Keys
        /\ KeyOf(generation[u], tid[u]) # KeyOf(generation[t], tid[t])
        /\ call[t].item # NULL
    BY <1>01, <1>02, <1>04, <1>05
  <2>3. CASE call[t].pc = "inserting" /\ call[u].pc = "inserting"
    BY <1>0, <1>05, <2>3 DEF Owners
  <2>4. CASE call[t].pc = "inserting" /\ call[u].pc = "deinit_destroy"
    BY <1>00, <2>2, <2>4 DEF CarriedUnmapped, OwnKey
  <2>5. CASE call[t].pc = "deinit_destroy" /\ call[u].pc = "inserting"
    BY <1>00, <2>2, <2>5 DEF CarriedUnmapped, OwnKey
  <2>6. CASE call[t].pc = "deinit_destroy" /\ call[u].pc = "deinit_destroy"
    <3>1. /\ tls[KeyOf(generation[t], tid[t])] = call[t].item
          /\ tls[KeyOf(generation[u], tid[u])] = call[u].item
      BY <1>00, <2>6 DEF OwnKey
    <3> QED
      BY <1>0, <2>2, <3>1, OneKey
  <2> QED
    BY <1>05, <2>1, <2>3, <2>4, <2>5, <2>6
<1>1. CASE ThreadStartDoes(t)
  BY <1>0, <1>1 DEF ThreadStartDoes, Values, MappedLive, CarriedLive, ErasedDestroyed,
     OwnKey, CarriedUnmapped, DestroysCounted, LivePlaced, FreedEmpty, ErasingAt, Carries,
     Ids, Freeing, Phases, Outside, Moves, SetsTid
<1>2. CASE ThreadInitDoes(t)
  BY <1>0, <1>2 DEF ThreadInitDoes, Values, MappedLive, CarriedLive, ErasedDestroyed,
     OwnKey, CarriedUnmapped, DestroysCounted, LivePlaced, FreedEmpty, ErasingAt, Carries,
     Ids, Freeing, Phases, Outside, Moves, Draws
<1>3. CASE CreateItemDoes(t)
  <2>1. CASE UNCHANGED item /\ Moves(t, "idle", NULL, NULL)
    <3>1. /\ UNCHANGED <<mem, tls, item, generation, tid>>
          /\ \A u \in Threads : u # t => call'[u] = call[u]
          /\ call[t].pc \notin Special /\ call'[t].pc \notin Special
      BY <1>3, <2>1 DEF CreateItemDoes, Moves, Special
    <3> QED
      BY <1>0, <3>1, ValuesKept
  <2>2. ASSUME NEW i \in Items, item[i].state = "unused", SetsItem(i, "live", t, 0),
               Moves(t, "inserting", i, call[t].state)
        PROVE  Values'
    <3>0. \A k \in Keys : tls[k] # i
      BY <1>0, <2>2 DEF Owners, Owned
    <3>1. MappedLive'
      BY <1>00, <1>03, <1>3, <2>2, <3>0 DEF CreateItemDoes, MappedLive, ErasingAt,
         SetsItem, Moves
    <3>2. CarriedLive' /\ ErasedDestroyed'
      BY <1>0, <1>00, <1>3, <2>2 DEF CreateItemDoes, CarriedLive, ErasedDestroyed, Owners,
         SetsItem, Moves
    <3>3. OwnKey'
      BY <1>00, <1>3, <2>2 DEF CreateItemDoes, OwnKey, Moves
    <3>4. CarriedUnmapped'
      BY <1>00, <1>3, <2>2, <3>0 DEF CreateItemDoes, CarriedUnmapped, Moves
    <3>5. DestroysCounted'
      BY <1>00, <2>2 DEF DestroysCounted, SetsItem
    <3>6. LivePlaced'
      BY <1>00, <1>3, <2>2 DEF CreateItemDoes, LivePlaced, Carries, SetsItem, Moves
    <3>7. FreedEmpty'
      BY <1>00, <1>3 DEF CreateItemDoes, FreedEmpty
    <3> QED
      BY <3>1, <3>2, <3>3, <3>4, <3>5, <3>6, <3>7 DEF Values
  <2> QED
    BY <1>3, <2>1, <2>2 DEF CreateItemDoes
<1>4. CASE InsertDoes(t)
  <2> DEFINE K == KeyOf(generation[t], tid[t])
             x == call[t].item
  <2>0. /\ K \in Keys /\ x \in Items /\ item[x].state = "live" /\ tls[K] = NULL
        /\ mem = "live" /\ \A k \in Keys : tls[k] # x
    BY <1>0, <1>00, <1>4, <1>04 DEF InsertDoes, CarriedLive, Handlers, Phases, Entered,
       CarriedUnmapped
  <2>01. /\ tls'[K] = x /\ \A k \in Keys : k # K => tls'[k] = tls[k]
         /\ UNCHANGED <<mem, item, generation, tid>>
    BY <1>4 DEF InsertDoes, SetsValue
  <2>02. call[t].pc = "inserting" /\ call'[t].pc = "registering"
         /\ \A u \in Threads : u # t => call'[u] = call[u]
    BY <1>4 DEF InsertDoes, Moves
  <2>03. \A u \in Threads : u # t /\ call[u].pc \in Special =>
           /\ KeyOf(generation[u], tid[u]) # K
           /\ KeyOf(generation[u], tid[u]) \in Keys
    BY <1>01, <1>02, <2>02 DEF Special
  <2>04. \A u \in Threads : u # t /\ call[u].pc \in {"inserting", "destroy_item"} =>
           call[u].item # x
    BY <1>05, <2>02
  <2> HIDE DEF K, x
  <2>1. MappedLive'
    BY <1>00, <2>0, <2>01, <2>02 DEF MappedLive, ErasingAt
  <2>2. CarriedLive' /\ ErasedDestroyed'
    BY <1>00, <2>01, <2>02 DEF CarriedLive, ErasedDestroyed
  <2>3. OwnKey'
    BY <1>00, <2>01, <2>02, <2>03 DEF OwnKey, Special
  <2>4. CarriedUnmapped'
    BY <1>00, <2>01, <2>02, <2>04 DEF CarriedUnmapped
  <2>5. DestroysCounted'
    BY <1>00, <2>01 DEF DestroysCounted
  <2>6. LivePlaced'
    <3>1. SUFFICES ASSUME NEW i \in Items, item[i].state = "live"
                   PROVE  (\E k \in Keys : tls'[k] = i) \/ \E u \in Threads : Carries(u, i)'
      BY <2>01 DEF LivePlaced
    <3>2. CASE \E k \in Keys : tls[k] = i
      BY <2>0, <2>01, <3>2, NullAssumption
    <3>3. CASE i = x
      BY <2>0, <2>01, <3>3
    <3>4. CASE i # x /\ \E u \in Threads : Carries(u, i)
      BY <2>02, <3>4 DEF Carries, x
    <3> QED
      BY <1>00, <3>1, <3>2, <3>3, <3>4 DEF LivePlaced
  <2>7. FreedEmpty'
    BY <2>0, <2>01 DEF FreedEmpty
  <2> QED
    BY <2>1, <2>2, <2>3, <2>4, <2>5, <2>6, <2>7 DEF Values
<1>5. CASE InsertFailsDoes(t)
  <2> DEFINE x == call[t].item
  <2>0. x \in Items /\ item[x].state = "live"
    BY <1>00, <1>5, <1>04 DEF InsertFailsDoes, CarriedLive
  <2>01. /\ item'[x].state = "destroyed" /\ item'[x].destroys = item[x].destroys + 1
         /\ \A j \in Items : j # x => item'[j] = item[j]
         /\ UNCHANGED <<mem, tls, generation, tid>>
    BY <1>5 DEF InsertFailsDoes, SetsItem
  <2>02. /\ call[t].pc = "inserting" /\ call'[t].pc = "idle"
         /\ \A u \in Threads : u # t => call'[u] = call[u]
    BY <1>5 DEF InsertFailsDoes, Moves
  <2>03. \A u \in Threads : call'[u].pc \in {"inserting", "destroy_item", "deinit_destroy"} =>
           call[u].item # x /\ call[u].item \in Items /\ u # t
    BY <1>04, <1>05, <2>02
  <2>04. \A k \in Keys : tls[k] # x
    BY <1>00, <2>02 DEF CarriedUnmapped
  <2>06. \A u \in Threads : call[u].pc = "deinit_erase" => call[u].item \in Items
    BY <1>0 DEF Owners
  <2> HIDE DEF x
  <2>1. MappedLive'
    BY <1>00, <1>03, <2>01, <2>02, <2>04 DEF MappedLive, ErasingAt
  <2>2. CarriedLive'
    BY <1>00, <2>01, <2>02, <2>03 DEF CarriedLive
  <2>3. ErasedDestroyed'
    BY <1>00, <2>01, <2>02, <2>06 DEF ErasedDestroyed
  <2>4. OwnKey' /\ CarriedUnmapped'
    BY <1>00, <2>01, <2>02 DEF OwnKey, CarriedUnmapped
  <2>5. DestroysCounted'
    <3>1. item[x].destroys = 0
      BY <1>00, <2>0 DEF DestroysCounted
    <3> QED
      BY <1>00, <2>01, <3>1 DEF DestroysCounted
  <2>6. LivePlaced'
    <3>1. SUFFICES ASSUME NEW i \in Items, item[i].state = "live", i # x
                   PROVE  (\E k \in Keys : tls[k] = i) \/ \E u \in Threads : Carries(u, i)'
      BY <2>01 DEF LivePlaced
    <3>2. CASE \E u \in Threads : Carries(u, i)
      BY <2>02, <3>1, <3>2 DEF Carries, x
    <3> QED
      BY <1>00, <3>1, <3>2 DEF LivePlaced
  <2>7. FreedEmpty'
    BY <1>00, <2>01 DEF FreedEmpty
  <2> QED
    BY <2>1, <2>2, <2>3, <2>4, <2>5, <2>6, <2>7 DEF Values
<1>6. CASE ThreadAtexitDoes(t)
  <2>1. /\ UNCHANGED <<mem, tls, item, generation, tid>>
        /\ \A u \in Threads : u # t => call'[u] = call[u]
        /\ call[t].pc \notin Special /\ call'[t].pc \notin Special
    BY <1>6 DEF ThreadAtexitDoes, Moves, Special
  <2> QED
    BY <1>0, <2>1, ValuesKept
<1>7. CASE ExitDoes(t)
  <2>1. /\ UNCHANGED <<mem, tls, item, generation, tid>>
        /\ \A u \in Threads : u # t => call'[u] = call[u]
        /\ call[t].pc \notin Special /\ call'[t].pc \notin Special
    BY <1>7 DEF ExitDoes, Moves, Special
  <2> QED
    BY <1>0, <2>1, ValuesKept
<1>8. CASE DeinitReadDoes(t)
  <2>1. /\ UNCHANGED <<mem, tls, item, generation, tid>>
        /\ \A u \in Threads : u # t => call'[u] = call[u]
        /\ call[t].pc \notin Special /\ call'[t].pc \notin Special
    BY <1>8 DEF DeinitReadDoes, Moves, Special
  <2> QED
    BY <1>0, <2>1, ValuesKept
<1>9. CASE DeinitLockDoes(t)
  <2>1. MappedLive'
    BY <1>0, <1>00, <1>9 DEF DeinitLockDoes, MappedLive, ErasingAt, Owners, Owned, Moves,
       Drops, SetsState
  <2>2. CarriedLive'
    <3>1. ~ErasingAt(KeyOf(generation[t], tid[t]))
      <4>1. ASSUME NEW u \in Threads, call[u].pc = "deinit_erase",
                   KeyOf(generation[u], tid[u]) = KeyOf(generation[t], tid[t])
            PROVE  FALSE
        BY <1>01, <1>9, <4>1 DEF DeinitLockDoes
      <4> QED
        BY <4>1 DEF ErasingAt
    <3>2. tls[KeyOf(generation[t], tid[t])] # NULL =>
            item[tls[KeyOf(generation[t], tid[t])]].state = "live"
      BY <1>00, <1>9, <3>1 DEF DeinitLockDoes, MappedLive
    <3> QED
      BY <1>00, <1>9, <3>2 DEF DeinitLockDoes, CarriedLive, Moves
  <2>3. ErasedDestroyed'
    BY <1>0, <1>00, <1>9 DEF DeinitLockDoes, ErasedDestroyed, Owners, Moves, Drops, SetsState
  <2>4. OwnKey'
    BY <1>0, <1>00, <1>9 DEF DeinitLockDoes, OwnKey, Handlers, Moves, Drops, SetsState
  <2>5. CarriedUnmapped'
    BY <1>0, <1>00, <1>9 DEF DeinitLockDoes, CarriedUnmapped, Moves, Drops, SetsState
  <2>6. DestroysCounted'
    BY <1>0, <1>00, <1>9 DEF DeinitLockDoes, DestroysCounted, Moves, Drops, SetsState
  <2>7. LivePlaced'
    BY <1>0, <1>00, <1>9 DEF DeinitLockDoes, LivePlaced, Carries, Moves, Drops, SetsState
  <2>8. FreedEmpty'
    BY <1>0, <1>00, <1>9 DEF DeinitLockDoes, FreedEmpty, Phases, Moves, Drops, SetsState
  <2> QED
    BY <2>1, <2>2, <2>3, <2>4, <2>5, <2>6, <2>7, <2>8 DEF Values
<1>10. CASE DeinitDestroyDoes(t)
  <2> DEFINE x == call[t].item
  <2>0. x \in Items /\ item[x].state = "live"
    BY <1>00, <1>10, <1>04 DEF DeinitDestroyDoes, CarriedLive
  <2>01. /\ item'[x].state = "destroyed" /\ item'[x].destroys = item[x].destroys + 1
         /\ \A j \in Items : j # x => item'[j] = item[j]
         /\ UNCHANGED <<mem, tls, generation, tid>>
    BY <1>10 DEF DeinitDestroyDoes, SetsItem
  <2>02. /\ call[t].pc = "deinit_destroy" /\ call'[t].pc = "deinit_erase"
         /\ \A u \in Threads : u # t => call'[u] = call[u]
    BY <1>10 DEF DeinitDestroyDoes, Moves
  <2>03. \A u \in Threads : call'[u].pc \in {"inserting", "destroy_item", "deinit_destroy"} =>
           call[u].item # x /\ call[u].item \in Items /\ u # t
    BY <1>04, <1>05, <2>02
  <2>04. call'[t].item = x /\ tls[KeyOf(generation[t], tid[t])] = x
         /\ KeyOf(generation[t], tid[t]) \in Keys
    BY <1>00, <1>02, <1>10, <2>02 DEF DeinitDestroyDoes, Moves, OwnKey
  <2>05. \A k \in Keys : tls[k] = x => k = KeyOf(generation[t], tid[t])
    BY <1>0, <2>0, <2>04, OneKey, NullAssumption
  <2>06. \A u \in Threads : call[u].pc = "deinit_erase" => call[u].item \in Items
    BY <1>0 DEF Owners
  <2> HIDE DEF x
  <2>1. MappedLive'
    <3>1. SUFFICES ASSUME NEW k \in Keys, tls[k] # NULL
                   PROVE  item'[tls[k]].state = "live" \/ ErasingAt(k)'
      BY <2>01 DEF MappedLive
    <3>2. CASE tls[k] = x
      <4>1. k = KeyOf(generation[t], tid[t])
        BY <2>05, <3>2
      <4> QED
        BY <2>01, <2>02, <4>1 DEF ErasingAt
    <3>3. CASE tls[k] # x /\ item[tls[k]].state = "live"
      BY <1>03, <2>01, <3>1, <3>3
    <3>4. CASE ErasingAt(k)
      BY <2>01, <2>02, <3>4 DEF ErasingAt
    <3> QED
      BY <1>00, <3>1, <3>2, <3>3, <3>4 DEF MappedLive
  <2>2. CarriedLive'
    BY <1>00, <2>01, <2>02, <2>03 DEF CarriedLive
  <2>3. ErasedDestroyed'
    BY <1>00, <2>01, <2>02, <2>06, <2>04 DEF ErasedDestroyed
  <2>4. OwnKey' /\ CarriedUnmapped'
    BY <1>00, <2>01, <2>02, <2>04 DEF OwnKey, CarriedUnmapped
  <2>5. DestroysCounted'
    <3>1. item[x].destroys = 0
      BY <1>00, <2>0 DEF DestroysCounted
    <3> QED
      BY <1>00, <2>01, <3>1 DEF DestroysCounted
  <2>6. LivePlaced'
    <3>1. SUFFICES ASSUME NEW i \in Items, item[i].state = "live", i # x
                   PROVE  (\E k \in Keys : tls[k] = i) \/ \E u \in Threads : Carries(u, i)'
      BY <2>01 DEF LivePlaced
    <3>2. CASE \E u \in Threads : Carries(u, i)
      BY <2>02, <3>1, <3>2 DEF Carries, x
    <3> QED
      BY <1>00, <3>1, <3>2 DEF LivePlaced
  <2>7. FreedEmpty'
    BY <1>00, <2>01 DEF FreedEmpty
  <2> QED
    BY <2>1, <2>2, <2>3, <2>4, <2>5, <2>6, <2>7 DEF Values
<1>11. CASE DeinitEraseDoes(t)
  <2> DEFINE K == KeyOf(generation[t], tid[t])
  <2>0. K \in Keys /\ tls[K] = call[t].item /\ item[tls[K]].state = "destroyed"
    BY <1>00, <1>11 DEF DeinitEraseDoes, OwnKey, ErasedDestroyed
  <2>01. /\ tls'[K] = NULL /\ \A k \in Keys : k # K => tls'[k] = tls[k]
         /\ UNCHANGED <<mem, item, generation, tid>>
    BY <1>11 DEF DeinitEraseDoes, SetsValue
  <2>02. call[t].pc = "deinit_erase" /\ call'[t].pc = "exiting"
         /\ \A u \in Threads : u # t => call'[u] = call[u]
    BY <1>11 DEF DeinitEraseDoes, Moves
  <2>03. \A u \in Threads : u # t /\ call[u].pc \in Special =>
           /\ KeyOf(generation[u], tid[u]) # K
           /\ KeyOf(generation[u], tid[u]) \in Keys
    BY <1>01, <1>02, <2>02 DEF Special
  <2>04. \A k \in Keys : ErasingAt(k) => k = K \/ ErasingAt(k)'
    BY <2>01, <2>02 DEF ErasingAt
  <2> HIDE DEF K
  <2>1. MappedLive'
    BY <1>00, <2>01, <2>04 DEF MappedLive
  <2>2. CarriedLive' /\ ErasedDestroyed'
    BY <1>00, <2>01, <2>02 DEF CarriedLive, ErasedDestroyed
  <2>3. OwnKey'
    BY <1>00, <2>01, <2>02, <2>03 DEF OwnKey, Special
  <2>4. CarriedUnmapped'
    <3>1. \A u \in Threads : call[u].pc \in {"inserting", "destroy_item"} =>
            call[u].item # NULL
      BY <1>04
    <3> QED
      BY <1>00, <2>01, <2>02, <3>1 DEF CarriedUnmapped
  <2>5. DestroysCounted'
    BY <1>00, <2>01 DEF DestroysCounted
  <2>6. LivePlaced'
    <3>1. SUFFICES ASSUME NEW i \in Items, item[i].state = "live"
                   PROVE  (\E k \in Keys : tls'[k] = i) \/ \E u \in Threads : Carries(u, i)'
      BY <2>01 DEF LivePlaced
    <3>2. CASE \E k \in Keys : tls[k] = i
      BY <2>0, <2>01, <3>1, <3>2
    <3>3. CASE \E u \in Threads : Carries(u, i)
      BY <2>02, <3>3 DEF Carries
    <3> QED
      BY <1>00, <3>1, <3>2, <3>3 DEF LivePlaced
  <2>7. FreedEmpty'
    BY <1>00, <2>01 DEF FreedEmpty
  <2> QED
    BY <2>1, <2>2, <2>3, <2>4, <2>5, <2>6, <2>7 DEF Values
<1>12. CASE DestroyDoes(t)
  BY <1>0, <1>12 DEF DestroyDoes, Values, MappedLive, CarriedLive, ErasedDestroyed, OwnKey,
     CarriedUnmapped, DestroysCounted, LivePlaced, FreedEmpty, ErasingAt, Carries, Ids,
     Freeing, Phases, Outside, Moves, SetsState
<1>13. CASE DestroyEraseDoes(t)
  <2>0. PICK K \in Keys : /\ tls[K] # NULL /\ SetsValue(K, NULL)
                          /\ Moves(t, "destroy_item", tls[K], call[t].state)
    BY <1>13 DEF DestroyEraseDoes
  <2>01. /\ tls'[K] = NULL /\ \A k \in Keys : k # K => tls'[k] = tls[k]
         /\ UNCHANGED <<mem, item, generation, tid>>
    BY <1>13, <2>0 DEF DestroyEraseDoes, SetsValue
  <2>02. /\ call[t].pc = "destroying" /\ call'[t].pc = "destroy_item"
         /\ call'[t].item = tls[K]
         /\ \A u \in Threads : u # t => call'[u] = call[u]
    BY <1>13, <2>0 DEF DestroyEraseDoes, Moves
  <2>03. \A u \in Threads : u # t => call[u].pc \in Outside
    BY <1>0, <2>02 DEF Phases, Freeing
  <2>04. item[tls[K]].state = "live" /\ \A k \in Keys : ~ErasingAt(k)
    BY <1>00, <2>0, <2>02, <2>03 DEF MappedLive, ErasingAt, Outside
  <2>05. \A k \in Keys : k # K => tls[k] # tls[K]
    BY <1>0, <2>0, OneKey
  <2>1. MappedLive'
    BY <1>00, <2>01, <2>04 DEF MappedLive
  <2>2. CarriedLive' /\ ErasedDestroyed' /\ OwnKey'
    BY <2>01, <2>02, <2>03, <2>04 DEF CarriedLive, ErasedDestroyed, OwnKey, Outside
  <2>4. CarriedUnmapped'
    BY <2>0, <2>01, <2>02, <2>03, <2>05 DEF CarriedUnmapped, Outside
  <2>5. DestroysCounted'
    BY <1>00, <2>01 DEF DestroysCounted
  <2>6. LivePlaced'
    <3>1. SUFFICES ASSUME NEW i \in Items, item[i].state = "live"
                   PROVE  (\E k \in Keys : tls'[k] = i) \/ \E u \in Threads : Carries(u, i)'
      BY <2>01 DEF LivePlaced
    <3>2. ASSUME NEW k \in Keys, tls[k] = i
          PROVE  tls'[k] = i \/ Carries(t, i)'
      BY <2>01, <2>02, <3>2 DEF Carries
    <3>3. \A u \in Threads : ~Carries(u, i)
      BY <2>02, <2>03 DEF Carries, Outside
    <3> QED
      BY <1>00, <3>1, <3>2, <3>3 DEF LivePlaced
  <2>7. FreedEmpty'
    BY <1>00, <2>01 DEF FreedEmpty
  <2> QED
    BY <2>1, <2>2, <2>4, <2>5, <2>6, <2>7 DEF Values
<1>14. CASE DestroyItemDoes(t)
  <2> DEFINE x == call[t].item
  <2>0. x \in Items /\ item[x].state = "live"
    BY <1>00, <1>14, <1>04 DEF DestroyItemDoes, CarriedLive
  <2>01. /\ item'[x].state = "destroyed" /\ item'[x].destroys = item[x].destroys + 1
         /\ \A j \in Items : j # x => item'[j] = item[j]
         /\ UNCHANGED <<mem, tls, generation, tid>>
    BY <1>14 DEF DestroyItemDoes, SetsItem
  <2>02. /\ call[t].pc = "destroy_item" /\ call'[t].pc = "destroying"
         /\ \A u \in Threads : u # t => call'[u] = call[u]
    BY <1>14 DEF DestroyItemDoes, Moves
  <2>03. \A u \in Threads : call'[u].pc \in {"inserting", "destroy_item", "deinit_destroy"} =>
           call[u].item # x /\ call[u].item \in Items /\ u # t
    BY <1>04, <1>05, <2>02
  <2>04. \A k \in Keys : tls[k] # x
    BY <1>00, <2>02 DEF CarriedUnmapped
  <2>06. \A u \in Threads : call[u].pc = "deinit_erase" => call[u].item \in Items
    BY <1>0 DEF Owners
  <2> HIDE DEF x
  <2>1. MappedLive'
    BY <1>00, <1>03, <2>01, <2>02, <2>04 DEF MappedLive, ErasingAt
  <2>2. CarriedLive'
    BY <1>00, <2>01, <2>02, <2>03 DEF CarriedLive
  <2>3. ErasedDestroyed'
    BY <1>00, <2>01, <2>02, <2>06 DEF ErasedDestroyed
  <2>4. OwnKey' /\ CarriedUnmapped'
    BY <1>00, <2>01, <2>02 DEF OwnKey, CarriedUnmapped
  <2>5. DestroysCounted'
    <3>1. item[x].destroys = 0
      BY <1>00, <2>0 DEF DestroysCounted
    <3> QED
      BY <1>00, <2>01, <3>1 DEF DestroysCounted
  <2>6. LivePlaced'
    <3>1. SUFFICES ASSUME NEW i \in Items, item[i].state = "live", i # x
                   PROVE  (\E k \in Keys : tls[k] = i) \/ \E u \in Threads : Carries(u, i)'
      BY <2>01 DEF LivePlaced
    <3>2. CASE \E u \in Threads : Carries(u, i)
      BY <2>02, <3>1, <3>2 DEF Carries, x
    <3> QED
      BY <1>00, <3>1, <3>2 DEF LivePlaced
  <2>7. FreedEmpty'
    BY <1>00, <2>01 DEF FreedEmpty
  <2> QED
    BY <2>1, <2>2, <2>3, <2>4, <2>5, <2>6, <2>7 DEF Values
<1>15. CASE DestroyDoneDoes(t)
  BY <1>0, <1>15 DEF DestroyDoneDoes, Values, MappedLive, CarriedLive, ErasedDestroyed,
     OwnKey, CarriedUnmapped, DestroysCounted, LivePlaced, FreedEmpty, ErasingAt, Carries,
     Ids, Freeing, Phases, Outside, Moves
<1>16. CASE Create(t)
  BY <1>0, <1>16 DEF Create, Values, MappedLive, CarriedLive, ErasedDestroyed, OwnKey,
     CarriedUnmapped, DestroysCounted, LivePlaced, FreedEmpty, ErasingAt, Carries, Ids,
     Freeing, Phases, Outside, Moves
<1> QED
  BY <1>1, <1>2, <1>3, <1>4, <1>5, <1>6, <1>7, <1>8,
     <1>9, <1>10, <1>11, <1>12, <1>13, <1>14, <1>15, <1>16 DEF Does

(* Before the first step there is no value.                                *)
LEMMA ValuesInit == Init => Values
<1> SUFFICES ASSUME Init PROVE Values
  OBVIOUS
<1>1. /\ \A t \in Threads : call[t].pc = "unborn"
      /\ \A k \in Keys : tls[k] = NULL
      /\ \A i \in Items : item[i].state = "unused" /\ item[i].destroys = 0
  BY DEF Init, Idle
<1>2. MappedLive /\ CarriedLive /\ ErasedDestroyed /\ OwnKey /\ CarriedUnmapped
  BY <1>1 DEF MappedLive, CarriedLive, ErasedDestroyed, OwnKey, CarriedUnmapped
<1>3. DestroysCounted /\ LivePlaced /\ FreedEmpty
  BY <1>1 DEF DestroysCounted, LivePlaced, FreedEmpty
<1> QED
  BY <1>2, <1>3 DEF Values

(* Every step keeps ValueInv.                                              *)
LEMMA ValueNext ==
  ASSUME Contract = "quiet", ValueInv, [Next]_vars
  PROVE  ValueInv'
<1>1. QuietInv'
  BY QuietNext DEF ValueInv
<1>2. CASE UNCHANGED vars
  <2>1. UNCHANGED <<mem, tls, item, tid, generation, call>>
    BY <1>2 DEF vars
  <2>2. /\ MappedLive' /\ CarriedLive' /\ ErasedDestroyed' /\ OwnKey'
    BY <2>1 DEF ValueInv, Values, MappedLive, CarriedLive, ErasedDestroyed, OwnKey,
                ErasingAt
  <2>3. CarriedUnmapped' /\ DestroysCounted' /\ LivePlaced' /\ FreedEmpty'
    BY <2>1 DEF ValueInv, Values, CarriedUnmapped, DestroysCounted, LivePlaced,
                FreedEmpty, Carries
  <2> QED
    BY <1>1, <2>2, <2>3 DEF ValueInv, Values
<1>3. ASSUME NEW t \in Threads, Does(t)
      PROVE  ValueInv'
  BY <1>1, <1>3, ValuesStep DEF ValueInv
<1>4. Base
  BY DEF ValueInv, QuietInv
<1> QED
  BY <1>2, <1>3, <1>4, StepEffect

(* ValueInv is an invariant when destroy() is called in a quiet moment.    *)
LEMMA ValueInvariant ==
  ASSUME Contract = "quiet"
  PROVE  Spec => []ValueInv
<1>1. ValueInv /\ [Next]_vars => ValueInv'
  BY ValueNext
<1>2. Init => ValueInv
  BY QuietInit, ValuesInit DEF ValueInv
<1> QED
  BY <1>1, <1>2, PTL DEF Spec

(* If destroy() is called while no thread is inside thread_init() or       *)
(* deinit(), attr.destroy is called at most once for a value: a failing    *)
(* insertion, a thread's exit and destroy() never both take it.            *)
THEOREM DestroyedAtMostOnce ==
  ASSUME Contract = "quiet"
  PROVE  Spec => []DestroyedOnce
<1>1. ValueInv => DestroyedOnce
  BY DEF ValueInv, Values, DestroysCounted, DestroyedOnce
<1> QED
  BY <1>1, ValueInvariant, PTL

(* Under the same contract a destroyed instance leaves nothing behind: its *)
(* values are destroyed, and a deinit_state that is not freed has an exit  *)
(* handler still to run, or lost one to a failed registration.             *)
THEOREM NothingLeftBehind ==
  ASSUME Contract = "quiet"
  PROVE  Spec => []NothingLeft
<1>1. ValueInv => NothingLeft
  <2> SUFFICES ASSUME ValueInv, mem = "freed"
               PROVE  /\ \A i \in Items : item[i].state # "live"
                      /\ \A s \in States : dstate[s].state = "live" /\ ~dstate[s].lost =>
                           \E t \in Threads : s \in ToSet(atexit[t])
    BY DEF NothingLeft
  <2>0. TypeOK /\ StateShape /\ Phases /\ Counts /\ LivePlaced /\ FreedEmpty
    BY DEF ValueInv, QuietInv, Base, Values
  <2>1. \A t \in Threads : call[t].pc \notin Entered /\ ~Freeing(t)
    BY <2>0 DEF Phases
  <2>2. \A i \in Items : item[i].state # "live"
    BY <2>0, <2>1, NullAssumption
       DEF LivePlaced, FreedEmpty, Carries, Entered, Freeing
  <2>3. ASSUME NEW s \in States, dstate[s].state = "live", ~dstate[s].lost
        PROVE  \E t \in Threads : s \in ToSet(atexit[t])
    <3> DEFINE H == HoldersOf(call, atexit, s)
    <3>1. Cardinality(H) > 0
      BY <2>0, <2>3 DEF Counts, CountedBy, StateShape
    <3>2. PICK t : t \in H
      <4> HIDE DEF H
      <4> QED
        BY <3>1, FS_EmptySet
    <3>3. call[t].state # s
      BY <2>0, <2>1, <3>2, NullAssumption DEF StateShape, Entered, HoldersOf
    <3>4. t \in Threads /\ atexit[t] = <<s>>
      BY <3>2, <3>3 DEF HoldersOf
    <3> QED
      BY <3>4, SingleHandler
  <2> QED
    BY <2>2, <2>3
<1> QED
  BY <1>1, ValueInvariant, PTL
=============================================================================
