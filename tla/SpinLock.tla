------------------------------ MODULE SpinLock -------------------------------
(***************************************************************************)
(* LOCK() and UNLOCK() of lock_unlock.h, used by threads and by the signal *)
(* handlers delivered on them.  Each thread runs a stack of contexts: its  *)
(* own code, then the handlers nested on it; only the innermost runs.      *)
(*                                                                         *)
(* The other modules take a section under a lock as one action.  That is   *)
(* justified by MutualExclusion here.                                      *)
(***************************************************************************)
EXTENDS Naturals

CONSTANTS
  Threads,
  MaxNesting,   \* bound on the contexts of one thread
  Deliverable   \* where a signal may be delivered on a thread

(* load: reading the lock word; cas: about to exchange; held: in between   *)
PCs == {"outside", "load", "cas", "held"}
Levels == 1 .. MaxNesting

ASSUME NestingAssumption == MaxNesting \in Nat \ {0}
ASSUME DeliverableAssumption == Deliverable \subseteq PCs

VARIABLES
  lock,   \* the lock word
  ctx,    \* what each context of each thread is doing
  level   \* the running context of each thread

vars == <<lock, ctx, level>>

(* Every variable holds a value of its C type.                             *)
TypeOK == /\ lock \in {0, 1}
          /\ ctx \in [Threads \X Levels -> PCs]
          /\ level \in [Threads -> Levels]

Init == /\ lock = 0
        /\ ctx = [c \in Threads \X Levels |-> "outside"]
        /\ level = [t \in Threads |-> 1]

-----------------------------------------------------------------------------
Running(t) == <<t, level[t]>>
At(t, p) == ctx[Running(t)] = p
Goto(t, p) == ctx' = [ctx EXCEPT ![Running(t)] = p]

LockEnter(t) ==
  /\ At(t, "outside")
  /\ Goto(t, "load")
  /\ UNCHANGED <<lock, level>>

(* atomic_load_explicit(): a lock that is taken is read again.             *)
LockLoad(t) ==
  /\ At(t, "load") /\ lock = 0
  /\ Goto(t, "cas")
  /\ UNCHANGED <<lock, level>>

(* Mutant of LockTake: a load and a store instead of the exchange.         *)
LockTakeUnchecked(t) ==
  /\ At(t, "cas")
  /\ lock' = 1
  /\ Goto(t, "held")
  /\ UNCHANGED level

(* Mutant of LockTake: the exchange expects the lock to be taken.          *)
LockTakeExpectsTaken(t) ==
  /\ At(t, "cas") /\ lock = 1
  /\ Goto(t, "held")
  /\ UNCHANGED <<lock, level>>

(* atomic_compare_exchange_weak_explicit() succeeds ...                    *)
LockTake(t) ==
  /\ At(t, "cas") /\ lock = 0
  /\ lock' = 1
  /\ Goto(t, "held")
  /\ UNCHANGED level

(* ... or fails, spuriously too, and the loop starts again.                *)
LockRetry(t) ==
  /\ At(t, "cas")
  /\ Goto(t, "load")
  /\ UNCHANGED <<lock, level>>

(* Mutant of Unlock: the word counts up instead of being reset.            *)
UnlockCounts(t) ==
  /\ At(t, "held")
  /\ lock' = lock + 1
  /\ Goto(t, "outside")
  /\ UNCHANGED level

(* Mutant of Unlock: an early return that forgets it.                      *)
UnlockForgotten(t) ==
  /\ At(t, "held")
  /\ Goto(t, "outside")
  /\ UNCHANGED <<lock, level>>

Unlock(t) ==
  /\ At(t, "held")
  /\ lock' = 0
  /\ Goto(t, "outside")
  /\ UNCHANGED level

(* A signal is delivered on thread t; its handler, raw_signal_handler(),   *)
(* goes to stdc_raise(), which takes the lock.                             *)
Deliver(t) ==
  /\ level[t] < MaxNesting
  /\ ctx[Running(t)] \in Deliverable
  /\ level' = [level EXCEPT ![t] = @ + 1]
  /\ ctx' = [ctx EXCEPT ![<<t, level[t] + 1>>] = "load"]
  /\ UNCHANGED lock

HandlerReturns(t) ==
  /\ level[t] > 1 /\ At(t, "outside")
  /\ level' = [level EXCEPT ![t] = @ - 1]
  /\ UNCHANGED <<lock, ctx>>

Next == \E t \in Threads :
  \/ LockEnter(t) \/ LockLoad(t) \/ LockTake(t) \/ LockRetry(t) \/ Unlock(t)
  \/ Deliver(t) \/ HandlerReturns(t)

Spec == Init /\ [][Next]_vars

(* A running thread takes its steps, and the weak exchange does not fail   *)
(* for ever on a free lock.                                                *)
Fairness == \A t \in Threads : /\ WF_vars(LockLoad(t))
                               /\ SF_vars(LockTake(t))
                               /\ WF_vars(LockRetry(t))
                               /\ WF_vars(Unlock(t))
                               /\ WF_vars(HandlerReturns(t))
FairSpec == Spec /\ Fairness

-----------------------------------------------------------------------------
(* Properties.                                                             *)

Contexts == Threads \X Levels

(* At most one context of all threads and handlers is between LOCK() and   *)
(* UNLOCK().                                                               *)
MutualExclusion ==
  \A c, d \in Contexts : ctx[c] = "held" /\ ctx[d] = "held" => c = d

(* The assertion former == 1 of UNLOCK(): the lock word is 1 exactly while *)
(* some context is between LOCK() and UNLOCK().                            *)
LockWord == (lock = 1) <=> \E c \in Contexts : ctx[c] = "held"

(* A handler runs on top of a context of its thread that holds the lock.   *)
HolderInterrupted ==
  \E t \in Threads, l \in Levels : l < level[t] /\ ctx[<<t, l>>] = "held"

(* While some thread spins the lock is taken again and again: the running  *)
(* context of some thread gets through LOCK().  The one thing that stops   *)
(* it is a signal delivered to the holder, which nothing in LOCK() masks.  *)
LockTaken ==
  \A t \in Threads : ctx[Running(t)] \in {"load", "cas"}
                       ~> \/ \E u \in Threads : ctx[Running(u)] = "held"
                          \/ HolderInterrupted
=============================================================================
