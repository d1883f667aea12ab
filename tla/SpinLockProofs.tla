--------------------------- MODULE SpinLockProofs ----------------------------
(***************************************************************************)
(* Mutual exclusion of LOCK()/UNLOCK(), for any number of threads, any     *)
(* nesting of handlers and wherever signals are delivered.                 *)
(*                                                                         *)
(* MutualExclusion is not inductive: a free lock word must exclude a       *)
(* holder (LockWord), and a handler must start in a context that holds     *)
(* nothing (Unused).                                                       *)
(***************************************************************************)
EXTENDS SpinLock, TLAPS

(* The contexts above the running one are not in use.                      *)
Unused == \A t \in Threads : \A l \in Levels :
            l > level[t] => ctx[<<t, l>>] = "outside"

LockInv == TypeOK /\ MutualExclusion /\ LockWord /\ Unused

-----------------------------------------------------------------------------
(* The initial state satisfies the invariant.                              *)
LEMMA InitLockInv == Init => LockInv
  BY NestingAssumption
  DEF Init, LockInv, TypeOK, MutualExclusion, LockWord, Unused, Contexts,
      Levels, PCs

(* Every step preserves it.                                                *)
LEMMA NextLockInv == LockInv /\ [Next]_vars => LockInv'
<1> SUFFICES ASSUME LockInv, [Next]_vars PROVE LockInv'
  OBVIOUS
<1> USE NestingAssumption DEF Levels, Contexts
<1>0. CASE UNCHANGED vars
  BY <1>0 DEF vars, LockInv, TypeOK, MutualExclusion, LockWord, Unused
<1>1. ASSUME NEW t \in Threads, LockEnter(t) \/ LockLoad(t) \/ LockRetry(t)
      PROVE LockInv'
  <2>1. /\ UNCHANGED <<lock, level>> /\ ctx[<<t, level[t]>>] \notin {"held"}
        /\ \E p \in {"load", "cas"} : ctx' = [ctx EXCEPT ![<<t, level[t]>>] = p]
    BY <1>1 DEF LockEnter, LockLoad, LockRetry, At, Goto, Running
  <2>2. TypeOK' BY <2>1 DEF LockInv, TypeOK, PCs
  <2>3. \A c \in Contexts : ctx'[c] = "held" <=> ctx[c] = "held"
    BY <2>1 DEF LockInv, TypeOK
  <2>4. MutualExclusion' /\ LockWord'
    BY <2>1, <2>3 DEF LockInv, MutualExclusion, LockWord
  <2>5. Unused' BY <2>1 DEF LockInv, TypeOK, Unused
  <2> QED BY <2>2, <2>4, <2>5 DEF LockInv
<1>2. ASSUME NEW t \in Threads, LockTake(t) PROVE LockInv'
  <2>1. /\ lock = 0 /\ lock' = 1 /\ level' = level
        /\ ctx' = [ctx EXCEPT ![<<t, level[t]>>] = "held"]
    BY <1>2 DEF LockTake, At, Goto, Running
  <2>2. TypeOK' BY <2>1 DEF LockInv, TypeOK, PCs
  <2>3. <<t, level[t]>> \in Contexts BY DEF LockInv, TypeOK
  <2>4. \A c \in Contexts : ctx'[c] = "held" <=> c = <<t, level[t]>>
    BY <2>1, <2>3 DEF LockInv, TypeOK, LockWord
  <2>5. MutualExclusion' BY <2>4 DEF MutualExclusion
  <2>6. LockWord' BY <2>1, <2>3, <2>4 DEF LockWord
  <2>7. Unused' BY <2>1 DEF LockInv, TypeOK, Unused
  <2> QED BY <2>2, <2>5, <2>6, <2>7 DEF LockInv
<1>3. ASSUME NEW t \in Threads, Unlock(t) PROVE LockInv'
  <2>1. /\ lock' = 0 /\ level' = level /\ ctx[<<t, level[t]>>] = "held"
        /\ ctx' = [ctx EXCEPT ![<<t, level[t]>>] = "outside"]
    BY <1>3 DEF Unlock, At, Goto, Running
  <2>2. TypeOK' BY <2>1 DEF LockInv, TypeOK, PCs
  <2>3. <<t, level[t]>> \in Contexts BY DEF LockInv, TypeOK
  <2>4. \A c \in Contexts : ctx'[c] # "held"
    BY <2>1, <2>3 DEF LockInv, TypeOK, MutualExclusion
  <2>5. MutualExclusion' /\ LockWord'
    BY <2>1, <2>4 DEF MutualExclusion, LockWord
  <2>6. Unused' BY <2>1 DEF LockInv, TypeOK, Unused
  <2> QED BY <2>2, <2>5, <2>6 DEF LockInv
<1>4. ASSUME NEW t \in Threads, Deliver(t) PROVE LockInv'
  <2>1. /\ lock' = lock /\ level[t] + 1 \in Levels
        /\ level' = [level EXCEPT ![t] = level[t] + 1]
        /\ ctx' = [ctx EXCEPT ![<<t, level[t] + 1>>] = "load"]
    BY <1>4 DEF Deliver, LockInv, TypeOK
  <2>2. TypeOK' BY <2>1 DEF LockInv, TypeOK, PCs
  <2>3. ctx[<<t, level[t] + 1>>] = "outside"
    BY <2>1 DEF LockInv, TypeOK, Unused
  <2>4. \A c \in Contexts : ctx'[c] = "held" <=> ctx[c] = "held"
    BY <2>1, <2>3 DEF LockInv, TypeOK
  <2>5. MutualExclusion' /\ LockWord'
    BY <2>1, <2>4 DEF LockInv, MutualExclusion, LockWord
  <2>6. Unused' BY <2>1 DEF LockInv, TypeOK, Unused
  <2> QED BY <2>2, <2>5, <2>6 DEF LockInv
<1>5. ASSUME NEW t \in Threads, HandlerReturns(t) PROVE LockInv'
  <2>1. /\ lock' = lock /\ ctx' = ctx /\ level[t] - 1 \in Levels
        /\ ctx[<<t, level[t]>>] = "outside"
        /\ level' = [level EXCEPT ![t] = level[t] - 1]
    BY <1>5 DEF HandlerReturns, At, Running, LockInv, TypeOK
  <2>2. TypeOK' BY <2>1 DEF LockInv, TypeOK
  <2>3. MutualExclusion' /\ LockWord'
    BY <2>1 DEF LockInv, MutualExclusion, LockWord
  <2>4. ASSUME NEW u \in Threads, NEW l \in Levels, l > level'[u]
        PROVE ctx[<<u, l>>] = "outside"
    <3>1. CASE u = t /\ l = level[t] BY <2>1, <3>1
    <3>2. CASE ~(u = t /\ l = level[t])
      <4>1. l > level[u] BY <2>1, <2>4, <3>2 DEF LockInv, TypeOK
      <4> QED BY <4>1 DEF LockInv, Unused
    <3> QED BY <3>1, <3>2
  <2>5. Unused' BY <2>1, <2>4 DEF Unused
  <2> QED BY <2>2, <2>3, <2>5 DEF LockInv
<1> QED BY <1>0, <1>1, <1>2, <1>3, <1>4, <1>5 DEF Next

(* The invariant holds in every state.                                     *)
LEMMA LockInvariant == Spec => []LockInv
  BY InitLockInv, NextLockInv, PTL DEF Spec

(* The lock word and the contexts keep their types: no handler runs beyond *)
(* the nesting there is, and UNLOCK() leaves 0 or 1 in the word.           *)
THEOREM SpinLockTyped == Spec => []TypeOK
<1>1. LockInv => TypeOK BY DEF LockInv
<1> QED BY LockInvariant, <1>1, PTL

(* However threads and nested handlers interleave, at most one of them is  *)
(* between LOCK() and UNLOCK().                                            *)
THEOREM SpinLockExcludes == Spec => []MutualExclusion
<1>1. LockInv => MutualExclusion BY DEF LockInv
<1> QED BY LockInvariant, <1>1, PTL

(* The word is 1 exactly while some context holds the lock, so the         *)
(* assertion of UNLOCK() holds.                                            *)
THEOREM LockWordExact == Spec => []LockWord
<1>1. LockInv => LockWord BY DEF LockInv
<1> QED BY LockInvariant, <1>1, PTL
=============================================================================
