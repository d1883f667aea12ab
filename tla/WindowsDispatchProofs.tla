------------------------ MODULE WindowsDispatchProofs ------------------------
(***************************************************************************)
(* TLAPS proofs about WindowsDispatch, for every depth of the stack, every *)
(* set of signals and every number of deciders.  Three inductive           *)
(* invariants, each resting on the one before:                             *)
(*   ChainInv   what every activation of the stack remembers of the raises *)
(*              around it, and where both chains start;                    *)
(*   DecideInv  how often the exceptions on the stack have been decided,   *)
(*              and what the memory of the last decision holds;            *)
(*   FlagInv    how the raises on the stack are marked.                    *)
(* The steps that change the exception on top are first brought to a few   *)
(* forms (Moves, Asks, Returned, Passed, Claims, Searches, SetsRsi), which *)
(* the three invariants are then shown to survive.                         *)
(***************************************************************************)
EXTENDS WindowsDispatch, TLAPS, WellFoundedInduction

(* What an activation may be.                                              *)
Phases == {"search", "filter", "decider", "continue", "resume"}
Called == {"filter", "decider"}

RaiseCodes == {CodeFromSignal(c) : c \in RaiseSignos}
Snapshots == [code : RaiseCodes, software : {FALSE}, params : RaiseParams]
RaiseRecords == [code : RaiseCodes, software : {MarksSoftware}, params : RaiseParams]
FaultRecords == [code : FaultCodes, software : {FALSE}, params : FaultParams]

RsiType == [local : Nat, saved : Nat, abandoned : BOOLEAN]
GuardType == [kind : {"guard"}, guarded : GuardSets,
              front : Nat, win : Nat, rsi : RsiType]
RaiseType == [kind : {"raise"}, record : Snapshots, front : Nat, win : Nat,
              claimed : BOOLEAN, unclaimed : BOOLEAN]
DispatchType ==
  [kind : {"dispatch"}, e : RaiseRecords \cup FaultRecords, own : BOOLEAN,
   phase : Phases, at : Nat, n : Nat, by : {"unhandled", "continue"},
   continued : BOOLEAN, rsi : RsiType, calls : BOOLEAN, gone : BOOLEAN,
   who : {"nobody", "frame", "global"}, passes : Nat]
ActivationType == GuardType \cup RaiseType \cup DispatchType

(* m is the innermost stdc_raise() below position n of stack s, or 0.      *)
IsInner(s, n, m) ==
  /\ m \in 0 .. n - 1
  /\ m # 0 => s[m].kind = "raise"
  /\ \A j \in m + 1 .. n - 1 : s[j].kind # "raise"

(* The invariant at position i of stack s.                                 *)

(* A guard or a raise remembers the innermost raise around it.             *)
HeadsAt(s, i) ==
  s[i].kind # "dispatch" => s[i].front = s[i].win /\ IsInner(s, i, s[i].front)

(* The exceptions of stdc_raise() are those right above one, and match it. *)
OwnAt(s, i) ==
  /\ (s[i].kind = "dispatch" /\ s[i].own) <=> (i > 1 /\ s[i - 1].kind = "raise")
  /\ s[i].kind = "dispatch" /\ s[i].own =>
       s[i].e \in RaiseRecords /\ RecordMatches(s[i - 1].record, s[i].e)
  /\ s[i].kind = "dispatch" /\ ~s[i].own => s[i].e \in FaultRecords

(* A filter that runs is that of a guard further out.                      *)
FilterAt(s, i) ==
  s[i].kind = "dispatch" =>
    /\ s[i].at \in 1 .. i
    /\ s[i].phase = "filter" => s[i].at < i /\ s[s[i].at].kind = "guard"

(* Only a decider abandons, and a global one's rsi names a raise only when *)
(* it has popped one.                                                      *)
RsiFits(d) ==
  /\ d.gone => d.phase \in Called /\ AbandonRule = "once"
  /\ d.phase = "decider" => (d.rsi.saved = 0 => d.rsi.local = 0)

Pos(s, i) == /\ HeadsAt(s, i) /\ OwnAt(s, i) /\ FilterAt(s, i)
             /\ s[i].kind = "dispatch" => RsiFits(s[i])

(* Below another activation a dispatch is in a decider that made a call.   *)
Waits(a) == a.kind = "dispatch" => a.phase \in Called /\ a.calls /\ ~a.gone

Frames(s) == /\ s \in Seq(ActivationType)
             /\ \A i \in 1 .. Len(s) : Pos(s, i)
             /\ \A i \in 1 .. Len(s) - 1 : Waits(s[i])

(* The innermost activation: what an abandoning decider's rsi remembers.   *)
RsiOf(s) == s[IF s[Len(s)].phase = "filter" THEN s[Len(s)].at ELSE Len(s)].rsi

TopFits(s, f) ==
  LET d == s[Len(s)]
  IN  /\ d.kind # "raise"
      /\ d.kind = "dispatch" /\ d.gone =>
           /\ RsiOf(s).abandoned
           /\ d.own => RsiOf(s).local = Len(s) - 1 /\ RsiOf(s).saved = Len(s) - 1
           /\ ~d.own => RsiOf(s).local = 0 /\ RsiOf(s).saved = 0 /\ f = 0
      /\ d.kind = "dispatch" /\ ~d.gone /\ ~d.calls /\ d.phase = "filter" =>
           RsiOf(s).local = f

(* Both chains start at the innermost raise, or at the next one when its   *)
(* decider has abandoned it.                                               *)
OwnGone(s) == /\ Len(s) > 0 /\ s[Len(s)].kind = "dispatch"
              /\ s[Len(s)].own /\ s[Len(s)].gone

StackInv(s, f, w) ==
  /\ Frames(s)
  /\ Len(s) > 0 => TopFits(s, f)
  /\ f = w /\ IsInner(s, IF OwnGone(s) THEN Len(s) - 1 ELSE Len(s) + 1, f)

-----------------------------------------------------------------------------
(* The kinds of activations tell their types apart.                        *)
LEMMA Kinds ==
  ASSUME NEW a \in ActivationType
  PROVE  /\ a.kind \in {"guard", "raise", "dispatch"}
         /\ a.kind = "guard" => a \in GuardType
         /\ a.kind = "raise" => a \in RaiseType
         /\ a.kind = "dispatch" => a \in DispatchType
  BY DEF ActivationType, GuardType, RaiseType, DispatchType

(* An activation of the stack is replaced.                                 *)
Put(s, k, d) == [s EXCEPT ![k] = d]

(* What that does.                                                         *)
LEMMA PutAt ==
  ASSUME NEW s \in Seq(ActivationType), NEW k \in 1 .. Len(s),
         NEW d \in ActivationType
  PROVE  /\ Put(s, k, d) \in Seq(ActivationType) /\ Len(Put(s, k, d)) = Len(s)
         /\ Put(s, k, d)[k] = d
         /\ \A i \in 1 .. Len(s) : i # k => Put(s, k, d)[i] = s[i]
  BY DEF Put

(* What each position of a stack satisfies.                                *)
LEMMA At ==
  ASSUME NEW s, Frames(s), NEW i \in 1 .. Len(s)
  PROVE  s[i] \in ActivationType /\ Len(s) \in Nat /\ Pos(s, i)
  BY DEF Frames

(* A raise is never the innermost activation: its exception is above it.   *)
LEMMA AboveRaise ==
  ASSUME NEW s, Frames(s), NEW k \in 1 .. Len(s) - 1,
         ~(s[k + 1].kind = "dispatch" /\ s[k + 1].own)
  PROVE  s[k].kind # "raise"
<1>1. k + 1 \in 1 .. Len(s) /\ k + 1 > 1 /\ (k + 1) - 1 = k
  BY DEF Frames
<1>2. OwnAt(s, k + 1)
  BY <1>1 DEF Frames, Pos
<1> QED
  BY <1>1, <1>2 DEF OwnAt

(* IsInner looks only at kinds.                                            *)
LEMMA InnerSame ==
  ASSUME NEW s, NEW t, NEW n \in Nat, NEW m, IsInner(s, n, m),
         \A i \in 1 .. n - 1 : s[i].kind = t[i].kind
  PROVE  IsInner(t, n, m)
  BY DEF IsInner

(* There is at most one innermost raise.                                   *)
LEMMA InnerUnique ==
  ASSUME NEW s, NEW n \in Nat, NEW m, NEW k, IsInner(s, n, m), IsInner(s, n, k)
  PROVE  m = k
  BY DEF IsInner

(* Two activations that the invariant below the top does not tell apart.   *)
Like(a, b) ==
  /\ b.kind = a.kind
  /\ a.kind # "dispatch" => b.front = a.front /\ b.win = a.win
  /\ a.kind = "raise" => b.record = a.record
  /\ a.kind = "dispatch" => b = a

(* The invariant at a position depends on the position and on those below. *)
LEMMA PosLike ==
  ASSUME NEW s, NEW t, NEW i \in Nat \ {0}, Pos(s, i),
         \A j \in 1 .. i : Like(s[j], t[j])
  PROVE  Pos(t, i)
<1>1. Like(s[i], t[i])
  OBVIOUS
<1>2. HeadsAt(t, i)
  <2>1. i \in Nat /\ \A j \in 1 .. i - 1 : s[j].kind = t[j].kind
    BY DEF Like
  <2>2. ASSUME t[i].kind # "dispatch"
        PROVE  t[i].front = t[i].win /\ IsInner(t, i, t[i].front)
    <3>1. /\ t[i].front = s[i].front /\ t[i].win = s[i].win
          /\ s[i].front = s[i].win /\ IsInner(s, i, s[i].front)
      BY <1>1, <2>2 DEF Like, Pos, HeadsAt
    <3>2. IsInner(t, i, s[i].front)
      BY <2>1, <3>1, InnerSame
    <3> QED
      BY <3>1, <3>2
  <2> QED
    BY <2>2 DEF HeadsAt
<1>3. OwnAt(t, i)
  <2>1. CASE i = 1
    BY <1>1, <2>1 DEF Like, Pos, OwnAt
  <2>2. CASE i > 1
    <3>1. i - 1 \in 1 .. i
      BY <2>2
    <3>2. Like(s[i - 1], t[i - 1])
      BY <3>1
    <3> QED
      BY <1>1, <2>2, <3>2 DEF Like, Pos, OwnAt
  <2> QED
    BY <2>1, <2>2
<1>4. FilterAt(t, i)
  <2> SUFFICES ASSUME t[i].kind = "dispatch"
               PROVE  /\ t[i].at \in 1 .. i
                      /\ t[i].phase = "filter" => t[i].at < i /\ t[t[i].at].kind = "guard"
    BY DEF FilterAt
  <2>1. t[i] = s[i] /\ FilterAt(s, i) /\ s[i].kind = "dispatch"
    BY <1>1 DEF Like, Pos
  <2>2. s[i].at \in 1 .. i
    BY <2>1 DEF FilterAt
  <2>3. Like(s[s[i].at], t[s[i].at])
    BY <2>2
  <2> QED
    BY <2>1, <2>2, <2>3 DEF FilterAt, Like
<1>5. t[i].kind = "dispatch" => RsiFits(t[i])
  BY <1>1 DEF Like, Pos
<1> QED
  BY <1>2, <1>3, <1>4, <1>5 DEF Pos

-----------------------------------------------------------------------------
(* Three ways in which a stack changes.  It is cut to its first k.         *)
LEMMA CutStack ==
  ASSUME NEW s, Frames(s), NEW k \in 0 .. Len(s) - 1,
         k > 0 => s[k].kind # "raise",
         NEW f, IsInner(s, k + 1, f)
  PROVE  StackInv(SubSeq(s, 1, k), f, f)
<1> DEFINE t == SubSeq(s, 1, k)
<1>0. s \in Seq(ActivationType) /\ Len(s) \in Nat /\ k \in Nat /\ k <= Len(s)
  BY DEF Frames
<1>1. /\ t \in Seq(ActivationType) /\ Len(t) = k
      /\ \A i \in 1 .. k : t[i] = s[i]
  BY <1>0
<1> HIDE DEF t
<1>2. \A i \in 1 .. k : i \in 1 .. Len(s) /\ i \in 1 .. Len(s) - 1
  BY <1>0
<1>3. ASSUME NEW i \in 1 .. k PROVE Pos(t, i) /\ Waits(t[i])
  <2>1. \A j \in 1 .. i : j \in 1 .. k
    BY <1>0
  <2>2. \A j \in 1 .. i : Like(s[j], t[j])
    BY <1>1, <2>1 DEF Like
  <2>3. Pos(s, i) /\ Waits(s[i]) /\ i \in Nat \ {0}
    BY <1>2 DEF Frames
  <2>4. Pos(t, i)
    BY <2>2, <2>3, PosLike
  <2> QED
    BY <1>1, <2>3, <2>4
<1>4. Frames(t)
  <2>1. \A i \in 1 .. Len(t) - 1 : i \in 1 .. k
    BY <1>0, <1>1
  <2> QED
    BY <1>1, <1>3, <2>1 DEF Frames
<1>5. ASSUME Len(t) > 0 PROVE TopFits(t, f) /\ ~OwnGone(t)
  <2>1. k \in 1 .. k /\ Len(t) = k
    BY <1>0, <1>1, <1>5
  <2>2. Waits(t[k]) /\ t[k].kind # "raise"
    BY <1>1, <1>3, <2>1
  <2> QED
    BY <2>1, <2>2 DEF TopFits, OwnGone, Waits
<1>6. ~OwnGone(t)
  BY <1>5 DEF OwnGone
<1>7. IsInner(t, k + 1, f)
  <2>1. k + 1 \in Nat /\ \A i \in 1 .. (k + 1) - 1 : s[i].kind = t[i].kind
    BY <1>0, <1>1
  <2> QED
    BY <2>1, InnerSame
<1> QED
  BY <1>1, <1>4, <1>5, <1>6, <1>7 DEF StackInv, t

(* The stack may be called from: every activation waits.                   *)
Ready(s, f) == /\ Frames(s) /\ \A i \in 1 .. Len(s) : Waits(s[i])
               /\ IsInner(s, Len(s) + 1, f)

(* An activation is pushed.                                                *)
LEMMA PushOne ==
  ASSUME NEW s, NEW f, Ready(s, f), NEW a \in ActivationType,
         Pos(s \o <<a>>, Len(s) + 1)
  PROVE  /\ Frames(s \o <<a>>)
         /\ Len(s \o <<a>>) = Len(s) + 1 /\ (s \o <<a>>)[Len(s) + 1] = a
         /\ a.kind # "raise" => IsInner(s \o <<a>>, Len(s) + 2, f)
<1> DEFINE t == s \o <<a>>
<1>0. s \in Seq(ActivationType) /\ Len(s) \in Nat
  BY DEF Ready, Frames
<1>1. /\ t \in Seq(ActivationType) /\ Len(t) = Len(s) + 1 /\ t[Len(s) + 1] = a
      /\ \A i \in 1 .. Len(s) : t[i] = s[i]
  BY <1>0
<1>2. Pos(t, Len(s) + 1)
  OBVIOUS
<1> HIDE DEF t
<1>3. ASSUME NEW i \in 1 .. Len(s) PROVE Pos(t, i) /\ Waits(t[i])
  <2>1. \A j \in 1 .. i : Like(s[j], t[j])
    BY <1>0, <1>1 DEF Like
  <2>2. Pos(s, i) /\ Waits(s[i]) /\ i \in Nat \ {0}
    BY DEF Ready, Frames
  <2>3. Pos(t, i)
    BY <2>1, <2>2, PosLike
  <2> QED
    BY <1>1, <2>2, <2>3
<1>4. Frames(t)
  <2>1. \A i \in 1 .. Len(t) : i \in 1 .. Len(s) \/ i = Len(s) + 1
    BY <1>0, <1>1
  <2>2. \A i \in 1 .. Len(t) - 1 : i \in 1 .. Len(s)
    BY <1>0, <1>1
  <2> QED
    BY <1>1, <1>2, <1>3, <2>1, <2>2 DEF Frames
<1>5. ASSUME a.kind # "raise" PROVE IsInner(t, Len(s) + 2, f)
  <2>1. IsInner(s, Len(s) + 1, f)
    BY DEF Ready
  <2> QED
    BY <1>0, <1>1, <1>5, <2>1 DEF IsInner
<1> QED
  BY <1>1, <1>4, <1>5 DEF t

(* The innermost activation, an exception, goes on; others change only in  *)
(* what the invariant does not look at.                                    *)
Rewrites(s, t) ==
  /\ Len(s) > 0 /\ s[Len(s)].kind = "dispatch"
  /\ t \in Seq(ActivationType) /\ Len(t) = Len(s)
  /\ \A i \in 1 .. Len(s) - 1 : Like(s[i], t[i])
  /\ t[Len(s)].kind = "dispatch"
  /\ t[Len(s)].own = s[Len(s)].own /\ t[Len(s)].e = s[Len(s)].e
  /\ FilterAt(t, Len(s)) /\ RsiFits(t[Len(s)])

(* Such a step keeps the frames, and every innermost raise.                *)
LEMMA RewriteFrames ==
  ASSUME NEW s, Frames(s), NEW t, Rewrites(s, t)
  PROVE  /\ Frames(t)
         /\ \A n \in 0 .. Len(s) + 1 : \A f : IsInner(s, n, f) => IsInner(t, n, f)
<1> DEFINE n == Len(s)
<1>0. n \in Nat \ {0} /\ Len(t) = n /\ t \in Seq(ActivationType)
  BY DEF Rewrites, Frames
<1>1. \A i \in 1 .. n - 1 : Like(s[i], t[i])
  BY DEF Rewrites
<1>2. \A i \in 1 .. n : s[i].kind = t[i].kind
  <2>1. \A i \in 1 .. n : i \in 1 .. n - 1 \/ i = n
    BY <1>0
  <2> QED
    BY <1>1, <2>1 DEF Like, Rewrites
<1> HIDE DEF n
<1>3. ASSUME NEW i \in 1 .. n - 1 PROVE Pos(t, i) /\ Waits(t[i])
  <2>1. \A j \in 1 .. i : Like(s[j], t[j])
    BY <1>0, <1>1
  <2>2. Pos(s, i) /\ Waits(s[i]) /\ i \in Nat \ {0}
    BY <1>0 DEF Frames, n
  <2>3. Pos(t, i)
    BY <2>1, <2>2, PosLike
  <2> QED
    BY <1>1, <2>2, <2>3 DEF Waits, Like
<1>4. Pos(t, n)
  <2>1. HeadsAt(t, n) /\ FilterAt(t, n) /\ RsiFits(t[n])
    BY DEF Rewrites, HeadsAt, n
  <2>2. OwnAt(s, n)
    BY <1>0 DEF Frames, Pos, n
  <2>3. n > 1 => Like(s[n - 1], t[n - 1])
    BY <1>0, <1>1
  <2>4. OwnAt(t, n)
    BY <1>0, <2>2, <2>3 DEF OwnAt, Like, Rewrites, n
  <2> QED
    BY <2>1, <2>4 DEF Pos
<1>5. \A i \in 1 .. n : i \in 1 .. n - 1 \/ i = n
  BY <1>0
<1>6. Frames(t)
  BY <1>0, <1>3, <1>4, <1>5 DEF Frames
<1>7. ASSUME NEW k \in 0 .. n + 1, NEW f, IsInner(s, k, f)
      PROVE  IsInner(t, k, f)
  BY <1>0, <1>2, <1>7 DEF IsInner
<1> QED
  BY <1>6, <1>7 DEF n

(* The step of a decider that has not abandoned, or of a handler.          *)
LEMMA RewriteStack ==
  ASSUME NEW s, NEW f, NEW w, StackInv(s, f, w), NEW t, Rewrites(s, t),
         ~s[Len(s)].gone, ~t[Len(s)].gone,
         t[Len(s)].phase = "filter" => t[t[Len(s)].at].rsi.local = f
  PROVE  StackInv(t, f, w)
<1>0. Len(s) \in Nat /\ Len(t) = Len(s) /\ Frames(s) /\ Len(s) > 0
  BY DEF StackInv, Frames, Rewrites
<1>1. ~OwnGone(s) /\ ~OwnGone(t)
  BY <1>0 DEF OwnGone
<1>2. f = w /\ IsInner(s, Len(s) + 1, f)
  BY <1>1 DEF StackInv
<1>3. Frames(t) /\ IsInner(t, Len(s) + 1, f)
  BY <1>0, <1>2, RewriteFrames
<1>4. TopFits(t, f)
  BY <1>0 DEF TopFits, RsiOf, Rewrites
<1> QED
  BY <1>0, <1>1, <1>2, <1>3, <1>4 DEF StackInv

-----------------------------------------------------------------------------
(* The invariant of the chains.                                            *)
ChainInv ==
  /\ StackInv(act, front, win)
  /\ decision.result \in {"SEARCH", "EXECUTION"}
  /\ mapped \subseteq Signals /\ handlers \in BOOLEAN /\ debugger \in BOOLEAN
  /\ ended \in {"no", "terminated"}

(* The decider or the handler that runs.                                   *)
LEMMA TopDispatch ==
  ASSUME StackInv(act, front, win), NEW p, Running(p)
  PROVE  /\ Len(act) \in Nat \ {0} /\ Len(act) \in 1 .. Len(act)
         /\ act \in Seq(ActivationType) /\ Frames(act)
         /\ Top \in DispatchType /\ Top = act[Len(act)] /\ Top.phase = p
         /\ Top.kind = "dispatch" /\ ended = "no"
         /\ Pos(act, Len(act)) /\ RsiFits(Top)
         /\ Top.at \in 1 .. Len(act)
<1>1. act \in Seq(ActivationType) /\ Frames(act) /\ act # <<>>
  BY DEF StackInv, Frames, Running
<1>2. Len(act) \in Nat \ {0} /\ Len(act) \in 1 .. Len(act)
  BY <1>1
<1>3. /\ Top = act[Len(act)] /\ Top.phase = p /\ Top.kind = "dispatch"
      /\ ended = "no"
  BY DEF Running, Top
<1>4. act[Len(act)] \in ActivationType /\ Pos(act, Len(act))
  BY <1>1, <1>2, At
<1>5. Top \in DispatchType
  BY <1>3, <1>4, Kinds
<1>6. RsiFits(Top) /\ Top.at \in 1 .. Len(act)
  BY <1>3, <1>4 DEF Pos, FilterAt
<1> QED
  BY <1>1, <1>2, <1>3, <1>4, <1>5, <1>6

(* Without an abandoned raise the chains start at the innermost raise.     *)
LEMMA Innermost ==
  ASSUME StackInv(act, front, win), ~OwnGone(act)
  PROVE  front = win /\ IsInner(act, Len(act) + 1, front)
  BY DEF StackInv

(* The raise whose exception is dispatched is the innermost one.           *)
LEMMA OwnInnermost ==
  ASSUME StackInv(act, front, win), NEW p, Running(p), ~Top.gone, Top.own
  PROVE  /\ win = Len(act) - 1 /\ front = Len(act) - 1 /\ win \in 1 .. Len(act) - 1
         /\ act[win].kind = "raise" /\ RecordMatches(act[win].record, Top.e)
         /\ MatchingRaiseFrame(Top.e)
<1>1. /\ Len(act) \in Nat \ {0} /\ Top = act[Len(act)] /\ Top.kind = "dispatch"
      /\ Pos(act, Len(act))
  BY TopDispatch
<1>2. ~OwnGone(act)
  BY <1>1 DEF OwnGone
<1>3. front = win /\ IsInner(act, Len(act) + 1, win)
  BY <1>2, Innermost
<1>4. /\ Len(act) > 1 /\ act[Len(act) - 1].kind = "raise"
      /\ RecordMatches(act[Len(act) - 1].record, Top.e)
  BY <1>1 DEF Pos, OwnAt
<1>5. win = Len(act) - 1
  BY <1>1, <1>3, <1>4 DEF IsInner
<1> QED
  BY <1>1, <1>3, <1>4, <1>5 DEF MatchingRaiseFrame

(* Every innermost raise is a position of a raise, or 0.                   *)
LEMMA WinRaise ==
  ASSUME StackInv(act, front, win), win # 0
  PROVE  /\ win \in 1 .. Len(act) - 1 /\ act[win] \in RaiseType
         /\ act[win].kind = "raise" /\ win \in 1 .. Len(act)
<1>1. act \in Seq(ActivationType) /\ Len(act) \in Nat
  BY DEF StackInv, Frames
<1>2. win \in 1 .. Len(act) /\ act[win].kind = "raise"
  BY <1>1 DEF StackInv, IsInner
<1>3. win # Len(act)
  BY <1>1, <1>2 DEF StackInv, TopFits
<1>4. act[win] \in RaiseType
  BY <1>1, <1>2, Kinds
<1> QED
  BY <1>1, <1>2, <1>3, <1>4

-----------------------------------------------------------------------------
(* User code.                                                              *)
Caller == IF Deciding THEN [act EXCEPT ![Len(act)].calls = TRUE] ELSE act

(* Code that may call the library runs on a stack of waiting activations.  *)
LEMMA CallerReady ==
  ASSUME AbandonRule # "any", StackInv(act, front, win), UserCode
  PROVE  /\ Ready(Caller, front) /\ front = win /\ Len(Caller) = Len(act)
         /\ Len(act) \in Nat
         /\ Len(act) > 0 => Caller[Len(act)].kind # "raise"
         /\ \A i \in 1 .. Len(act) - 1 : Caller[i] = act[i]
         /\ act # <<>> => Caller[Len(act)] \in {act[Len(act)],
                            [act[Len(act)] EXCEPT !.calls = TRUE]}
<1>0. /\ act \in Seq(ActivationType) /\ Frames(act) /\ Len(act) \in Nat
      /\ act = <<>> <=> Len(act) = 0
  BY DEF StackInv, Frames
<1>1. CASE Deciding
  <2>0. Caller = [act EXCEPT ![Len(act)].calls = TRUE]
    BY <1>1 DEF Caller
  <2>1. PICK p \in Called : Running(p)
    BY <1>1 DEF Deciding, Called
  <2>2. /\ Len(act) \in Nat \ {0} /\ Top \in DispatchType /\ Top = act[Len(act)]
        /\ Top.phase = p /\ Top.kind = "dispatch" /\ Pos(act, Len(act)) /\ RsiFits(Top)
    BY <2>1, TopDispatch
  <2>3. ~Top.gone
    <3>1. Top.kind # "guard" /\ act # <<>>
      BY <2>2, <1>0
    <3>2. AbandonRule = "once" => ~Top.gone
      BY <3>1 DEF UserCode
    <3> QED
      BY <2>2, <3>2 DEF RsiFits
  <2> DEFINE d == [Top EXCEPT !.calls = TRUE]
  <2>4. /\ d \in DispatchType /\ d.kind = "dispatch" /\ d.own = Top.own
        /\ d.e = Top.e /\ d.phase = p /\ d.at = Top.at /\ d.gone = Top.gone
        /\ d.rsi = Top.rsi /\ d.calls = TRUE
    BY <2>2 DEF DispatchType
  <2> HIDE DEF d
  <2>5. /\ Caller \in Seq(ActivationType) /\ Len(Caller) = Len(act)
        /\ Caller[Len(act)] = d /\ d = [act[Len(act)] EXCEPT !.calls = TRUE]
        /\ \A i \in 1 .. Len(act) - 1 : Caller[i] = act[i]
    <3>0. d = [act[Len(act)] EXCEPT !.calls = TRUE]
      BY <2>2 DEF d
    <3>1. Caller = Put(act, Len(act), d)
      BY <2>0, <3>0 DEF Put
    <3>2. d \in ActivationType /\ Len(act) \in 1 .. Len(act)
      BY <2>2, <2>4 DEF ActivationType
    <3>3. \A i \in 1 .. Len(act) - 1 : i \in 1 .. Len(act) /\ i # Len(act)
      BY <2>2
    <3>4. /\ Caller \in Seq(ActivationType) /\ Len(Caller) = Len(act)
          /\ Caller[Len(act)] = d
          /\ \A i \in 1 .. Len(act) : i # Len(act) => Caller[i] = act[i]
      BY ONLY <1>0, <3>1, <3>2 DEF Put
    <3> QED
      BY <3>0, <3>3, <3>4
  <2>6. FilterAt(Caller, Len(act))
    <3>1. FilterAt(act, Len(act))
      BY <2>2 DEF Pos
    <3> QED
      BY <2>2, <2>4, <2>5, <3>1 DEF FilterAt
  <2>7. RsiFits(d)
    BY <2>2, <2>4 DEF RsiFits
  <2>8. Rewrites(act, Caller)
    <3>1. \A i \in 1 .. Len(act) - 1 : Like(act[i], Caller[i])
      BY <2>5 DEF Like
    <3> QED
      BY <2>2, <2>4, <2>5, <2>6, <2>7, <3>1 DEF Rewrites
  <2>9. ~OwnGone(act)
    BY <2>2, <2>3 DEF OwnGone
  <2>10. front = win /\ IsInner(act, Len(act) + 1, front)
    BY <2>9, Innermost
  <2>11. Len(act) + 1 \in 0 .. Len(act) + 1
    BY <1>0
  <2>12. Frames(Caller) /\ IsInner(Caller, Len(act) + 1, front)
    BY <1>0, <2>8, <2>10, <2>11, RewriteFrames
  <2>13. \A i \in 1 .. Len(act) : i \in 1 .. Len(act) - 1 \/ i = Len(act)
    BY <1>0
  <2>14. Waits(d)
    BY <2>3, <2>4 DEF Waits
  <2>15. \A i \in 1 .. Len(act) : Waits(Caller[i])
    BY <1>0, <2>5, <2>13, <2>14 DEF Frames
  <2>16. Ready(Caller, front)
    BY <2>4, <2>5, <2>12, <2>15 DEF Ready
  <2> QED
    BY <1>0, <2>2, <2>4, <2>5, <2>10, <2>13, <2>16
<1>2. CASE ~Deciding
  <2>0. Caller = act
    BY <1>2 DEF Caller
  <2>1. Len(act) > 0 => act[Len(act)].kind = "guard"
    BY <1>0, <1>2 DEF UserCode, Top
  <2>2. ~OwnGone(act)
    BY <2>1 DEF OwnGone
  <2>3. front = win /\ IsInner(act, Len(act) + 1, front)
    BY <2>2, Innermost
  <2>4. \A i \in 1 .. Len(act) : i \in 1 .. Len(act) - 1 \/ i = Len(act)
    BY <1>0
  <2>5. \A i \in 1 .. Len(act) : Waits(act[i])
    BY <1>0, <2>1, <2>4 DEF Frames, Waits
  <2>6. Ready(act, front)
    BY <1>0, <2>1, <2>3, <2>5 DEF Ready
  <2> QED
    BY <1>0, <2>0, <2>1, <2>3, <2>6
<1> QED
  BY <1>1, <1>2

(* What is pushed is pushed on the caller.                                 *)
LEMMA PushCaller ==
  ASSUME NEW a, Push(a)
  PROVE  act' = Caller \o a
  BY DEF Push, Caller

(* sigguarded() remembers the innermost raise.                             *)
LEMMA SigguardedStack ==
  ASSUME AbandonRule # "any", StackInv(act, front, win), Sigguarded
  PROVE  StackInv(act', front', win')
<1>1. PICK g \in GuardSets : Push(<<Guard(g)>>)
  BY DEF Sigguarded
<1>2. UserCode /\ front' = front /\ win' = win
  BY DEF Sigguarded
<1> DEFINE s == Caller
           a == Guard(g)
<1>3. /\ Ready(s, front) /\ front = win /\ Len(s) \in Nat
      /\ Len(s) > 0 => s[Len(s)].kind # "raise"
  BY <1>2, CallerReady
<1>4. act' = s \o <<a>>
  BY <1>1, PushCaller
<1>5. front \in Nat /\ s \in Seq(ActivationType)
  BY <1>3 DEF Ready, IsInner, Frames
<1>6. /\ a \in GuardType /\ a.kind = "guard" /\ a.front = front /\ a.win = win
  BY <1>3, <1>5 DEF Guard, GuardType, Rsi, RsiType
<1> HIDE DEF s, a
<1>7. a \in ActivationType
  BY <1>6 DEF ActivationType
<1>8. Pos(s \o <<a>>, Len(s) + 1)
  <2> DEFINE t == s \o <<a>>
  <2>1. /\ t[Len(s) + 1] = a /\ \A i \in 1 .. Len(s) : t[i] = s[i]
    BY <1>3, <1>5, <1>7
  <2> HIDE DEF t
  <2>2. IsInner(t, Len(s) + 1, front)
    BY <1>3, <2>1 DEF Ready, IsInner
  <2>3. Len(s) + 1 > 1 => t[Len(s) + 1 - 1].kind # "raise"
    BY <1>3, <2>1 DEF Ready
  <2> QED
    BY <1>3, <1>6, <2>1, <2>2, <2>3 DEF Pos, HeadsAt, OwnAt, FilterAt, t
<1>9. /\ Frames(act') /\ Len(act') = Len(s) + 1 /\ act'[Len(s) + 1] = a
      /\ IsInner(act', Len(s) + 2, front)
  BY <1>3, <1>4, <1>6, <1>7, <1>8, PushOne
<1>10. (Len(s) + 1) + 1 = Len(s) + 2
  BY <1>3
<1> QED
  BY <1>2, <1>3, <1>6, <1>9, <1>10 DEF StackInv, TopFits, OwnGone

(* The frames of a guard that returns, of a raise that is left or of a     *)
(* fault that is resumed are not above a raise.                            *)
LEMMA GuardedReturnsStack ==
  ASSUME StackInv(act, front, win), GuardedReturns
  PROVE  StackInv(act', front', win')
<1>1. /\ act # <<>> /\ act[Len(act)].kind = "guard" /\ act' = SubSeq(act, 1, Len(act) - 1)
      /\ front' = front /\ win' = win
  BY DEF GuardedReturns, Top, Front
<1>2. Frames(act) /\ Len(act) \in Nat \ {0}
  BY <1>1 DEF StackInv, Frames
<1>3. ~OwnGone(act)
  BY <1>1 DEF OwnGone
<1>4. front = win /\ IsInner(act, Len(act) + 1, front)
  BY <1>3, Innermost
<1> DEFINE k == Len(act) - 1
<1>5. k \in 0 .. Len(act) - 1 /\ k + 1 = Len(act)
  BY <1>2
<1>6. IsInner(act, k + 1, front)
  BY <1>1, <1>2, <1>4, <1>5 DEF IsInner
<1>7. k > 0 => act[k].kind # "raise"
  <2>1. k > 0 => k \in 1 .. Len(act) - 1
    BY <1>2
  <2> QED
    BY <1>1, <1>2, <1>5, <2>1, AboveRaise
<1> HIDE DEF k
<1>8. StackInv(SubSeq(act, 1, k), front, front)
  BY <1>2, <1>5, <1>6, <1>7, CutStack
<1> QED
  BY <1>1, <1>4, <1>8 DEF k

(* The stack is cut below a guard or a raise, and the heads become what it *)
(* remembers.                                                              *)
LEMMA LeaveStack ==
  ASSUME NEW s, Frames(s), NEW r \in 1 .. Len(s), s[r].kind # "dispatch"
  PROVE  s[r].front = s[r].win /\ StackInv(SubSeq(s, 1, r - 1), s[r].front, s[r].win)
<1>0. Len(s) \in Nat
  BY DEF Frames
<1>1. s[r].front = s[r].win /\ IsInner(s, r, s[r].front)
  BY DEF Frames, Pos, HeadsAt
<1> DEFINE k == r - 1
<1>2. k \in 0 .. Len(s) - 1 /\ k + 1 = r
  BY <1>0
<1>3. k > 0 => s[k].kind # "raise"
  <2>1. k > 0 => k \in 1 .. Len(s) - 1
    BY <1>0
  <2> QED
    BY <1>2, <2>1, AboveRaise
<1> HIDE DEF k
<1>4. StackInv(SubSeq(s, 1, k), s[r].front, s[r].front)
  BY <1>1, <1>2, <1>3, CutStack
<1> QED
  BY <1>1, <1>4 DEF k

(* The heads that a recovery puts back are those of its guard.             *)
LEMMA FilterRecoverStack ==
  ASSUME StackInv(act, front, win), FilterRecover
  PROVE  StackInv(act', front', win')
<1>1. Running("filter")
  BY DEF FilterRecover
<1>2. /\ Top.at \in 1 .. Len(act) /\ Frames(act) /\ Pos(act, Len(act))
      /\ Top = act[Len(act)] /\ Top.kind = "dispatch" /\ Top.phase = "filter"
  BY <1>1, TopDispatch
<1>3. act[Top.at].kind = "guard"
  BY <1>2 DEF Pos, FilterAt
<1>4. StackInv(SubSeq(act, 1, Top.at - 1), act[Top.at].front, act[Top.at].win)
  BY <1>2, <1>3, LeaveStack
<1> QED
  BY <1>4 DEF FilterRecover

(* So are those that the setjmp() branch of a raise puts back.             *)
LEMMA ReturnToStack ==
  ASSUME StackInv(act, front, win), NEW r \in 1 .. Len(act),
         act[r].kind = "raise", ReturnTo(r)
  PROVE  StackInv(act', front', win')
<1>1. Frames(act)
  BY DEF StackInv
<1>2. StackInv(SubSeq(act, 1, r - 1), act[r].front, act[r].win)
  BY <1>1, LeaveStack
<1> QED
  BY <1>2 DEF ReturnTo

(* Execution continues after the exception.                                *)
LEMMA ResumeStack ==
  ASSUME StackInv(act, front, win), Resume
  PROVE  StackInv(act', front', win')
<1>1. Running("resume")
  BY DEF Resume
<1>2. /\ Len(act) \in Nat \ {0} /\ Frames(act) /\ Pos(act, Len(act)) /\ RsiFits(Top)
      /\ Top = act[Len(act)] /\ Top.kind = "dispatch" /\ Top.phase = "resume"
      /\ Top \in DispatchType
  BY <1>1, TopDispatch
<1>3. ~Top.gone
  BY <1>2 DEF RsiFits, Called
<1>4. CASE Top.own
  <2>1. /\ Len(act) - 1 \in 1 .. Len(act) - 1 /\ act[Len(act) - 1].kind = "raise"
    BY <1>1, <1>3, <1>4, OwnInnermost
  <2>2. ReturnTo(Len(act) - 1) /\ Len(act) - 1 \in 1 .. Len(act)
    BY <1>2, <1>4, <2>1 DEF Resume
  <2> QED
    BY <2>1, <2>2, ReturnToStack
<1>5. CASE ~Top.own
  <2>1. act' = SubSeq(act, 1, Len(act) - 1) /\ front' = front /\ win' = win
    BY <1>5 DEF Resume, Front
  <2>2. ~OwnGone(act)
    BY <1>2, <1>3 DEF OwnGone
  <2>3. front = win /\ IsInner(act, Len(act) + 1, front)
    BY <2>2, Innermost
  <2> DEFINE k == Len(act) - 1
  <2>4. k \in 0 .. Len(act) - 1 /\ k + 1 = Len(act)
    BY <1>2
  <2>5. IsInner(act, k + 1, front)
    BY <1>2, <2>3, <2>4 DEF IsInner
  <2>6. k > 0 => act[k].kind # "raise"
    <3>1. k > 0 => k \in 1 .. Len(act) - 1
      BY <1>2
    <3> QED
      BY <1>2, <1>5, <2>4, <3>1, AboveRaise
  <2> HIDE DEF k
  <2>7. StackInv(SubSeq(act, 1, k), front, front)
    BY <1>2, <2>4, <2>5, <2>6, CutStack
  <2> QED
    BY <2>1, <2>3, <2>7 DEF k
<1> QED
  BY <1>2, <1>4, <1>5 DEF DispatchType

(* A decider that has abandoned jumps to no point below another raise.     *)
LEMMA JumpOutStack ==
  ASSUME AbandonRule # "any", StackInv(act, front, win), JumpOut
  PROVE  StackInv(act', front', win')
<1>1. PICK p \in Called : Running(p)
  BY DEF JumpOut, Deciding, Called
<1>2. /\ Len(act) \in Nat \ {0} /\ Frames(act) /\ Pos(act, Len(act)) /\ RsiFits(Top)
      /\ Top = act[Len(act)] /\ Top.kind = "dispatch" /\ Top \in DispatchType
  BY <1>1, TopDispatch
<1>3. PICK k \in 0 .. Len(act) - 1 :
        /\ k > 0 => act[k].kind \in {"guard", "dispatch"}
        /\ front = 0 \/ k > front
        /\ act' = SubSeq(act, 1, k)
  BY DEF JumpOut
<1>4. Top.gone /\ AbandonRule = "once" /\ front' = front /\ win' = win
  BY <1>2 DEF JumpOut, RsiFits
<1>5. front = win
  BY DEF StackInv
<1>6. IsInner(act, k + 1, front)
  <2>1. CASE Top.own
    <3>1. OwnGone(act)
      BY <1>2, <1>4, <2>1 DEF OwnGone
    <3>2. IsInner(act, Len(act) - 1, front)
      BY <3>1 DEF StackInv
    <3>3. Len(act) > 1 /\ act[Len(act) - 1].kind = "raise"
      BY <1>2, <2>1 DEF Pos, OwnAt
    <3>4. k <= Len(act) - 2
      BY <1>2, <1>3, <3>3
    <3>5. front = 0 \/ k > front
      BY <1>3
    <3> QED
      BY <1>2, <3>2, <3>4, <3>5 DEF IsInner
  <2>2. CASE ~Top.own
    <3>1. ~OwnGone(act)
      BY <1>2, <2>2 DEF OwnGone
    <3>2. IsInner(act, Len(act) + 1, front)
      BY <3>1, Innermost
    <3>3. front = 0
      BY <1>2, <1>4, <2>2 DEF StackInv, TopFits
    <3> QED
      BY <1>2, <3>2, <3>3 DEF IsInner
  <2> QED
    BY <1>2, <2>1, <2>2 DEF DispatchType
<1>7. k > 0 => act[k].kind # "raise"
  BY <1>3
<1>8. StackInv(SubSeq(act, 1, k), front, front)
  BY <1>2, <1>6, <1>7, CutStack
<1> QED
  BY <1>3, <1>4, <1>5, <1>8

(* A new exception.                                                        *)
LEMMA NewDispatch ==
  ASSUME NEW e \in RaiseRecords \cup FaultRecords, NEW own \in BOOLEAN, NEW k \in Nat
  PROVE  /\ Dispatch(e, own, k) \in DispatchType
         /\ Dispatch(e, own, k) \in ActivationType
         /\ Dispatch(e, own, k).kind = "dispatch"
         /\ Dispatch(e, own, k).e = e /\ Dispatch(e, own, k).own = own
         /\ Dispatch(e, own, k).at = k /\ Dispatch(e, own, k).phase = "search"
         /\ ~Dispatch(e, own, k).gone /\ ~Dispatch(e, own, k).continued
         /\ Dispatch(e, own, k).who = "nobody" /\ Dispatch(e, own, k).passes = 0
         /\ RsiFits(Dispatch(e, own, k))
<1> DEFINE d == Dispatch(e, own, k)
<1>1. /\ d \in DispatchType /\ d.kind = "dispatch"
      /\ d.e = e /\ d.own = own /\ d.at = k /\ d.phase = "search"
      /\ d.gone = FALSE /\ d.continued = FALSE /\ d.who = "nobody" /\ d.passes = 0
  BY DEF Dispatch, DispatchType, Rsi, RsiType, Phases
<1> HIDE DEF d
<1>2. d \in ActivationType
  BY <1>1 DEF ActivationType
<1>3. RsiFits(d)
  BY <1>1 DEF RsiFits
<1> QED
  BY <1>1, <1>2, <1>3 DEF d

(* An exception is pushed on activations that wait.                        *)
LEMMA PushDispatch ==
  ASSUME NEW s, NEW f, Ready(s, f), NEW d \in ActivationType,
         d.kind = "dispatch", d.at \in 1 .. Len(s) + 1, d.phase = "search",
         ~d.gone, RsiFits(d),
         d.own <=> (Len(s) > 0 /\ s[Len(s)].kind = "raise"),
         d.own => d.e \in RaiseRecords /\ RecordMatches(s[Len(s)].record, d.e),
         ~d.own => d.e \in FaultRecords
  PROVE  StackInv(s \o <<d>>, f, f)
<1> DEFINE t == s \o <<d>>
<1>0. s \in Seq(ActivationType) /\ Len(s) \in Nat
  BY DEF Ready, Frames
<1>1. t[Len(s) + 1] = d /\ \A i \in 1 .. Len(s) : t[i] = s[i]
  BY <1>0
<1>2. Len(s) + 1 > 1 => Len(s) + 1 - 1 \in 1 .. Len(s) /\ Len(s) + 1 - 1 = Len(s)
  BY <1>0
<1> HIDE DEF t
<1>3. OwnAt(t, Len(s) + 1)
  <2>1. Len(s) > 0 <=> Len(s) + 1 > 1
    BY <1>0
  <2> QED
    BY <1>0, <1>1, <1>2, <2>1 DEF OwnAt
<1>4. Pos(t, Len(s) + 1)
  BY <1>0, <1>1, <1>3 DEF Pos, HeadsAt, FilterAt
<1>5. /\ Frames(t) /\ Len(t) = Len(s) + 1 /\ t[Len(s) + 1] = d
      /\ IsInner(t, Len(s) + 2, f)
  BY <1>4, PushOne DEF t
<1>6. (Len(s) + 1) + 1 = Len(s) + 2
  BY <1>0
<1> QED
  BY <1>5, <1>6 DEF StackInv, TopFits, OwnGone, t

(* User code faults.                                                       *)
LEMMA FaultStack ==
  ASSUME AbandonRule # "any", StackInv(act, front, win), Fault
  PROVE  StackInv(act', front', win')
<1>1. PICK c \in FaultCodes, p \in FaultParams :
        Push(<<Dispatch(ExceptionRecord(c, FALSE, p), FALSE, Len(act) + 1)>>)
  BY DEF Fault
<1>2. UserCode /\ front' = front /\ win' = win
  BY DEF Fault
<1> DEFINE e == ExceptionRecord(c, FALSE, p)
           d == Dispatch(e, FALSE, Len(act) + 1)
<1>3. /\ Ready(Caller, front) /\ front = win /\ Len(Caller) = Len(act) /\ Len(act) \in Nat
      /\ Len(act) > 0 => Caller[Len(act)].kind # "raise"
  BY <1>2, CallerReady
<1>4. act' = Caller \o <<d>>
  BY <1>1, PushCaller
<1>5. e \in FaultRecords
  BY DEF FaultRecords, ExceptionRecord
<1> HIDE DEF e
<1>20. d = Dispatch(e, FALSE, Len(act) + 1)
  OBVIOUS
<1> HIDE DEF d
<1>6. /\ d \in ActivationType /\ d.kind = "dispatch" /\ d.e = e /\ d.own = FALSE
      /\ d.at = Len(act) + 1 /\ d.phase = "search" /\ ~d.gone /\ RsiFits(d)
  <2>1. e \in RaiseRecords \cup FaultRecords /\ Len(act) + 1 \in Nat
    BY <1>3, <1>5
  <2>2. \A o \in BOOLEAN :
          LET b == Dispatch(e, o, Len(act) + 1)
          IN  /\ b \in ActivationType /\ b.kind = "dispatch" /\ b.e = e /\ b.own = o
              /\ b.at = Len(act) + 1 /\ b.phase = "search" /\ ~b.gone /\ RsiFits(b)
    BY <2>1, NewDispatch
  <2> QED
    BY <1>20, <2>2
<1>7. d.at \in 1 .. Len(Caller) + 1
  BY <1>3, <1>6
<1>8. StackInv(Caller \o <<d>>, front, front)
  BY <1>3, <1>5, <1>6, <1>7, PushDispatch
<1> QED
  BY <1>2, <1>3, <1>4, <1>8

(* stdc_raise() becomes the head of both chains, and raises an exception   *)
(* that matches its snapshot.                                              *)
LEMMA StdcRaiseStack ==
  ASSUME AbandonRule # "any", StackInv(act, front, win), StdcRaise
  PROVE  /\ StackInv(act', front', win')
         /\ Len(act') = Len(act) + 2 /\ Len(act) \in Nat
         /\ \A i \in 1 .. Len(act) : act'[i] = Caller[i]
         /\ \E c \in RaiseSignos, p \in RaiseParams :
              act'[Len(act) + 2] =
                Dispatch(ExceptionRecord(CodeFromSignal(c), MarksSoftware, p), TRUE, Len(act) + 1)
         /\ \E e : act'[Len(act) + 1] = Raised(e)
<1>1. PICK c \in RaiseSignos, p \in RaiseParams :
        /\ Push(<<Raised(ExceptionRecord(CodeFromSignal(c), FALSE, p)),
                  Dispatch(ExceptionRecord(CodeFromSignal(c), MarksSoftware, p),
                           TRUE, Len(act) + 1)>>)
        /\ front' = Len(act) + 1 /\ win' = Len(act) + 1
  BY DEF StdcRaise
<1>2. UserCode
  BY DEF StdcRaise
<1> DEFINE snapshot == ExceptionRecord(CodeFromSignal(c), FALSE, p)
           e == ExceptionRecord(CodeFromSignal(c), MarksSoftware, p)
           a == Raised(snapshot)
           d == Dispatch(e, TRUE, Len(act) + 1)
           s == Caller
           n == Len(act)
<1>3. /\ Ready(s, front) /\ front = win /\ Len(s) = n /\ n \in Nat
      /\ n > 0 => s[n].kind # "raise"
  BY <1>2, CallerReady
<1>4. act' = s \o <<a, d>>
  BY <1>1, PushCaller
<1>5. e \in RaiseRecords /\ snapshot \in Snapshots /\ RecordMatches(snapshot, e)
  <2>0. CodeFromSignal(c) \in RaiseCodes
    BY DEF RaiseCodes
  <2>1. e \in RaiseRecords
    BY <2>0 DEF RaiseRecords, ExceptionRecord
  <2>2. snapshot \in Snapshots
    BY <2>0 DEF Snapshots, ExceptionRecord
  <2>3. RecordMatches(snapshot, e)
    BY DEF RecordMatches, ExceptionRecord
  <2> QED
    BY <2>1, <2>2, <2>3
<1> HIDE DEF e, snapshot
<1>6. front \in Nat /\ s \in Seq(ActivationType)
  BY <1>3 DEF Ready, IsInner, Frames
<1>7. /\ a \in RaiseType /\ a.kind = "raise" /\ a.front = front /\ a.win = win
      /\ a.record = snapshot
  BY <1>3, <1>5, <1>6 DEF Raised, RaiseType
<1>20. d = Dispatch(e, TRUE, n + 1) /\ a = Raised(snapshot) /\ n = Len(act)
  OBVIOUS
<1> HIDE DEF a, d, s, n
<1>8. /\ d \in ActivationType /\ d.kind = "dispatch" /\ d.e = e /\ d.own = TRUE
      /\ d.at = n + 1 /\ d.phase = "search" /\ ~d.gone /\ RsiFits(d)
  <2>1. e \in RaiseRecords \cup FaultRecords /\ n + 1 \in Nat
    BY <1>3, <1>5
  <2>2. \A o \in BOOLEAN :
          LET b == Dispatch(e, o, n + 1)
          IN  /\ b \in ActivationType /\ b.kind = "dispatch" /\ b.e = e /\ b.own = o
              /\ b.at = n + 1 /\ b.phase = "search" /\ ~b.gone /\ RsiFits(b)
    BY <2>1, NewDispatch
  <2> QED
    BY <1>20, <2>2
<1>9. a \in ActivationType
  BY <1>7 DEF ActivationType
<1> DEFINE t == s \o <<a>>
<1>10. t[n + 1] = a /\ \A i \in 1 .. n : t[i] = s[i]
  BY <1>3, <1>6, <1>9
<1>11. t \o <<d>> = s \o <<a, d>>
  <2> DEFINE u == t \o <<d>>
             v == s \o <<a, d>>
  <2>1. /\ u \in Seq(ActivationType) /\ v \in Seq(ActivationType)
        /\ Len(u) = n + 2 /\ Len(v) = n + 2
    BY <1>3, <1>6, <1>8, <1>9
  <2>2. ASSUME NEW i \in 1 .. n + 2 PROVE u[i] = v[i]
    BY <1>3, <1>6, <1>8, <1>9
  <2> HIDE DEF u, v
  <2>3. u = v
    BY <2>1, <2>2
  <2> QED
    BY <2>3 DEF u, v
<1> HIDE DEF t
<1>12. Pos(t, n + 1)
  <2>1. IsInner(t, n + 1, front)
    BY <1>3, <1>10 DEF Ready, IsInner
  <2>2. n + 1 > 1 => t[n + 1 - 1].kind # "raise"
    BY <1>3, <1>10
  <2> QED
    BY <1>3, <1>7, <1>10, <2>1, <2>2 DEF Pos, HeadsAt, OwnAt, FilterAt
<1>13. Frames(t) /\ Len(t) = n + 1
  BY <1>3, <1>9, <1>12, PushOne DEF t
<1>14. Ready(t, n + 1)
  <2>1. \A i \in 1 .. n + 1 : i \in 1 .. n \/ i = n + 1
    BY <1>3
  <2>2. \A i \in 1 .. n + 1 : Waits(t[i])
    BY <1>3, <1>7, <1>10, <2>1 DEF Ready, Waits
  <2>3. IsInner(t, (n + 1) + 1, n + 1)
    BY <1>3, <1>7, <1>10 DEF IsInner
  <2> QED
    BY <1>13, <2>2, <2>3 DEF Ready
<1>15. StackInv(t \o <<d>>, n + 1, n + 1)
  <2>1. d.at \in 1 .. Len(t) + 1 /\ Len(t) > 0
    BY <1>3, <1>8, <1>13
  <2>2. t[Len(t)].kind = "raise" /\ RecordMatches(t[Len(t)].record, d.e)
    BY <1>5, <1>7, <1>8, <1>10, <1>13
  <2> QED
    BY <1>5, <1>8, <1>14, <2>1, <2>2, PushDispatch
<1>16. /\ Len(act') = n + 2 /\ \A i \in 1 .. n : act'[i] = s[i]
       /\ act'[n + 1] = a /\ act'[n + 2] = d
  BY <1>3, <1>4, <1>6, <1>8, <1>9
<1>17. \E q \in RaiseSignos, o \in RaiseParams :
         act'[n + 2] = Dispatch(ExceptionRecord(CodeFromSignal(q), MarksSoftware, o), TRUE, n + 1)
  BY <1>16, <1>20 DEF e
<1>18. \E o : act'[n + 1] = Raised(o)
  BY <1>16, <1>20
<1> QED
  BY <1>1, <1>3, <1>4, <1>11, <1>15, <1>16, <1>17, <1>18, <1>20 DEF s

-----------------------------------------------------------------------------
(* The exception that is dispatched goes on.                               *)

(* The stack a differs from s in what the invariant does not look at.      *)
Alike(s, a) == /\ a \in Seq(ActivationType) /\ Len(a) = Len(s)
               /\ \A i \in 1 .. Len(s) - 1 : Like(s[i], a[i])

(* d may replace the exception on top of s.                                *)
Continues(s, d) == /\ d \in DispatchType /\ d.kind = "dispatch"
                   /\ d.own = s[Len(s)].own /\ d.e = s[Len(s)].e
                   /\ d.at = s[Len(s)].at /\ ~d.gone

(* A stack is alike itself.                                                *)
LEMMA AlikeSelf ==
  ASSUME NEW s, Frames(s)
  PROVE  Alike(s, s)
  BY DEF Frames, Alike, Like

(* The top is replaced by an exception that no frame's decider decides.    *)
LEMMA PutTop ==
  ASSUME StackInv(act, front, win), NEW p, Running(p), NEW a, Alike(act, a),
         NEW d, Continues(act, d), d.phase # "filter", RsiFits(d),
         NEW t, t = Put(a, Len(act), d)
  PROVE  /\ Rewrites(act, t) /\ t[Len(act)] = d /\ Len(t) = Len(act)
         /\ \A i \in 1 .. Len(act) - 1 : t[i] = a[i]
<1>1. /\ Len(act) \in Nat \ {0} /\ Len(act) \in 1 .. Len(act) /\ Top = act[Len(act)]
      /\ Top.kind = "dispatch" /\ Top.at \in 1 .. Len(act)
  BY TopDispatch
<1>2. /\ a \in Seq(ActivationType) /\ Len(a) = Len(act) /\ d \in ActivationType
      /\ Len(act) \in 1 .. Len(a)
  BY <1>1 DEF Alike, Continues, ActivationType
<1>3. /\ t \in Seq(ActivationType) /\ Len(t) = Len(act) /\ t[Len(act)] = d
      /\ \A i \in 1 .. Len(act) : i # Len(act) => t[i] = a[i]
  BY <1>1, <1>2 DEF Put
<1>4. \A i \in 1 .. Len(act) - 1 : i \in 1 .. Len(act) /\ i # Len(act)
  BY <1>1
<1>5. \A i \in 1 .. Len(act) - 1 : t[i] = a[i] /\ Like(act[i], t[i])
  BY <1>3, <1>4 DEF Alike
<1>6. FilterAt(t, Len(act))
  BY <1>1, <1>3 DEF FilterAt, Continues
<1> QED
  BY <1>1, <1>3, <1>5, <1>6 DEF Rewrites, Continues

(* A handler returns.                                                      *)
Returned(a, d, result) ==
  /\ Rewrites(act, act')
  /\ \A i \in 1 .. Len(act) - 1 : act'[i] = a[i]
  /\ LET k == act'[Len(act)]
     IN  /\ ~k.gone /\ k.who = d.who /\ k.passes = d.passes
         /\ k.phase = IF d.by = "continue" THEN "resume" ELSE "continue"
         /\ k.continued <=> (result = "EXECUTION" \/ d.continued)
  /\ ended' = IF result = "EXECUTION" \/ d.continued THEN "no" ELSE "terminated"
  /\ decision' = IF d.by = "continue" \/ SignalFromCode(d.e.code) = 0 THEN NoDecision
                 ELSE [record |-> d.e, result |-> result]

(* HandlerReturns() does that.                                             *)
LEMMA HandlerReturned ==
  ASSUME StackInv(act, front, win), NEW p, Running(p), NEW a, Alike(act, a),
         NEW d, Continues(act, d), NEW result, HandlerReturns(a, d, result)
  PROVE  Returned(a, d, result)
<1> DEFINE goesOn == result = "EXECUTION" \/ d.continued
           ph == IF d.by = "continue" THEN "resume" ELSE "continue"
           k == [d EXCEPT !.phase = ph, !.continued = goesOn]
<1>1. Len(a) = Len(act) /\ d \in DispatchType
  BY DEF Alike, Continues
<1>2. /\ act' = [a EXCEPT ![Len(act)] = k]
      /\ ended' = IF goesOn THEN "no" ELSE "terminated"
      /\ decision' = IF d.by = "continue" \/ SignalFromCode(d.e.code) = 0 THEN NoDecision
                     ELSE [record |-> d.e, result |-> result]
  BY <1>1 DEF HandlerReturns
<1>3. ph \in Phases /\ goesOn \in BOOLEAN /\ ph \notin Called
  BY <1>1 DEF Phases, Called, DispatchType
<1> HIDE DEF goesOn, ph
<1>4. /\ k \in DispatchType /\ k.phase = ph /\ k.continued = goesOn
      /\ k.kind = d.kind /\ k.own = d.own /\ k.e = d.e /\ k.at = d.at
      /\ k.gone = d.gone /\ k.who = d.who /\ k.passes = d.passes
  BY <1>1, <1>3 DEF DispatchType
<1> HIDE DEF k
<1>5. Continues(act, k) /\ k.phase # "filter" /\ RsiFits(k)
  BY <1>3, <1>4 DEF Continues, RsiFits, Called
<1>6. /\ Rewrites(act, act') /\ act'[Len(act)] = k
      /\ \A i \in 1 .. Len(act) - 1 : act'[i] = a[i]
  <2>1. act' = Put(a, Len(act), k)
    BY <1>2 DEF Put
  <2> QED
    BY <1>5, <2>1, PutTop
<1>7. /\ ~k.gone /\ k.who = d.who /\ k.passes = d.passes /\ k.phase = ph
      /\ k.continued <=> goesOn
  BY <1>4, <1>5 DEF Continues
<1> QED
  BY <1>2, <1>6, <1>7 DEF Returned, goesOn, ph

(* The flags of the innermost raise may be set.                            *)
Flagged(r, c, u) == [r EXCEPT !.claimed = c, !.unclaimed = u]

(* Nothing else looks at them.                                             *)
LEMMA FlagRaise ==
  ASSUME StackInv(act, front, win), win # 0, NEW c \in BOOLEAN, NEW u \in BOOLEAN,
         NEW a, a = Put(act, win, Flagged(act[win], c, u))
  PROVE  /\ Alike(act, a) /\ a[win].claimed = c /\ a[win].unclaimed = u
         /\ \A i \in 1 .. Len(act) : i # win => a[i] = act[i]
         /\ a[win] \in ActivationType /\ Like(act[win], a[win])
<1>1. /\ win \in 1 .. Len(act) - 1 /\ act[win] \in RaiseType /\ win \in 1 .. Len(act)
      /\ act[win].kind = "raise"
  BY WinRaise
<1>2. act \in Seq(ActivationType) /\ Len(act) \in Nat
  BY DEF StackInv, Frames
<1> DEFINE r == Flagged(act[win], c, u)
<1>3. /\ r \in RaiseType /\ r.kind = "raise" /\ r.record = act[win].record
      /\ r.front = act[win].front /\ r.win = act[win].win
      /\ r.claimed = c /\ r.unclaimed = u
  BY <1>1 DEF RaiseType, Flagged
<1>4. a = Put(act, win, r)
  OBVIOUS
<1> HIDE DEF r
<1>5. r \in ActivationType
  BY <1>3 DEF ActivationType
<1>6. /\ a \in Seq(ActivationType) /\ Len(a) = Len(act) /\ a[win] = r
      /\ \A i \in 1 .. Len(act) : i # win => a[i] = act[i]
  BY ONLY <1>1, <1>2, <1>4, <1>5, PutAt
<1>7. Like(act[win], r)
  BY <1>1, <1>3 DEF Like
<1>8. \A i \in 1 .. Len(act) - 1 : Like(act[i], a[i])
  <2>1. \A i \in 1 .. Len(act) - 1 : i \in 1 .. Len(act)
    BY <1>2
  <2> QED
    BY <1>6, <1>7, <2>1 DEF Like
<1> QED
  BY <1>3, <1>5, <1>6, <1>7, <1>8 DEF Alike

(* win32_unclaimed_software_raise() and the return of its handler.         *)
Marks(a) == /\ Alike(act, a)
            /\ a[win].claimed = act[win].claimed
            /\ a[win].unclaimed <=> (act[win].unclaimed \/ ~act[win].claimed)
            /\ \A i \in 1 .. Len(act) : i # win => a[i] = act[i]

ReturnedUnclaimed(d) ==
  \/ /\ MatchingRaiseFrame(d.e)
     /\ \E a : Marks(a) /\ Returned(a, d, "EXECUTION")
  \/ ~MatchingRaiseFrame(d.e) /\ Returned(act, d, "SEARCH")

(* Either the raise is marked and goes on, or the search goes on.          *)
LEMMA UnclaimedReturned ==
  ASSUME StackInv(act, front, win), NEW p, Running(p),
         NEW d, Continues(act, d), Unclaimed(d)
  PROVE  ReturnedUnclaimed(d)
<1>1. CASE MatchingRaiseFrame(d.e)
  <2>1. win # 0
    BY <1>1 DEF MatchingRaiseFrame
  <2>2. act[win] \in RaiseType
    BY <2>1, WinRaise
  <2> DEFINE c == act[win].claimed
             u == act[win].unclaimed \/ ~act[win].claimed
             a == [act EXCEPT ![win].unclaimed = @ \/ ~act[win].claimed]
  <2>3. HandlerReturns(a, d, "EXECUTION")
    BY <1>1 DEF Unclaimed
  <2>4. c \in BOOLEAN /\ u \in BOOLEAN
    BY <2>2 DEF RaiseType
  <2>5. [act[win] EXCEPT !.claimed = c, !.unclaimed = u] = [act[win] EXCEPT !.unclaimed = u]
    BY <2>2 DEF RaiseType
  <2>7. a = Put(act, win, Flagged(act[win], c, u))
    BY <2>5 DEF Put, Flagged
  <2> HIDE DEF a, c, u
  <2>8. /\ Alike(act, a) /\ a[win].claimed = c /\ a[win].unclaimed = u
        /\ \A i \in 1 .. Len(act) : i # win => a[i] = act[i]
    BY <2>1, <2>4, <2>7, FlagRaise
  <2>9. Marks(a)
    BY <2>8 DEF Marks, c, u
  <2>10. Returned(a, d, "EXECUTION")
    BY <2>3, <2>8, HandlerReturned
  <2> QED
    BY <1>1, <2>9, <2>10 DEF ReturnedUnclaimed
<1>2. CASE ~MatchingRaiseFrame(d.e)
  <2>1. HandlerReturns(act, d, "SEARCH")
    BY <1>2 DEF Unclaimed
  <2>2. Alike(act, act)
    BY AlikeSelf DEF StackInv
  <2> QED
    BY <1>2, <2>1, <2>2, HandlerReturned DEF ReturnedUnclaimed
<1> QED
  BY <1>1, <1>2

(* A global decider is called.                                             *)
Asks(d) == /\ Rewrites(act, act')
           /\ \A i \in 1 .. Len(act) - 1 : act'[i] = act[i]
           /\ LET k == act'[Len(act)]
              IN  /\ ~k.gone /\ k.phase = "decider" /\ k.who = d.who
                  /\ k.passes = d.passes /\ k.continued = d.continued

(* What a run of the global pass does.                                     *)
Passed(by, d) ==
  LET signo == SignalFromCode(Top.e.code)
  IN  /\ Continues(act, d) /\ d.by = by /\ d.passes = Top.passes + 1
      /\ d.who = Top.who /\ d.continued = Top.continued
      /\ \/ /\ signo \in mapped /\ Asks(d) /\ ended' = ended
            /\ decision' = IF by = "unhandled" THEN NoDecision ELSE decision
         \/ signo = 0 /\ Returned(act, d, "SEARCH")
         \/ signo # 0 /\ ReturnedUnclaimed(d)

(* win32_global_decider_pass() does that.                                  *)
LEMMA PassPassed ==
  ASSUME StackInv(act, front, win), NEW p, Running(p), ~Top.gone,
         NEW by \in {"unhandled", "continue"}, GlobalPass(by)
  PROVE  \E d : Passed(by, d)
<1> DEFINE d == [Top EXCEPT !.by = by, !.passes = @ + 1, !.rsi = Rsi(0)]
           signo == SignalFromCode(Top.e.code)
<1>1. Top \in DispatchType /\ Top = act[Len(act)] /\ Frames(act)
  BY TopDispatch
<1>2. /\ d \in DispatchType /\ d.kind = Top.kind /\ d.own = Top.own /\ d.e = Top.e
      /\ d.at = Top.at /\ d.gone = Top.gone /\ d.by = by
      /\ d.passes = Top.passes + 1 /\ d.who = Top.who
      /\ d.continued = Top.continued /\ d.rsi = Rsi(0)
  <2>1. Rsi(0) \in RsiType
    BY DEF Rsi, RsiType
  <2>2. Top.passes + 1 \in Nat
    BY <1>1 DEF DispatchType
  <2> QED
    BY <1>1, <2>1, <2>2 DEF DispatchType
<1>3. Alike(act, act)
  BY <1>1, AlikeSelf
<1>4. CASE signo \in mapped /\ Deciders > 0
  <2> DEFINE k == [d EXCEPT !.phase = "decider", !.n = 1]
  <2>1. /\ act' = [act EXCEPT ![Len(act)] = k] /\ ended' = ended
        /\ decision' = IF by = "unhandled" THEN NoDecision ELSE decision
    BY <1>4 DEF GlobalPass, SetTop
  <2> HIDE DEF d
  <2>2. /\ k \in DispatchType /\ k.kind = d.kind /\ k.own = d.own /\ k.e = d.e
        /\ k.at = d.at /\ k.gone = d.gone /\ k.phase = "decider"
        /\ k.passes = d.passes /\ k.who = d.who
        /\ k.continued = d.continued /\ k.rsi = d.rsi
    BY <1>2 DEF DispatchType, Phases
  <2> HIDE DEF k
  <2>3. Continues(act, k) /\ Continues(act, d)
    BY <1>1, <1>2, <2>2, TopDispatch DEF Continues
  <2>4. RsiFits(k) /\ ~k.gone /\ k.phase # "filter"
    BY <1>2, <2>2 DEF RsiFits, Rsi
  <2>5. act' = Put(act, Len(act), k)
    BY <2>1 DEF Put
  <2>6. /\ Rewrites(act, act') /\ act'[Len(act)] = k
        /\ \A i \in 1 .. Len(act) - 1 : act'[i] = act[i]
    BY <1>3, <2>3, <2>4, <2>5, PutTop
  <2>7. Asks(d)
    BY <2>2, <2>4, <2>6 DEF Asks
  <2>8. Passed(by, d)
    BY <1>2, <1>4, <2>1, <2>3, <2>7 DEF Passed
  <2> QED
    BY <2>8
<1>5. CASE ~(signo \in mapped /\ Deciders > 0)
  <2>1. IF signo = 0 THEN HandlerReturns(act, d, "SEARCH") ELSE Unclaimed(d)
    BY <1>5 DEF GlobalPass
  <2> HIDE DEF d
  <2>2. Continues(act, d)
    BY <1>1, <1>2, TopDispatch DEF Continues
  <2>3. CASE signo = 0
    <3>1. Returned(act, d, "SEARCH")
      BY <1>3, <2>1, <2>2, <2>3, HandlerReturned
    <3>2. Passed(by, d)
      BY <1>2, <2>2, <2>3, <3>1 DEF Passed
    <3> QED
      BY <3>2
  <2>4. CASE signo # 0
    <3>1. ReturnedUnclaimed(d)
      BY <2>1, <2>2, <2>4, UnclaimedReturned
    <3>2. Passed(by, d)
      BY <1>2, <2>2, <2>4, <3>1 DEF Passed
    <3> QED
      BY <3>2
  <2> QED
    BY <2>3, <2>4
<1> QED
  BY <1>4, <1>5

(* A handler's return, a call of a decider and a pass keep the chains.     *)
StepKeeps ==
  /\ Rewrites(act, act')
  /\ ~act'[Len(act)].gone /\ act'[Len(act)].phase # "filter"
  /\ ended' \in {"no", "terminated"}
  /\ decision'.result \in {"SEARCH", "EXECUTION"}

(* A handler's return does.                                                *)
LEMMA ReturnedKeeps ==
  ASSUME NEW a, NEW d, NEW result \in {"SEARCH", "EXECUTION"}, Returned(a, d, result)
  PROVE  StepKeeps
<1>1. decision'.result \in {"SEARCH", "EXECUTION"}
  <2>1. decision' \in {NoDecision, [record |-> d.e, result |-> result]}
    BY DEF Returned
  <2> QED
    BY <2>1 DEF NoDecision
<1> QED
  BY <1>1 DEF Returned, StepKeeps

(* So does an unclaimed raise's.                                           *)
LEMMA UnclaimedKeeps ==
  ASSUME NEW d, ReturnedUnclaimed(d)
  PROVE  StepKeeps
  BY ReturnedKeeps DEF ReturnedUnclaimed

(* So does a pass.                                                         *)
LEMMA PassedKeeps ==
  ASSUME ChainInv, NEW p, Running(p), NEW by, NEW d, Passed(by, d)
  PROVE  StepKeeps
<1>1. CASE Asks(d) /\ ended' = ended /\ decision' \in {NoDecision, decision}
  <2>1. decision'.result \in {"SEARCH", "EXECUTION"}
    BY <1>1 DEF NoDecision, ChainInv
  <2> QED
    BY <1>1, <2>1 DEF Asks, StepKeeps, Running
<1>2. CASE Returned(act, d, "SEARCH")
  BY <1>2, ReturnedKeeps
<1>3. CASE ReturnedUnclaimed(d)
  BY <1>3, UnclaimedKeeps
<1> QED
  BY <1>1, <1>2, <1>3 DEF Passed

(* Such a step keeps the invariant of the chains.                          *)
LEMMA KeepsChains ==
  ASSUME ChainInv, NEW p, Running(p), ~Top.gone, StepKeeps,
         UNCHANGED <<front, win, mapped, handlers, debugger>>
  PROVE  ChainInv'
<1>1. StackInv(act, front, win)
  BY DEF ChainInv
<1>2. Top = act[Len(act)]
  BY DEF Top
<1>3. StackInv(act', front, win)
  BY <1>1, <1>2, RewriteStack DEF StepKeeps
<1> QED
  BY <1>3 DEF ChainInv, StepKeeps

(* A handler or a filter lets the exception go on to phase q.              *)
Moves(q) == /\ Rewrites(act, act')
            /\ \A i \in 1 .. Len(act) - 1 : act'[i] = act[i]
            /\ LET k == act'[Len(act)]
               IN  /\ ~k.gone /\ k.phase = q /\ k.who = Top.who
                   /\ k.passes = Top.passes /\ k.continued = Top.continued

(* The phase is set.                                                       *)
LEMMA PhaseMoves ==
  ASSUME StackInv(act, front, win), NEW p, Running(p), ~Top.gone,
         NEW q \in Phases \ Called, SetTop([Top EXCEPT !.phase = q])
  PROVE  Moves(q)
<1> DEFINE k == [Top EXCEPT !.phase = q]
<1>1. Top \in DispatchType /\ Top = act[Len(act)] /\ Frames(act) /\ Top.kind = "dispatch"
  BY TopDispatch
<1>2. act' = Put(act, Len(act), k)
  BY DEF SetTop, Put
<1>3. /\ k \in DispatchType /\ k.kind = Top.kind /\ k.own = Top.own /\ k.e = Top.e
      /\ k.at = Top.at /\ k.gone = Top.gone /\ k.phase = q /\ k.passes = Top.passes
      /\ k.who = Top.who /\ k.continued = Top.continued
  BY <1>1 DEF DispatchType
<1> HIDE DEF k
<1>4. Continues(act, k) /\ RsiFits(k) /\ k.phase # "filter"
  BY <1>1, <1>3 DEF Continues, RsiFits, Called
<1>5. Alike(act, act)
  BY <1>1, AlikeSelf
<1>6. /\ Rewrites(act, act') /\ act'[Len(act)] = k
      /\ \A i \in 1 .. Len(act) - 1 : act'[i] = act[i]
  BY <1>2, <1>4, <1>5, PutTop
<1> QED
  BY <1>3, <1>6 DEF Moves

(* The decision of a frame's decider to go on searching.                   *)
LEMMA FilterNextChains ==
  ASSUME ChainInv, FilterNext
  PROVE  ChainInv' /\ Moves("search")
<1>1. StackInv(act, front, win) /\ Running("filter") /\ ~Top.gone
  BY DEF ChainInv, FilterNext
<1>2. Moves("search")
  <2>1. "search" \in Phases \ Called
    BY DEF Phases, Called
  <2> QED
    BY <1>1, <2>1, PhaseMoves DEF FilterNext
<1>3. StepKeeps /\ UNCHANGED <<front, win, mapped, handlers, debugger>>
  BY <1>2 DEF Moves, StepKeeps, FilterNext, ChainInv
<1> QED
  BY <1>1, <1>2, <1>3, KeepsChains

(* In a phase that is no decider's nothing is abandoned.                   *)
LEMMA NotGone ==
  ASSUME StackInv(act, front, win), NEW p, Running(p), p \notin Called
  PROVE  ~Top.gone
<1>1. RsiFits(Top) /\ Top.phase = p
  BY TopDispatch
<1> QED
  BY <1>1 DEF RsiFits

(* What the unhandled exception filter does.                               *)
Unhandled ==
  \/ debugger /\ Moves("continue") /\ UNCHANGED <<decision, ended>>
  \/ ~debugger /\ handlers /\ \E d : Passed("unhandled", d)
  \/ ~debugger /\ ~handlers /\ ended' = "terminated" /\ UNCHANGED <<act, decision>>

(* It keeps the chains.                                                    *)
LEMMA UnhandledChains ==
  ASSUME ChainInv, UnhandledExceptionFilter
  PROVE  ChainInv' /\ Unhandled
<1>1. StackInv(act, front, win) /\ Running("search")
  BY DEF ChainInv, UnhandledExceptionFilter
<1>2. ~Top.gone
  BY <1>1, NotGone DEF Called
<1>3. UNCHANGED <<front, win, mapped, handlers, debugger>> /\ debugger \in BOOLEAN /\ handlers \in BOOLEAN
  BY DEF UnhandledExceptionFilter, ChainInv
<1>4. CASE debugger
  <2>1. SetTop([Top EXCEPT !.phase = "continue"]) /\ UNCHANGED <<decision, ended>>
    BY <1>4 DEF UnhandledExceptionFilter
  <2>2. "continue" \in Phases \ Called
    BY DEF Phases, Called
  <2>3. Moves("continue")
    BY <1>1, <1>2, <2>1, <2>2, PhaseMoves
  <2>4. StepKeeps
    BY <2>1, <2>3 DEF Moves, StepKeeps, ChainInv
  <2> QED
    BY <1>1, <1>2, <1>3, <1>4, <2>1, <2>3, <2>4, KeepsChains DEF Unhandled
<1>5. CASE ~debugger /\ handlers
  <2>1. GlobalPass("unhandled")
    BY <1>5 DEF UnhandledExceptionFilter
  <2>2. PICK d : Passed("unhandled", d)
    BY <1>1, <1>2, <2>1, PassPassed
  <2>3. StepKeeps
    BY <1>1, <2>2, PassedKeeps
  <2> QED
    BY <1>1, <1>2, <1>3, <1>5, <2>2, <2>3, KeepsChains DEF Unhandled
<1>6. CASE ~debugger /\ ~handlers
  <2>1. ended' = "terminated" /\ UNCHANGED <<act, decision>>
    BY <1>6 DEF UnhandledExceptionFilter
  <2>2. ChainInv'
    BY <1>3, <2>1 DEF ChainInv
  <2> QED
    BY <1>6, <2>1, <2>2 DEF Unhandled
<1> QED
  BY <1>3, <1>4, <1>5, <1>6

(* What the vectored continue handler does.                                *)
Vectored ==
  LET match == RecordMatches(decision.record, Top.e)
      result == IF handlers /\ match THEN decision.result ELSE "SEARCH"
  IN  \/ handlers /\ ~match /\ \E d : Passed("continue", d)
      \/ /\ handlers => match
         /\ Moves("resume")
         /\ ended' = IF Top.continued \/ result = "EXECUTION" THEN "no" ELSE "terminated"
         /\ decision' = IF handlers THEN NoDecision ELSE decision

(* It keeps the chains.                                                    *)
LEMMA VectoredChains ==
  ASSUME ChainInv, VectoredContinueHandler
  PROVE  ChainInv' /\ Vectored
<1>1. StackInv(act, front, win) /\ Running("continue")
  BY DEF ChainInv, VectoredContinueHandler
<1>2. ~Top.gone
  BY <1>1, NotGone DEF Called
<1>3. UNCHANGED <<front, win, mapped, handlers, debugger>>
  BY DEF VectoredContinueHandler
<1> DEFINE match == RecordMatches(decision.record, Top.e)
           result == IF handlers /\ match THEN decision.result ELSE "SEARCH"
<1>4. CASE handlers /\ ~match
  <2>1. GlobalPass("continue")
    BY <1>4 DEF VectoredContinueHandler
  <2>2. PICK d : Passed("continue", d)
    BY <1>1, <1>2, <2>1, PassPassed
  <2>3. StepKeeps
    BY <1>1, <2>2, PassedKeeps
  <2> QED
    BY <1>1, <1>2, <1>3, <1>4, <2>2, <2>3, KeepsChains DEF Vectored
<1>5. CASE ~(handlers /\ ~match)
  <2>1. /\ SetTop([Top EXCEPT !.phase = "resume"])
        /\ ended' = IF Top.continued \/ result = "EXECUTION" THEN "no" ELSE "terminated"
        /\ decision' = IF handlers THEN NoDecision ELSE decision
    BY <1>5 DEF VectoredContinueHandler
  <2>2. "resume" \in Phases \ Called
    BY DEF Phases, Called
  <2>3. Moves("resume")
    BY <1>1, <1>2, <2>1, <2>2, PhaseMoves
  <2>4. decision'.result \in {"SEARCH", "EXECUTION"}
    BY <2>1 DEF ChainInv, NoDecision
  <2>5. StepKeeps
    BY <2>1, <2>3, <2>4 DEF Moves, StepKeeps
  <2> QED
    BY <1>1, <1>2, <1>3, <1>5, <2>1, <2>3, <2>5, KeepsChains DEF Vectored
<1> QED
  BY <1>4, <1>5

(* A global decider does not want the exception: the next one is asked, or *)
(* nobody is left.                                                         *)
LEMMA DeciderNextChains ==
  ASSUME ChainInv, DeciderNext
  PROVE  /\ ChainInv'
         /\ \/ Asks(Top) /\ UNCHANGED <<decision, ended>>
            \/ Continues(act, Top) /\ ReturnedUnclaimed(Top)
<1>1. StackInv(act, front, win) /\ Running("decider") /\ ~Top.gone
  BY DEF ChainInv, DeciderNext
<1>2. UNCHANGED <<front, win, mapped, handlers, debugger>>
  BY DEF DeciderNext
<1>3. /\ Top \in DispatchType /\ Top = act[Len(act)] /\ Frames(act)
      /\ Top.kind = "dispatch" /\ Top.phase = "decider" /\ RsiFits(Top)
  BY <1>1, TopDispatch
<1>4. Continues(act, Top)
  BY <1>1, <1>3 DEF Continues
<1>5. CASE Top.n < Deciders
  <2> DEFINE k == [Top EXCEPT !.n = @ + 1]
  <2>1. act' = Put(act, Len(act), k) /\ UNCHANGED <<decision, ended>>
    BY <1>5 DEF DeciderNext, SetTop, Put
  <2>2. /\ k \in DispatchType /\ k.kind = Top.kind /\ k.own = Top.own /\ k.e = Top.e
        /\ k.at = Top.at /\ k.gone = Top.gone /\ k.phase = Top.phase
        /\ k.passes = Top.passes /\ k.who = Top.who
        /\ k.continued = Top.continued /\ k.rsi = Top.rsi
    <3>1. Top.n + 1 \in Nat
      BY <1>3 DEF DispatchType
    <3> QED
      BY <1>3, <3>1 DEF DispatchType
  <2> HIDE DEF k
  <2>3. Continues(act, k) /\ RsiFits(k) /\ k.phase # "filter"
    BY <1>3, <1>4, <2>2 DEF Continues, RsiFits
  <2>4. Alike(act, act)
    BY <1>3, AlikeSelf
  <2>5. /\ Rewrites(act, act') /\ act'[Len(act)] = k
        /\ \A i \in 1 .. Len(act) - 1 : act'[i] = act[i]
    BY <1>1, <2>1, <2>3, <2>4, PutTop
  <2>6. Asks(Top)
    BY <1>1, <1>3, <2>2, <2>5 DEF Asks
  <2>7. StepKeeps
    BY <2>1, <2>6 DEF Asks, StepKeeps, ChainInv
  <2> QED
    BY <1>1, <1>2, <2>1, <2>6, <2>7, KeepsChains
<1>6. CASE ~(Top.n < Deciders)
  <2>1. Unclaimed(Top)
    BY <1>6 DEF DeciderNext
  <2>2. ReturnedUnclaimed(Top)
    BY <1>1, <1>4, <2>1, UnclaimedReturned
  <2>3. StepKeeps
    BY <2>2, UnclaimedKeeps
  <2> QED
    BY <1>1, <1>2, <1>4, <2>2, <2>3, KeepsChains
<1> QED
  BY <1>5, <1>6

(* A global decider claims the exception.                                  *)
LEMMA DeciderClaimsChains ==
  ASSUME ChainInv, DeciderClaims
  PROVE  /\ ChainInv'
         /\ \/ front # 0 /\ ReturnTo(front) /\ UNCHANGED <<decision, ended>>
            \/ /\ front = 0
               /\ \E d : /\ Continues(act, d) /\ Returned(act, d, "EXECUTION")
                         /\ d.who = "global" /\ d.passes = Top.passes /\ d.by = Top.by
                         /\ d.continued = Top.continued
<1>1. StackInv(act, front, win) /\ Running("decider") /\ ~Top.gone
  BY DEF ChainInv, DeciderClaims
<1>2. UNCHANGED <<mapped, handlers, debugger>> /\ front = win
  BY <1>1 DEF DeciderClaims, StackInv
<1>3. CASE front # 0
  <2>1. ReturnTo(front) /\ UNCHANGED <<decision, ended>>
    BY <1>3 DEF DeciderClaims
  <2>2. front \in 1 .. Len(act) /\ act[front].kind = "raise"
    BY <1>1, <1>2, <1>3, WinRaise
  <2>3. StackInv(act', front', win')
    BY <1>1, <2>1, <2>2, ReturnToStack
  <2>4. ChainInv'
    BY <1>2, <2>1, <2>3 DEF ChainInv
  <2> QED
    BY <1>3, <2>1, <2>4
<1>4. CASE front = 0
  <2> DEFINE d == [Top EXCEPT !.who = "global"]
  <2>1. HandlerReturns(act, d, "EXECUTION") /\ UNCHANGED <<front, win>>
    BY <1>4 DEF DeciderClaims
  <2>2. Top \in DispatchType /\ Top = act[Len(act)] /\ Frames(act) /\ Top.kind = "dispatch"
    BY <1>1, TopDispatch
  <2>3. /\ d \in DispatchType /\ d.kind = Top.kind /\ d.own = Top.own /\ d.e = Top.e
        /\ d.at = Top.at /\ d.gone = Top.gone /\ d.who = "global"
        /\ d.passes = Top.passes /\ d.by = Top.by /\ d.continued = Top.continued
    BY <2>2 DEF DispatchType
  <2> HIDE DEF d
  <2>4. Continues(act, d) /\ Alike(act, act)
    BY <1>1, <2>2, <2>3, AlikeSelf DEF Continues
  <2>5. Returned(act, d, "EXECUTION")
    BY <1>1, <2>1, <2>4, HandlerReturned
  <2>6. StepKeeps
    BY <2>5, ReturnedKeeps
  <2>7. ChainInv'
    BY <1>1, <1>2, <2>1, <2>6, KeepsChains
  <2> QED
    BY <1>4, <2>3, <2>4, <2>5, <2>7
<1> QED
  BY <1>3, <1>4

(* A frame's decider claims the exception: what the step does.             *)
Claims ==
  /\ Rewrites(act, act')
  /\ LET k == act'[Len(act)]
     IN  /\ ~k.gone /\ k.phase = "continue" /\ k.who = "frame" /\ k.continued
         /\ k.passes = Top.passes
  /\ \A i \in 1 .. Len(act) - 1 :
       IF i = win /\ MatchingRaiseFrame(Top.e)
       THEN act'[i].claimed /\ act'[i].unclaimed = act[i].unclaimed
       ELSE act'[i] = act[i]

(* It keeps the chains.                                                    *)
LEMMA FilterResumeChains ==
  ASSUME ChainInv, FilterResume
  PROVE  ChainInv' /\ Claims
<1>1. StackInv(act, front, win) /\ Running("filter") /\ ~Top.gone
  BY DEF ChainInv, FilterResume
<1>2. UNCHANGED <<front, win, mapped, handlers, debugger, ended>>
  BY DEF FilterResume
<1>3. /\ Top \in DispatchType /\ Top = act[Len(act)] /\ Frames(act) /\ Top.kind = "dispatch"
      /\ Len(act) \in Nat \ {0} /\ act \in Seq(ActivationType) /\ Len(act) \in 1 .. Len(act)
  BY <1>1, TopDispatch
<1> DEFINE n == Len(act)
           m == MatchingRaiseFrame(Top.e)
           k == [Top EXCEPT !.phase = "continue", !.who = "frame", !.continued = TRUE]
           c(i) == [act[i] EXCEPT !.claimed = TRUE]
<1>4. /\ k \in DispatchType /\ k.kind = Top.kind /\ k.own = Top.own /\ k.e = Top.e
      /\ k.at = Top.at /\ k.gone = Top.gone /\ k.phase = "continue"
      /\ k.who = "frame" /\ k.continued = TRUE /\ k.passes = Top.passes
  BY <1>3 DEF DispatchType, Phases
<1>5. act' = [i \in 1 .. n |-> IF i = n THEN k ELSE IF i = win /\ m THEN c(i) ELSE act[i]]
  <2>1. DOMAIN act = 1 .. n
    BY <1>3
  <2> QED
    BY <2>1 DEF FilterResume
<1>6. m => /\ win \in 1 .. n - 1 /\ act[win] \in RaiseType /\ act[win].kind = "raise"
  BY <1>1, WinRaise DEF MatchingRaiseFrame
<1>7. m => /\ c(win) \in RaiseType /\ c(win).kind = "raise" /\ c(win).claimed
           /\ c(win).unclaimed = act[win].unclaimed /\ c(win).record = act[win].record
           /\ c(win).front = act[win].front /\ c(win).win = act[win].win
  BY <1>6 DEF RaiseType
<1> HIDE DEF k, c, m
<1>8. k \in ActivationType /\ (m => c(win) \in ActivationType)
  BY <1>4, <1>7 DEF ActivationType
<1>9. act' \in Seq(ActivationType) /\ Len(act') = n /\ act'[n] = k
  BY <1>3, <1>5, <1>8
<1>10. \A i \in 1 .. n - 1 : act'[i] = IF i = win /\ m THEN c(i) ELSE act[i]
  BY <1>3, <1>5
<1>11. \A i \in 1 .. n - 1 : Like(act[i], act'[i])
  BY <1>6, <1>7, <1>10 DEF Like
<1>12. Rewrites(act, act')
  <2>1. FilterAt(act', n)
    <3>1. Top.at \in 1 .. n
      BY <1>1, TopDispatch
    <3> QED
      BY <1>4, <1>9, <3>1 DEF FilterAt
  <2>2. RsiFits(k)
    BY <1>1, <1>4 DEF RsiFits
  <2> QED
    BY <1>3, <1>4, <1>9, <1>11, <2>1, <2>2 DEF Rewrites
<1>13. StepKeeps
  <2>1. decision'.result \in {"SEARCH", "EXECUTION"}
    BY DEF FilterResume
  <2> QED
    BY <1>1, <1>2, <1>4, <1>9, <1>12, <2>1 DEF StepKeeps, ChainInv
<1>14. ChainInv'
  BY <1>1, <1>2, <1>13, KeepsChains
<1>15. Claims
  BY <1>1, <1>4, <1>7, <1>9, <1>10, <1>12 DEF Claims, m
<1> QED
  BY <1>14, <1>15

(* A non-empty set of positions has a greatest one.                        *)
LEMMA Greatest ==
  ASSUME NEW N \in Nat, NEW A \in SUBSET (1 .. N), A # {}
  PROVE  \E m \in A : \A j \in A : j <= m
<1> DEFINE B == {N - i : i \in A}
<1>1. B \subseteq Nat /\ B # {}
  <2>1. \A i \in A : i \in 1 .. N
    OBVIOUS
  <2>2. \A i \in A : N - i \in Nat
    BY <2>1
  <2> QED
    BY <2>2
<1> HIDE DEF B
<1>2. PICK x \in B : \A y \in B : <<y, x>> \notin OpToRel(<, Nat)
  BY <1>1, NatLessThanWellFounded, WFMin, Zenon
<1>3. ASSUME NEW y \in B PROVE x <= y
  <2>1. <<y, x>> \in Nat \X Nat /\ <<y, x>>[1] = y /\ <<y, x>>[2] = x
    BY <1>1
  <2>2. ~(y < x)
    BY <1>2, <2>1, Zenon DEF OpToRel
  <2> QED
    BY <1>1, <2>2
<1>4. PICK m \in A : x = N - m
  BY DEF B
<1>5. \A j \in A : j <= m
  <2> SUFFICES ASSUME NEW j \in A PROVE j <= m
    OBVIOUS
  <2>1. N - j \in B
    BY DEF B
  <2> QED
    BY <1>3, <1>4, <2>1
<1> QED
  BY <1>5

(* The search goes on to a guard: its decider is called, or the guard is   *)
(* passed.                                                                 *)
Searches ==
  /\ Rewrites(act, act')
  /\ \A i \in 1 .. Len(act) - 1 : act[i].kind # "guard" => act'[i] = act[i]
  /\ LET k == act'[Len(act)]
     IN  /\ ~k.gone /\ k.phase \in {"search", "filter"} /\ k.who = Top.who
         /\ k.passes = Top.passes /\ k.continued = Top.continued
  /\ UNCHANGED <<decision, ended>>

(* It keeps the chains: the rsi of the decider has the innermost raise.    *)
LEMMA FilterSearchChains ==
  ASSUME ChainInv, FilterSearch
  PROVE  ChainInv' /\ Searches
<1>1. StackInv(act, front, win) /\ Running("search") /\ GuardsBelow(Top) # {}
  BY DEF ChainInv, FilterSearch
<1>2. UNCHANGED <<front, win, decision, mapped, handlers, debugger, ended>>
  BY DEF FilterSearch
<1>3. /\ Top \in DispatchType /\ Top = act[Len(act)] /\ Frames(act) /\ Top.kind = "dispatch"
      /\ Len(act) \in Nat \ {0} /\ act \in Seq(ActivationType) /\ Len(act) \in 1 .. Len(act)
      /\ Top.at \in 1 .. Len(act)
  BY <1>1, TopDispatch
<1>4. ~Top.gone
  BY <1>1, NotGone DEF Called
<1> DEFINE n == Len(act)
           G == GuardsBelow(Top)
           j == CHOOSE i \in G : \A k \in G : k <= i
           found == SignalFromCode(Top.e.code) \in act[j].guarded
           ph == IF found THEN "filter" ELSE "search"
           d == [Top EXCEPT !.at = j, !.phase = ph]
           g == [act[j] EXCEPT !.rsi = Rsi(front)]
<1>5. j \in G
  <2>1. Top.at - 1 \in Nat /\ G \in SUBSET (1 .. Top.at - 1)
    BY <1>3 DEF GuardsBelow
  <2> HIDE DEF G
  <2>2. \E m \in G : \A i \in G : i <= m
    BY <1>1, <2>1, Greatest DEF G
  <2> QED
    BY <2>2, Zenon
<1>6. act' = [act EXCEPT ![n] = d, ![j].rsi = IF found THEN Rsi(front) ELSE @]
  BY DEF FilterSearch
<1> HIDE DEF j
<1>7. j \in 1 .. n - 1 /\ j \in 1 .. n /\ j # n /\ j \in Nat /\ act[j].kind = "guard"
  BY <1>3, <1>5 DEF GuardsBelow
<1>8. front \in Nat
  <2>1. ~OwnGone(act)
    BY <1>3, <1>4 DEF OwnGone
  <2> QED
    BY <1>1, <2>1, Innermost DEF IsInner
<1>9. ph \in Phases /\ ph \in {"search", "filter"} /\ (ph = "filter" => found)
  BY DEF Phases
<1> HIDE DEF found, ph
<1>10. /\ d \in DispatchType /\ d.kind = Top.kind /\ d.own = Top.own /\ d.e = Top.e
       /\ d.at = j /\ d.gone = Top.gone /\ d.phase = ph
       /\ d.who = Top.who /\ d.continued = Top.continued /\ d.passes = Top.passes
  BY <1>3, <1>7, <1>9 DEF DispatchType
<1>11. act[j] \in GuardType
  BY <1>3, <1>7, Kinds
<1>12. /\ g \in GuardType /\ g.kind = "guard" /\ g.front = act[j].front /\ g.win = act[j].win
       /\ g.rsi.local = front
  <2>1. Rsi(front) \in RsiType /\ Rsi(front).local = front
    BY <1>8 DEF Rsi, RsiType
  <2> QED
    BY <1>11, <2>1 DEF GuardType
<1>13. act' = [act EXCEPT ![n] = d, ![j] = IF found THEN g ELSE act[j]]
  <2>1. found => act' = [act EXCEPT ![n] = d, ![j].rsi = Rsi(front)]
    BY <1>6
  <2>2. ~found => act' = [act EXCEPT ![n] = d, ![j].rsi = @]
    BY <1>6
  <2>3. [act[j] EXCEPT !.rsi = @] = act[j]
    BY <1>11 DEF GuardType
  <2> QED
    BY <1>3, <1>7, <2>1, <2>2, <2>3
<1> HIDE DEF d, g
<1>14. d \in ActivationType /\ g \in ActivationType /\ act[j] \in ActivationType
  BY <1>10, <1>11, <1>12 DEF ActivationType
<1>15. /\ act' \in Seq(ActivationType) /\ Len(act') = n /\ act'[n] = d
       /\ act'[j] = (IF found THEN g ELSE act[j])
       /\ \A i \in 1 .. n : i # n /\ i # j => act'[i] = act[i]
  BY <1>3, <1>7, <1>13, <1>14
<1>16. \A i \in 1 .. n - 1 : i \in 1 .. n /\ i # n
  BY <1>3
<1>17. \A i \in 1 .. n - 1 : Like(act[i], act'[i])
  BY <1>7, <1>12, <1>15, <1>16 DEF Like
<1>18. FilterAt(act', n)
  <2>1. act'[j].kind = "guard"
    BY <1>7, <1>12, <1>15
  <2> QED
    BY <1>3, <1>7, <1>10, <1>15, <2>1 DEF FilterAt
<1>19. RsiFits(d)
  BY <1>4, <1>9, <1>10 DEF RsiFits
<1>20. Rewrites(act, act')
  BY <1>3, <1>10, <1>15, <1>17, <1>18, <1>19 DEF Rewrites
<1>21. act'[n].phase = "filter" => act'[act'[n].at].rsi.local = front
  BY <1>9, <1>10, <1>12, <1>15
<1>22. ~act[n].gone /\ ~act'[n].gone
  BY <1>3, <1>4, <1>10, <1>15
<1>23. StackInv(act', front, win)
  BY <1>1, <1>20, <1>21, <1>22, RewriteStack
<1>24. ChainInv'
  BY <1>2, <1>23 DEF ChainInv
<1>25. \A i \in 1 .. n - 1 : act[i].kind # "guard" => act'[i] = act[i]
  BY <1>7, <1>15, <1>16
<1> QED
  BY <1>2, <1>9, <1>10, <1>15, <1>20, <1>22, <1>24, <1>25 DEF Searches

-----------------------------------------------------------------------------
(* sigdecider_abandon() and sigdecider_abandon_resume().                   *)

(* What setting the rsi of the decider that runs does.                     *)
SetsRsi(r) ==
  /\ Rewrites(act, act')
  /\ \A i \in 1 .. Len(act) - 1 : act[i].kind # "guard" => act'[i] = act[i]
  /\ RsiOf(act') = r
  /\ LET k == act'[Len(act)]
     IN  /\ k.gone = r.abandoned /\ k.phase = Top.phase /\ k.own = Top.own
         /\ k.who = Top.who /\ k.passes = Top.passes /\ k.continued = Top.continued

(* SetRsi() does that, whether the rsi is the guard's or the exception's.  *)
LEMMA RsiSet ==
  ASSUME StackInv(act, front, win), NEW p \in Called, Running(p),
         NEW r \in RsiType, SetRsi(r), r.abandoned => AbandonRule = "once",
         r.saved = 0 => r.local = 0 \/ p = "filter"
  PROVE  SetsRsi(r)
<1>1. /\ Top \in DispatchType /\ Top = act[Len(act)] /\ Frames(act) /\ Top.kind = "dispatch"
      /\ Len(act) \in Nat \ {0} /\ act \in Seq(ActivationType) /\ Len(act) \in 1 .. Len(act)
      /\ Top.at \in 1 .. Len(act) /\ Top.phase = p /\ Pos(act, Len(act))
  BY TopDispatch
<1> DEFINE n == Len(act)
<1>2. r.abandoned \in BOOLEAN
  BY DEF RsiType
<1>3. CASE p = "filter"
  <2> DEFINE j == Top.at
             g == [act[j] EXCEPT !.rsi = r]
             d == [Top EXCEPT !.gone = r.abandoned]
  <2>1. j \in 1 .. n - 1 /\ j \in 1 .. n /\ j # n /\ act[j].kind = "guard"
    <3>1. j < n /\ act[j].kind = "guard"
      BY <1>1, <1>3 DEF Pos, FilterAt
    <3> QED
      BY <1>1, <3>1
  <2>2. act' = [act EXCEPT ![j].rsi = r, ![n].gone = r.abandoned]
    BY <1>1, <1>3 DEF SetRsi, RsiAt
  <2>3. act' = [act EXCEPT ![j] = g, ![n] = d]
    BY <1>1, <2>1, <2>2
  <2>4. act[j] \in GuardType
    BY <1>1, <2>1, Kinds
  <2>5. /\ g \in GuardType /\ g.kind = "guard" /\ g.front = act[j].front
        /\ g.win = act[j].win /\ g.rsi = r
    BY <2>4 DEF GuardType
  <2>6. /\ d \in DispatchType /\ d.kind = Top.kind /\ d.own = Top.own /\ d.e = Top.e
        /\ d.at = Top.at /\ d.gone = r.abandoned /\ d.phase = Top.phase
        /\ d.who = Top.who /\ d.continued = Top.continued /\ d.passes = Top.passes
    BY <1>1, <1>2 DEF DispatchType
  <2> HIDE DEF g, d, j
  <2>7. d \in ActivationType /\ g \in ActivationType
    BY <2>5, <2>6 DEF ActivationType
  <2>8. /\ act' \in Seq(ActivationType) /\ Len(act') = n /\ act'[n] = d /\ act'[j] = g
        /\ \A i \in 1 .. n : i # n /\ i # j => act'[i] = act[i]
    BY <1>1, <2>1, <2>3, <2>7
  <2>9. \A i \in 1 .. n - 1 : i \in 1 .. n /\ i # n
    BY <1>1
  <2>10. \A i \in 1 .. n - 1 : Like(act[i], act'[i])
    BY <2>1, <2>5, <2>8, <2>9 DEF Like
  <2>11. FilterAt(act', n)
    BY <1>1, <2>1, <2>5, <2>6, <2>8 DEF FilterAt, j
  <2>12. RsiFits(d)
    BY <1>1, <1>3, <2>6 DEF RsiFits, Called
  <2>13. Rewrites(act, act')
    BY <1>1, <2>6, <2>8, <2>10, <2>11, <2>12 DEF Rewrites
  <2>14. RsiOf(act') = r
    BY <1>1, <1>3, <2>5, <2>6, <2>8 DEF RsiOf, j
  <2>15. \A i \in 1 .. n - 1 : act[i].kind # "guard" => act'[i] = act[i]
    BY <2>1, <2>8, <2>9
  <2> QED
    BY <2>6, <2>8, <2>13, <2>14, <2>15 DEF SetsRsi
<1>4. CASE p = "decider"
  <2> DEFINE d == [Top EXCEPT !.rsi = r, !.gone = r.abandoned]
  <2>1. act' = [act EXCEPT ![n].rsi = r, ![n].gone = r.abandoned]
    BY <1>1, <1>4 DEF SetRsi, RsiAt
  <2>2. act' = [act EXCEPT ![n] = d]
    BY <1>1, <2>1
  <2>3. /\ d \in DispatchType /\ d.kind = Top.kind /\ d.own = Top.own /\ d.e = Top.e
        /\ d.at = Top.at /\ d.gone = r.abandoned /\ d.phase = Top.phase /\ d.rsi = r
        /\ d.who = Top.who /\ d.continued = Top.continued /\ d.passes = Top.passes
    BY <1>1, <1>2 DEF DispatchType
  <2> HIDE DEF d
  <2>4. d \in ActivationType
    BY <2>3 DEF ActivationType
  <2>5. /\ act' \in Seq(ActivationType) /\ Len(act') = n /\ act'[n] = d
        /\ \A i \in 1 .. n : i # n => act'[i] = act[i]
    BY <1>1, <2>2, <2>4
  <2>6. \A i \in 1 .. n - 1 : i \in 1 .. n /\ i # n
    BY <1>1
  <2>7. \A i \in 1 .. n - 1 : Like(act[i], act'[i]) /\ act'[i] = act[i]
    BY <2>5, <2>6 DEF Like
  <2>8. FilterAt(act', n)
    BY <1>1, <1>4, <2>3, <2>5 DEF FilterAt
  <2>9. RsiFits(d)
    BY <1>1, <1>4, <2>3 DEF RsiFits, Called
  <2>10. Rewrites(act, act')
    BY <1>1, <2>3, <2>5, <2>7, <2>8, <2>9 DEF Rewrites
  <2>11. RsiOf(act') = r
    BY <1>1, <1>4, <2>3, <2>5 DEF RsiOf
  <2> QED
    BY <2>3, <2>5, <2>7, <2>10, <2>11 DEF SetsRsi
<1> QED
  BY <1>3, <1>4 DEF Called

(* The decider that runs, and its rsi.                                     *)
LEMMA Decides ==
  ASSUME StackInv(act, front, win), Deciding
  PROVE  /\ \E p \in Called : Running(p)
         /\ act[RsiAt].rsi = RsiOf(act) /\ RsiOf(act) \in RsiType
         /\ Top.phase \in Called
<1>1. PICK p \in Called : Running(p)
  BY DEF Deciding, Called
<1>2. /\ Top \in DispatchType /\ Top = act[Len(act)] /\ Top.kind = "dispatch"
      /\ Len(act) \in Nat \ {0} /\ act \in Seq(ActivationType) /\ Len(act) \in 1 .. Len(act)
      /\ Top.at \in 1 .. Len(act) /\ Top.phase = p /\ Pos(act, Len(act))
  BY <1>1, TopDispatch
<1>3. act[RsiAt].rsi = RsiOf(act)
  BY <1>2 DEF RsiAt, RsiOf
<1>4. CASE p = "filter"
  <2>1. act[Top.at].kind = "guard"
    BY <1>2, <1>4 DEF Pos, FilterAt
  <2>2. act[Top.at] \in GuardType
    BY <1>2, <2>1, Kinds
  <2> QED
    BY <1>1, <1>2, <1>3, <1>4, <2>2 DEF RsiOf, GuardType
<1>5. CASE p = "decider"
  BY <1>1, <1>2, <1>3, <1>5 DEF RsiOf, DispatchType
<1> QED
  BY <1>4, <1>5 DEF Called

(* Abandoning pops the raise whose exception is decided, if there is one.  *)
LEMMA AbandonChains ==
  ASSUME AbandonRule # "any", ChainInv, SigdeciderAbandon
  PROVE  ChainInv' /\ ended' = ended /\ \E r : SetsRsi(r)
<1>1. StackInv(act, front, win) /\ Deciding /\ ~Top.gone /\ MayAbandon
  BY DEF ChainInv, SigdeciderAbandon
<1>2. PICK p \in Called : Running(p)
  BY <1>1, Decides
<1>3. act[RsiAt].rsi = RsiOf(act) /\ RsiOf(act) \in RsiType
  BY <1>1, Decides
<1>4. /\ Top \in DispatchType /\ Top = act[Len(act)] /\ Top.kind = "dispatch"
      /\ Len(act) \in Nat \ {0} /\ Frames(act) /\ Top.phase = p /\ RsiFits(Top)
  BY <1>1, <1>2, TopDispatch
<1>5. /\ AbandonRule = "once" /\ ~Top.calls /\ (Top.own \/ front = 0)
      /\ RsiOf(act).saved = 0
  BY <1>1, <1>3 DEF MayAbandon
<1> DEFINE n == Len(act)
           R == RsiOf(act)
           m == IF Top.own THEN n - 1 ELSE 0
<1>6. front = win /\ front = m /\ front \in Nat /\ IsInner(act, n + 1, front)
  <2>1. ~OwnGone(act)
    BY <1>1, <1>4 DEF OwnGone
  <2>2. front = win /\ IsInner(act, n + 1, front)
    BY <1>1, <2>1, Innermost
  <2>3. Top.own => front = n - 1
    BY <1>1, <1>2, OwnInnermost
  <2> QED
    BY <1>4, <1>5, <2>2, <2>3 DEF IsInner, DispatchType
<1>7. p = "filter" => R.local = front
  BY <1>1, <1>4, <1>5 DEF StackInv, TopFits
<1>8. p = "decider" => R.local = 0
  BY <1>4, <1>5 DEF RsiFits, RsiOf
<1>9. front # 0 => Top.own /\ front \in 1 .. n - 1 /\ front \in 1 .. n /\ act[front].kind = "raise"
  BY <1>1, <1>5, <1>6, WinRaise
<1> DEFINE r == [local |-> m, saved |-> m, abandoned |-> TRUE]
<1>10. r \in RsiType /\ r.local = m /\ r.saved = m /\ r.abandoned = TRUE
  BY <1>6 DEF RsiType
<1>11. /\ SetRsi(r) /\ ended' = ended
       /\ front' = IF front # 0 THEN act[front].front ELSE front
       /\ win' = IF front # 0 THEN act[front].win ELSE front
  <2>1. Abandon
    BY DEF SigdeciderAbandon
  <2> HIDE DEF m
  <2>2. ~(R.local # 0 /\ front # R.local)
    BY <1>2, <1>7, <1>8 DEF Called
  <2> DEFINE popped == IF R.local # 0 THEN act[R.local].front ELSE front
             global == Top.phase = "decider" /\ popped # 0
  <2>3. /\ SetRsi([local |-> IF global THEN popped ELSE R.local,
                   saved |-> IF win # 0 THEN win ELSE R.saved, abandoned |-> TRUE])
        /\ front' = IF global THEN act[popped].front ELSE popped
        /\ win' = IF win # 0 THEN act[win].win ELSE win
        /\ ended' = ended
    BY <1>3, <2>1, <2>2 DEF Abandon
  <2>4. (IF global THEN popped ELSE R.local) = m
    BY <1>2, <1>4, <1>6, <1>7, <1>8 DEF Called
  <2>5. (IF win # 0 THEN win ELSE R.saved) = m
    BY <1>5, <1>6
  <2>6. (IF global THEN act[popped].front ELSE popped) = IF front # 0 THEN act[front].front ELSE front
    BY <1>2, <1>4, <1>6, <1>7, <1>8 DEF Called
  <2> QED
    BY <1>6, <2>3, <2>4, <2>5, <2>6
<1> HIDE DEF r
<1>12. SetsRsi(r)
  BY <1>1, <1>2, <1>5, <1>10, <1>11, RsiSet
<1>13. Rewrites(act, act') /\ RsiOf(act') = r
  BY <1>12 DEF SetsRsi
<1>14. /\ Frames(act') /\ Len(act') = n /\ act'[n].kind = "dispatch"
       /\ act'[n].gone = TRUE /\ act'[n].own = Top.own
       /\ \A i \in 0 .. n + 1 : \A f : IsInner(act, i, f) => IsInner(act', i, f)
  <2>1. /\ Frames(act')
        /\ \A i \in 0 .. n + 1 : \A f : IsInner(act, i, f) => IsInner(act', i, f)
    BY <1>4, <1>13, RewriteFrames
  <2> QED
    BY <1>10, <1>12, <1>13, <2>1 DEF SetsRsi, Rewrites
<1>15. CASE Top.own
  <2>1. front = n - 1 /\ front # 0 /\ n - 1 \in 1 .. n - 1 /\ act[n - 1].kind = "raise"
    BY <1>1, <1>2, <1>15, OwnInnermost
  <2>2. front' = act[n - 1].front /\ win' = act[n - 1].win
    BY <1>11, <2>1
  <2>3. act[n - 1].front = act[n - 1].win /\ IsInner(act, n - 1, act[n - 1].front)
    <3>1. n - 1 \in 1 .. n
      BY <1>4, <2>1
    <3>2. HeadsAt(act, n - 1)
      BY <1>4, <3>1, At DEF Pos
    <3> QED
      BY <2>1, <3>2 DEF HeadsAt
  <2>4. n - 1 \in 0 .. n + 1
    BY <1>4
  <2>5. IsInner(act', n - 1, front') /\ front' = win'
    BY <1>14, <2>2, <2>3, <2>4
  <2>6. OwnGone(act') /\ Len(act') > 0
    BY <1>4, <1>14, <1>15 DEF OwnGone
  <2>7. m = n - 1
    BY <1>15
  <2>8. TopFits(act', front')
    BY <1>10, <1>13, <1>14, <1>15, <2>7 DEF TopFits
  <2>9. StackInv(act', front', win')
    BY <1>14, <2>5, <2>6, <2>8 DEF StackInv
  <2> QED
    BY <1>11, <1>12, <2>9 DEF ChainInv, SigdeciderAbandon
<1>16. CASE ~Top.own
  <2>1. front = 0 /\ front' = 0 /\ win' = 0 /\ m = 0
    BY <1>5, <1>11, <1>16
  <2>2. n + 1 \in 0 .. n + 1
    BY <1>4
  <2>3. IsInner(act', n + 1, 0)
    BY <1>6, <1>14, <2>1, <2>2
  <2>4. ~OwnGone(act')
    BY <1>14, <1>16 DEF OwnGone
  <2>5. TopFits(act', 0)
    BY <1>10, <1>13, <1>14, <1>16, <2>1 DEF TopFits
  <2>6. StackInv(act', front', win')
    BY <1>14, <2>1, <2>3, <2>4, <2>5 DEF StackInv
  <2> QED
    BY <1>11, <1>12, <2>6 DEF ChainInv, SigdeciderAbandon
<1> QED
  BY <1>4, <1>15, <1>16 DEF DispatchType

(* Resuming links the raise again, where it was.                           *)
LEMMA AbandonResumeChains ==
  ASSUME ChainInv, SigdeciderAbandonResume
  PROVE  ChainInv' /\ ended' = ended /\ \E r : SetsRsi(r)
<1>1. StackInv(act, front, win) /\ Deciding /\ Top.gone
  BY DEF ChainInv, SigdeciderAbandonResume
<1>2. PICK p \in Called : Running(p)
  BY <1>1, Decides
<1>3. act[RsiAt].rsi = RsiOf(act) /\ RsiOf(act) \in RsiType
  BY <1>1, Decides
<1>4. /\ Top \in DispatchType /\ Top = act[Len(act)] /\ Top.kind = "dispatch"
      /\ Len(act) \in Nat \ {0} /\ Frames(act) /\ Top.phase = p /\ RsiFits(Top)
      /\ Pos(act, Len(act))
  BY <1>1, <1>2, TopDispatch
<1> DEFINE n == Len(act)
           R == RsiOf(act)
           m == IF Top.own THEN n - 1 ELSE 0
           r == [R EXCEPT !.abandoned = FALSE]
<1>5. R.local = m /\ R.saved = m /\ (~Top.own => front = 0) /\ front = win
  BY <1>1, <1>4 DEF StackInv, TopFits
<1>6. Top.own => /\ n > 1 /\ n - 1 \in 1 .. n /\ act[n - 1].kind = "raise"
                 /\ act[n - 1].front = act[n - 1].win /\ act[n - 1].front = front
  <2> SUFFICES ASSUME Top.own
               PROVE  /\ n > 1 /\ n - 1 \in 1 .. n /\ act[n - 1].kind = "raise"
                      /\ act[n - 1].front = act[n - 1].win /\ act[n - 1].front = front
    OBVIOUS
  <2>1. n > 1 /\ act[n - 1].kind = "raise"
    BY <1>4 DEF Pos, OwnAt
  <2>2. n - 1 \in 1 .. n /\ n - 1 \in Nat
    BY <1>4, <2>1
  <2>3. HeadsAt(act, n - 1)
    BY <1>4, <2>2, At DEF Pos
  <2>4. act[n - 1].front = act[n - 1].win /\ IsInner(act, n - 1, act[n - 1].front)
    BY <2>1, <2>3 DEF HeadsAt
  <2>5. OwnGone(act)
    BY <1>1, <1>4 DEF OwnGone
  <2>6. IsInner(act, n - 1, front)
    BY <1>1, <2>5 DEF StackInv
  <2> QED
    BY <2>1, <2>2, <2>4, <2>6, InnerUnique
<1>7. /\ SetRsi(r) /\ ended' = ended
      /\ front' = IF m # 0 THEN m ELSE front
      /\ win' = IF m # 0 THEN m ELSE win
  <2>1. /\ R.saved # 0 => act[R.saved].win = win
        /\ R.local # 0 => act[R.local].front = front
    BY <1>5, <1>6
  <2>2. m \in RaisesIn(act) \cup {0}
    BY <1>4, <1>6 DEF RaisesIn, Frames
  <2>3. {R.saved, R.local} \subseteq RaisesIn(act) \cup {0}
    BY <1>5, <2>2
  <2> QED
    BY <1>3, <1>5, <2>1, <2>3 DEF SigdeciderAbandonResume
<1>8. r \in RsiType /\ r.local = m /\ r.saved = m /\ r.abandoned = FALSE
  BY <1>3, <1>5 DEF RsiType
<1> HIDE DEF r
<1>9. SetsRsi(r)
  BY <1>1, <1>2, <1>7, <1>8, RsiSet
<1>10. Rewrites(act, act') /\ RsiOf(act') = r
  BY <1>9 DEF SetsRsi
<1>11. /\ Frames(act') /\ Len(act') = n /\ act'[n].kind = "dispatch"
       /\ act'[n].gone = FALSE /\ act'[n].own = Top.own
       /\ \A i \in 0 .. n + 1 : \A f : IsInner(act, i, f) => IsInner(act', i, f)
  <2>1. /\ Frames(act')
        /\ \A i \in 0 .. n + 1 : \A f : IsInner(act, i, f) => IsInner(act', i, f)
    BY <1>4, <1>10, RewriteFrames
  <2> QED
    BY <1>8, <1>9, <1>10, <2>1 DEF SetsRsi, Rewrites
<1>12. front' = m /\ win' = m /\ IsInner(act, n + 1, m)
  <2>1. CASE Top.own
    BY <1>4, <1>6, <1>7, <2>1 DEF IsInner
  <2>2. CASE ~Top.own
    <3>1. ~OwnGone(act)
      BY <1>4, <2>2 DEF OwnGone
    <3> QED
      BY <1>1, <1>5, <1>7, <2>2, <3>1, Innermost
  <2> QED
    BY <1>4, <2>1, <2>2 DEF DispatchType
<1>13. n + 1 \in 0 .. n + 1
  BY <1>4
<1>14. IsInner(act', n + 1, m) /\ ~OwnGone(act')
  BY <1>11, <1>12, <1>13 DEF OwnGone
<1> HIDE DEF m
<1>15. TopFits(act', m)
  BY <1>8, <1>10, <1>11 DEF TopFits
<1>16. StackInv(act', front', win')
  BY <1>11, <1>12, <1>14, <1>15 DEF StackInv
<1> QED
  BY <1>7, <1>9, <1>16 DEF ChainInv, SigdeciderAbandonResume

-----------------------------------------------------------------------------
(* The chains match the stack.                                             *)

(* The empty stack.                                                        *)
LEMMA ChainInit ==
  ASSUME Init
  PROVE  ChainInv
<1>1. /\ act = <<>> /\ front = 0 /\ win = 0 /\ decision = NoDecision /\ ended = "no"
      /\ debugger \in Debuggers /\ mapped \subseteq Signals /\ handlers \in BOOLEAN
  BY DEF Init
<1>2. Frames(<<>>) /\ Len(<<>>) = 0
  BY DEF Frames
<1>3. IsInner(<<>>, Len(<<>>) + 1, 0) /\ ~OwnGone(<<>>)
  BY <1>2 DEF IsInner, OwnGone
<1>4. StackInv(act, front, win)
  BY <1>1, <1>2, <1>3 DEF StackInv
<1>5. debugger \in BOOLEAN
  BY <1>1, RulesAssumption
<1> QED
  BY <1>1, <1>4, <1>5 DEF ChainInv, NoDecision

(* Every step keeps them.                                                  *)
LEMMA ChainNext ==
  ASSUME AbandonRule # "any", ChainInv, [Next]_vars
  PROVE  ChainInv'
<1>0. StackInv(act, front, win)
  BY DEF ChainInv
<1> DEFINE Rest == /\ ended' = ended /\ decision' = decision /\ mapped' = mapped
                   /\ handlers' = handlers /\ debugger' = debugger
<1>1. ASSUME StackInv(act', front', win'), Rest PROVE ChainInv'
  BY <1>1 DEF ChainInv
<1>2. ASSUME NEW s \in Signals, Install(s) \/ Uninstall(s) PROVE ChainInv'
  BY <1>0, <1>2 DEF Install, Uninstall, ChainInv
<1>3. CASE Sigguarded
  BY <1>0, <1>1, <1>3, SigguardedStack DEF Sigguarded
<1>4. CASE GuardedReturns
  BY <1>0, <1>1, <1>4, GuardedReturnsStack DEF GuardedReturns
<1>5. CASE StdcRaise
  <2>1. StackInv(act', front', win')
    BY <1>0, <1>5, StdcRaiseStack
  <2> QED
    BY <1>1, <1>5, <2>1 DEF StdcRaise
<1>6. CASE Fault
  BY <1>0, <1>1, <1>6, FaultStack DEF Fault
<1>7. CASE FilterSearch
  BY <1>7, FilterSearchChains
<1>8. CASE FilterNext
  BY <1>8, FilterNextChains
<1>9. CASE FilterResume
  BY <1>9, FilterResumeChains
<1>10. CASE FilterRecover
  BY <1>0, <1>1, <1>10, FilterRecoverStack DEF FilterRecover
<1>11. CASE UnhandledExceptionFilter
  BY <1>11, UnhandledChains
<1>12. CASE VectoredContinueHandler
  BY <1>12, VectoredChains
<1>13. CASE DeciderNext
  BY <1>13, DeciderNextChains
<1>14. CASE DeciderClaims
  BY <1>14, DeciderClaimsChains
<1>15. CASE Resume
  BY <1>0, <1>1, <1>15, ResumeStack DEF Resume
<1>16. CASE SigdeciderAbandon
  BY <1>16, AbandonChains
<1>17. CASE SigdeciderAbandonResume
  BY <1>17, AbandonResumeChains
<1>18. CASE JumpOut
  BY <1>0, <1>1, <1>18, JumpOutStack DEF JumpOut
<1>19. CASE Ended \/ UNCHANGED vars
  BY <1>19 DEF Ended, vars, ChainInv
<1> QED
  BY <1>2, <1>3, <1>4, <1>5, <1>6, <1>7, <1>8, <1>9, <1>10, <1>11, <1>12, <1>13,
     <1>14, <1>15, <1>16, <1>17, <1>18, <1>19 DEF Next

(* So the invariant of the chains always holds.                            *)
LEMMA ChainInvariant ==
  ASSUME AbandonRule # "any"
  PROVE  Spec => []ChainInv
<1>1. Init => ChainInv
  BY ChainInit
<1>2. ChainInv /\ [Next]_vars => ChainInv'
  BY ChainNext
<1> QED
  BY <1>1, <1>2, PTL DEF Spec

(* The innermost raise by its definition in the specification.             *)
LEMMA InnermostIs ==
  ASSUME StackInv(act, front, win), ended = "no"
  PROVE  front = InnermostRaise
<1>0. act \in Seq(ActivationType) /\ Len(act) \in Nat /\ DOMAIN act = 1 .. Len(act)
  BY DEF StackInv, Frames
<1> DEFINE n == Len(act)
           R == RaisesIn(act) \ AbandonedRaise
<1>1. R = {i \in 1 .. n : act[i].kind = "raise"} \ AbandonedRaise
  BY <1>0 DEF RaisesIn
<1>2. /\ front = 0 => R = {}
      /\ front # 0 => front \in R /\ \A i \in R : i <= front
  <2>1. CASE OwnGone(act)
    <3>1. /\ n \in Nat \ {0} /\ n \in 1 .. n /\ act # <<>> /\ Top = act[n] /\ Top.own /\ Top.gone
          /\ Top.kind = "dispatch"
      BY <1>0, <2>1 DEF OwnGone, Top
    <3>2. RsiFits(Top) /\ OwnAt(act, n)
      BY <3>1 DEF StackInv, Frames, Pos
    <3>3. n > 1 /\ act[n - 1].kind = "raise" /\ IsInner(act, n - 1, front)
      BY <2>1, <3>1, <3>2 DEF OwnAt, StackInv
    <3>5. AbandonedRaise = {n - 1}
      BY <3>1, <3>2 DEF AbandonedRaise, RsiFits, Called, Deciding, Running
    <3> QED
      BY <1>1, <3>1, <3>3, <3>5 DEF IsInner
  <2>2. CASE ~OwnGone(act)
    <3>1. IsInner(act, n + 1, front)
      BY <2>2 DEF StackInv
    <3>2. AbandonedRaise = {}
      BY <1>0, <2>2 DEF AbandonedRaise, OwnGone, Deciding, Running, Top
    <3> QED
      BY <1>0, <1>1, <3>1, <3>2 DEF IsInner
  <2> QED
    BY <2>1, <2>2
<1> HIDE DEF R
<1>3. InnermostRaise = IF R = {} THEN 0 ELSE CHOOSE i \in R : \A j \in R : j <= i
  BY DEF InnermostRaise, R
<1>4. CASE front = 0
  BY <1>2, <1>3, <1>4
<1>5. CASE front # 0
  <2> DEFINE x == CHOOSE i \in R : \A j \in R : j <= i
  <2>1. x \in R /\ \A j \in R : j <= x
    BY <1>2, <1>5, Zenon
  <2> HIDE DEF x
  <2>2. \A i \in R : i \in Int
    BY <1>1 DEF R
  <2>3. x \in Int /\ front \in Int /\ x <= front /\ front <= x
    BY <1>2, <1>5, <2>1, <2>2
  <2>4. x = front
    BY <2>3
  <2> QED
    BY <1>2, <1>3, <1>5, <2>4 DEF x
<1> QED
  BY <1>4, <1>5

(* Every value has its type, and both heads refer to activations of        *)
(* stdc_raise() that are on the stack.                                     *)
THEOREM DispatchTyped ==
  ASSUME AbandonRule # "any"
  PROVE  Spec => []TypeOK
<1>1. ASSUME ChainInv PROVE TypeOK
  <2>1. act \in Seq(ActivationType) /\ Len(act) \in Nat /\ DOMAIN act = 1 .. Len(act)
    BY <1>1 DEF ChainInv, StackInv, Frames
  <2>2. \A i \in DOMAIN act : act[i].kind \in {"guard", "raise", "dispatch"}
    BY <2>1, Kinds
  <2>3. front = win /\ (front # 0 => front \in DOMAIN act /\ act[front].kind = "raise")
    BY <1>1, <2>1 DEF ChainInv, StackInv, IsInner, OwnGone
  <2>4. {front, win} \subseteq RaisesIn(act) \cup {0}
    BY <2>3 DEF RaisesIn
  <2> QED
    BY <1>1, <2>2, <2>4 DEF TypeOK, ChainInv
<1>2. ChainInv => TypeOK
  BY <1>1
<1> QED
  BY <1>2, ChainInvariant, PTL

(* Both chains start at the innermost stdc_raise() on the stack, however   *)
(* raises, guards, faults and deciders nest and however they are left.     *)
THEOREM ChainsFollowStack ==
  ASSUME AbandonRule # "any"
  PROVE  Spec => []ChainsMatchStack
<1>1. ASSUME ChainInv PROVE ChainsMatchStack
  <2>1. StackInv(act, front, win) /\ front = win
    BY <1>1 DEF ChainInv, StackInv
  <2>2. ended = "no" => front = InnermostRaise
    BY <2>1, InnermostIs
  <2> QED
    BY <2>1, <2>2 DEF ChainsMatchStack
<1>2. ChainInv => ChainsMatchStack
  BY <1>1
<1> QED
  BY <1>2, ChainInvariant, PTL

-----------------------------------------------------------------------------
(* How the stack changes below, for the invariants about decisions.        *)

(* An activation that a call is made from.                                 *)
SameBut(a, b) ==
  /\ b.kind = a.kind
  /\ a.kind = "raise" => b = a
  /\ a.kind = "dispatch" =>
       /\ b.own = a.own /\ b.e = a.e /\ b.phase = a.phase /\ b.who = a.who
       /\ b.passes = a.passes /\ b.continued = a.continued

(* Activations that have just been pushed.                                 *)
Fresh(a) ==
  /\ a.kind = "raise" => ~a.claimed /\ ~a.unclaimed
  /\ a.kind = "dispatch" =>
       a.phase = "search" /\ a.who = "nobody" /\ a.passes = 0 /\ ~a.continued

Pushes == /\ Len(act) \in Nat /\ Len(act') \in Nat /\ Len(act') > Len(act)
          /\ \A i \in 1 .. Len(act) : SameBut(act[i], act'[i])
          /\ \A i \in Len(act) + 1 .. Len(act') : Fresh(act'[i])

(* The caller's activations are those of the stack.                        *)
LEMMA CallerSame ==
  ASSUME AbandonRule # "any", StackInv(act, front, win), UserCode
  PROVE  \A i \in 1 .. Len(act) : SameBut(act[i], Caller[i])
<1>1. /\ Len(act) \in Nat
      /\ \A i \in 1 .. Len(act) - 1 : Caller[i] = act[i]
      /\ act # <<>> => Caller[Len(act)] \in {act[Len(act)],
                         [act[Len(act)] EXCEPT !.calls = TRUE]}
  BY CallerReady
<1>2. ASSUME NEW i \in 1 .. Len(act), i # Len(act) PROVE SameBut(act[i], Caller[i])
  <2>1. i \in 1 .. Len(act) - 1
    BY <1>1, <1>2
  <2> QED
    BY <1>1, <2>1 DEF SameBut
<1>3. ASSUME Len(act) > 0 PROVE SameBut(act[Len(act)], Caller[Len(act)])
  <2> DEFINE a == act[Len(act)]
  <2>1. act \in Seq(ActivationType) /\ act # <<>> /\ Len(act) \in 1 .. Len(act)
    BY <1>1, <1>3 DEF StackInv, Frames
  <2>2. CASE Caller[Len(act)] = a
    BY <2>2 DEF SameBut
  <2>3. CASE Caller[Len(act)] = [a EXCEPT !.calls = TRUE] /\ Caller # act
    <3>1. Deciding
      BY <2>3 DEF Caller
    <3>2. PICK p \in Called : Running(p)
      BY <3>1 DEF Deciding, Called
    <3>3. a \in DispatchType /\ a.kind = "dispatch"
      BY <3>2, TopDispatch
    <3> QED
      BY <2>3, <3>3 DEF SameBut, DispatchType
  <2> QED
    BY <1>1, <2>1, <2>2, <2>3
<1> QED
  BY <1>1, <1>2, <1>3

(* What is appended to the caller comes after it.                          *)
LEMMA PushesOne ==
  ASSUME AbandonRule # "any", StackInv(act, front, win), UserCode,
         NEW a, act' = Caller \o <<a>>, Fresh(a)
  PROVE  Pushes
<1>1. Len(act) \in Nat /\ Len(Caller) = Len(act) /\ Caller \in Seq(ActivationType)
  BY CallerReady DEF Ready, Frames
<1>2. \A i \in 1 .. Len(act) : SameBut(act[i], Caller[i])
  BY CallerSame
<1>3. /\ Len(act') = Len(act) + 1 /\ act'[Len(act) + 1] = a
      /\ \A i \in 1 .. Len(act) : act'[i] = Caller[i]
  BY <1>1
<1>4. \A i \in Len(act) + 1 .. Len(act') : i = Len(act) + 1
  BY <1>1, <1>3
<1> QED
  BY <1>1, <1>2, <1>3, <1>4 DEF Pushes

(* Every call of user code does that.                                      *)
LEMMA CallPushes ==
  ASSUME AbandonRule # "any", StackInv(act, front, win),
         Sigguarded \/ StdcRaise \/ Fault
  PROVE  Pushes /\ UserCode
<1>0. UserCode
  BY DEF Sigguarded, StdcRaise, Fault
<1>1. CASE Sigguarded
  <2>1. PICK g \in GuardSets : Push(<<Guard(g)>>)
    BY <1>1 DEF Sigguarded
  <2>2. act' = Caller \o <<Guard(g)>>
    BY <2>1, PushCaller
  <2>3. Fresh(Guard(g))
    BY DEF Fresh, Guard
  <2> QED
    BY <1>0, <2>2, <2>3, PushesOne
<1>2. CASE Fault
  <2>1. PICK c \in FaultCodes, p \in FaultParams :
          Push(<<Dispatch(ExceptionRecord(c, FALSE, p), FALSE, Len(act) + 1)>>)
    BY <1>2 DEF Fault
  <2> DEFINE d == Dispatch(ExceptionRecord(c, FALSE, p), FALSE, Len(act) + 1)
  <2>2. act' = Caller \o <<d>>
    BY <2>1, PushCaller
  <2>3. Fresh(d)
    BY DEF Fresh, Dispatch
  <2> HIDE DEF d
  <2> QED
    BY <1>0, <2>2, <2>3, PushesOne
<1>3. CASE StdcRaise
  <2>1. /\ Len(act') = Len(act) + 2 /\ Len(act) \in Nat
        /\ \A i \in 1 .. Len(act) : act'[i] = Caller[i]
    BY <1>3, StdcRaiseStack
  <2>2. PICK c \in RaiseSignos, p \in RaiseParams :
          act'[Len(act) + 2] =
            Dispatch(ExceptionRecord(CodeFromSignal(c), MarksSoftware, p), TRUE, Len(act) + 1)
    BY <1>3, StdcRaiseStack
  <2>3. PICK e : act'[Len(act) + 1] = Raised(e)
    BY <1>3, StdcRaiseStack
  <2>4. Fresh(act'[Len(act) + 1])
    BY <2>3 DEF Fresh, Raised
  <2>5. Fresh(act'[Len(act) + 2])
    BY <2>2 DEF Fresh, Dispatch
  <2>6. \A i \in Len(act) + 1 .. Len(act') : i = Len(act) + 1 \/ i = Len(act) + 2
    BY <2>1
  <2>7. \A i \in 1 .. Len(act) : SameBut(act[i], act'[i])
    BY <1>0, <2>1, CallerSame
  <2> QED
    BY <1>0, <2>1, <2>4, <2>5, <2>6, <2>7 DEF Pushes
<1> QED
  BY <1>1, <1>2, <1>3

(* The other activations are left by cutting the stack.                    *)
Cuts == /\ Len(act) \in Nat /\ Len(act') \in 0 .. Len(act) - 1
        /\ \A i \in 1 .. Len(act') : act'[i] = act[i]

(* SubSeq does that.                                                       *)
LEMMA SubSeqCuts ==
  ASSUME StackInv(act, front, win), NEW k \in 0 .. Len(act) - 1,
         act' = SubSeq(act, 1, k)
  PROVE  Cuts
<1>1. act \in Seq(ActivationType) /\ Len(act) \in Nat /\ k \in Nat /\ k <= Len(act)
  BY DEF StackInv, Frames
<1>2. Len(act') = k /\ \A i \in 1 .. k : act'[i] = act[i]
  BY <1>1
<1> QED
  BY <1>1, <1>2 DEF Cuts

(* A step that leaves activations starts where none waits for the continue *)
(* handler.                                                                *)
LEMMA LeaveCuts ==
  ASSUME StackInv(act, front, win),
         \/ GuardedReturns \/ FilterRecover \/ Resume \/ JumpOut
         \/ DeciderClaims /\ front # 0
  PROVE  Cuts /\ ~Running("continue")
<1>0. act \in Seq(ActivationType) /\ Len(act) \in Nat
  BY DEF StackInv, Frames
<1>1. CASE GuardedReturns
  <2>1. /\ act # <<>> /\ Top.kind = "guard" /\ act' = SubSeq(act, 1, Len(act) - 1)
    BY <1>1 DEF GuardedReturns, Front
  <2>2. Len(act) - 1 \in 0 .. Len(act) - 1
    BY <1>0, <2>1
  <2> QED
    BY <2>1, <2>2, SubSeqCuts DEF Running
<1>2. CASE FilterRecover
  <2>1. Running("filter") /\ act' = SubSeq(act, 1, Top.at - 1)
    BY <1>2 DEF FilterRecover
  <2>2. Top.at \in 1 .. Len(act)
    BY <2>1, TopDispatch
  <2>3. Top.at - 1 \in 0 .. Len(act) - 1
    BY <1>0, <2>2
  <2> QED
    BY <2>1, <2>3, SubSeqCuts DEF Running
<1>3. CASE Resume
  <2>1. Running("resume") /\ act' \in {SubSeq(act, 1, Len(act) - 1 - 1), SubSeq(act, 1, Len(act) - 1)}
    BY <1>3 DEF Resume, ReturnTo, Front
  <2>2. ~Top.gone
    BY <2>1, NotGone DEF Called
  <2>3. Len(act) - 1 \in 0 .. Len(act) - 1
    BY <1>0, <2>1, TopDispatch
  <2>4. CASE Top.own
    <3>1. Len(act) - 1 \in 1 .. Len(act) - 1
      BY <2>1, <2>2, <2>4, OwnInnermost
    <3>2. Len(act) - 1 - 1 \in 0 .. Len(act) - 1
      BY <1>0, <3>1
    <3> QED
      BY <2>1, <2>3, <3>2, SubSeqCuts DEF Running
  <2>5. CASE ~Top.own
    <3>1. act' = SubSeq(act, 1, Len(act) - 1)
      BY <1>3, <2>5 DEF Resume, Front
    <3> QED
      BY <2>1, <2>3, <3>1, SubSeqCuts DEF Running
  <2> QED
    BY <2>4, <2>5
<1>4. CASE JumpOut
  <2>1. PICK k \in 0 .. Len(act) - 1 : act' = SubSeq(act, 1, k)
    BY <1>4 DEF JumpOut
  <2> QED
    BY <1>4, <2>1, SubSeqCuts DEF JumpOut, Deciding, Running
<1>5. CASE DeciderClaims /\ front # 0
  <2>1. Running("decider") /\ act' = SubSeq(act, 1, front - 1)
    BY <1>5 DEF DeciderClaims, ReturnTo
  <2>2. front \in 1 .. Len(act)
    BY <1>5, WinRaise DEF StackInv
  <2>3. front - 1 \in 0 .. Len(act) - 1
    BY <1>0, <2>2
  <2> QED
    BY <2>1, <2>3, SubSeqCuts DEF Running
<1> QED
  BY <1>1, <1>2, <1>3, <1>4, <1>5

-----------------------------------------------------------------------------
(* Every exception is decided once.                                        *)

Once(d) == \/ d.passes = 1 /\ d.who # "frame"
           \/ d.passes = 0 /\ d.who = "frame"

(* Before a handler or a frame has said to go on, nobody has claimed.      *)
DecidedAt(d) ==
  /\ d.phase \in {"search", "filter"} =>
       d.passes = 0 /\ d.who = "nobody" /\ ~d.continued
  /\ d.phase = "decider" => /\ d.passes = 1 /\ d.who = "nobody" /\ ~d.continued
                            /\ SignalFromCode(d.e.code) # 0

(* The continue handler finds the decision of this exception, or, under a  *)
(* debugger, that there was none.                                          *)
TopDecided(d, dec, dbg) ==
  /\ d.phase = "continue" =>
       \/ /\ RecordMatches(dec.record, d.e) /\ dec.result = "EXECUTION"
          /\ Once(d) /\ d.continued
       \/ dbg /\ ~d.continued /\ d.passes = 0 /\ d.who = "nobody"
  /\ d.phase = "resume" => Once(d) /\ d.continued

(* The memory of the last decision is empty but for the continue handler.  *)
Forgotten(s, dec) ==
  \/ dec = NoDecision
  \/ /\ Len(s) > 0 /\ s[Len(s)].kind = "dispatch"
     /\ s[Len(s)].phase = "continue" /\ s[Len(s)].continued

DecideInv ==
  /\ \A i \in 1 .. Len(act) : act[i].kind = "dispatch" => DecidedAt(act[i])
  /\ debugger => mapped = Signals /\ (handlers <=> Signals # {}) /\ KeepInstalled
  /\ ended = "no" /\ Len(act) > 0 /\ act[Len(act)].kind = "dispatch" =>
       TopDecided(act[Len(act)], decision, debugger)
  /\ ended = "no" /\ debugger /\ handlers => Forgotten(act, decision)

(* The top of the stack is dispatched and waits for the continue handler.  *)
LEMMA ContinueRuns ==
  ASSUME StackInv(act, front, win), ended = "no", Len(act) > 0,
         act[Len(act)].kind = "dispatch"
  PROVE  Running(act[Len(act)].phase)
<1>1. act # <<>>
  BY DEF StackInv, Frames
<1> QED
  BY <1>1 DEF Running, Top

(* Calls and returns keep that.                                            *)
LEMMA QuietDecided ==
  ASSUME StackInv(act, front, win), DecideInv, ~Running("continue"), Cuts \/ Pushes,
         UNCHANGED <<decision, mapped, handlers, debugger, ended>>
  PROVE  DecideInv'
<1>1. ASSUME ended = "no", debugger, handlers PROVE decision = NoDecision
  <2>1. Forgotten(act, decision)
    BY <1>1 DEF DecideInv
  <2> QED
    BY <1>1, <2>1, ContinueRuns DEF Forgotten
<1>2. ASSUME ended = "no", debugger, handlers PROVE Forgotten(act', decision')
  BY <1>1, <1>2 DEF Forgotten
<1>3. CASE Cuts
  <2>1. ASSUME NEW i \in 1 .. Len(act')
        PROVE  /\ act'[i].kind = "dispatch" => DecidedAt(act'[i])
               /\ Waits(act'[i])
    <3>1. act'[i] = act[i] /\ i \in 1 .. Len(act) /\ i \in 1 .. Len(act) - 1
      BY <1>3 DEF Cuts
    <3> QED
      BY <3>1 DEF DecideInv, StackInv, Frames
  <2>2. ASSUME Len(act') > 0, act'[Len(act')].kind = "dispatch"
        PROVE  TopDecided(act'[Len(act')], decision', debugger')
    <3>1. Len(act') \in 1 .. Len(act')
      BY <1>3, <2>2 DEF Cuts
    <3>2. act'[Len(act')].phase \in Called
      BY <2>1, <2>2, <3>1 DEF Waits
    <3> QED
      BY <3>2 DEF TopDecided, Called
  <2> QED
    BY <1>2, <2>1, <2>2 DEF DecideInv
<1>4. CASE Pushes
  <2>1. ASSUME NEW i \in 1 .. Len(act'), act'[i].kind = "dispatch"
        PROVE  DecidedAt(act'[i])
    <3>1. CASE i \in 1 .. Len(act)
      <4>1. SameBut(act[i], act'[i]) /\ (act[i].kind = "dispatch" => DecidedAt(act[i]))
        BY <1>4, <3>1 DEF Pushes, DecideInv
      <4> QED
        BY <2>1, <4>1 DEF SameBut, DecidedAt
    <3>2. CASE i \in Len(act) + 1 .. Len(act')
      BY <1>4, <2>1, <3>2 DEF Pushes, Fresh, DecidedAt
    <3> QED
      BY <1>4, <3>1, <3>2 DEF Pushes
  <2>2. ASSUME act'[Len(act')].kind = "dispatch"
        PROVE  TopDecided(act'[Len(act')], decision', debugger')
    <3>1. Len(act') \in Len(act) + 1 .. Len(act')
      BY <1>4 DEF Pushes
    <3>2. act'[Len(act')].phase = "search"
      BY <1>4, <2>2, <3>1 DEF Pushes, Fresh
    <3> QED
      BY <3>2 DEF TopDecided
  <2> QED
    BY <1>2, <2>1, <2>2 DEF DecideInv
<1> QED
  BY <1>3, <1>4

(* So does a step of the exception on top that ends the process, or that   *)
(* leaves it decided.                                                      *)
LEMMA RewriteDecided ==
  ASSUME StackInv(act, front, win), DecideInv, Rewrites(act, act'),
         UNCHANGED <<mapped, handlers, debugger>>,
         DecidedAt(act'[Len(act)]),
         ended' = "no" => TopDecided(act'[Len(act)], decision', debugger),
         ended' = "no" /\ debugger /\ handlers => Forgotten(act', decision')
  PROVE  DecideInv'
<1>1. Len(act') = Len(act) /\ Len(act) \in Nat \ {0}
  BY DEF Rewrites, StackInv, Frames
<1>2. ASSUME NEW i \in 1 .. Len(act'), act'[i].kind = "dispatch"
      PROVE  DecidedAt(act'[i])
  <2>1. CASE i = Len(act)
    BY <2>1
  <2>2. CASE i # Len(act)
    <3>1. i \in 1 .. Len(act) - 1 /\ i \in 1 .. Len(act)
      BY <1>1, <2>2
    <3>2. Like(act[i], act'[i]) /\ (act[i].kind = "dispatch" => DecidedAt(act[i]))
      BY <3>1 DEF Rewrites, DecideInv
    <3> QED
      BY <1>2, <3>2 DEF Like
  <2> QED
    BY <2>1, <2>2
<1> QED
  BY <1>1, <1>2 DEF DecideInv

(* What the invariant says of the exception that is dispatched.            *)
LEMMA TopIs ==
  ASSUME StackInv(act, front, win), DecideInv, NEW p, Running(p)
  PROVE  /\ DecidedAt(Top) /\ TopDecided(Top, decision, debugger)
         /\ debugger /\ handlers => Forgotten(act, decision)
         /\ p # "continue" /\ debugger /\ handlers => decision = NoDecision
         /\ p = "continue" /\ ~Top.continued /\ debugger /\ handlers => decision = NoDecision
<1>1. /\ Len(act) \in Nat \ {0} /\ Len(act) \in 1 .. Len(act) /\ Top = act[Len(act)]
      /\ Top.kind = "dispatch" /\ Top.phase = p /\ ended = "no"
  BY TopDispatch
<1>2. DecidedAt(Top) /\ TopDecided(Top, decision, debugger)
  BY <1>1 DEF DecideInv
<1>3. debugger /\ handlers => Forgotten(act, decision)
  BY <1>1 DEF DecideInv
<1> QED
  BY <1>1, <1>2, <1>3 DEF Forgotten

(* The two ways in which a handler that was asked returns.                 *)
LEMMA ReturnedDecided ==
  ASSUME StackInv(act, front, win), DecideInv, NEW p, Running(p),
         UNCHANGED <<mapped, handlers, debugger>>,
         NEW a, NEW d, Continues(act, d), NEW result, Returned(a, d, result),
         d.passes = 1, d.who # "frame", ~d.continued,
         result = "EXECUTION" => SignalFromCode(Top.e.code) # 0
  PROVE  DecideInv'
<1> DEFINE k == act'[Len(act)]
<1>1. /\ Rewrites(act, act') /\ k.who = d.who /\ k.passes = d.passes
      /\ k.phase = (IF d.by = "continue" THEN "resume" ELSE "continue")
      /\ k.continued <=> result = "EXECUTION"
      /\ ended' = (IF result = "EXECUTION" THEN "no" ELSE "terminated")
      /\ decision' = IF d.by = "continue" \/ SignalFromCode(d.e.code) = 0 THEN NoDecision
                     ELSE [record |-> d.e, result |-> result]
  BY DEF Returned
<1>2. d.e = Top.e /\ k.e = Top.e /\ Len(act') = Len(act) /\ Len(act) > 0
      /\ k.kind = "dispatch"
  BY <1>1 DEF Continues, Rewrites, Top
<1> HIDE DEF k
<1>3. DecidedAt(k)
  BY <1>1 DEF DecidedAt
<1>4. ASSUME ended' = "no" PROVE TopDecided(k, decision', debugger)
  <2>1. result = "EXECUTION"
    BY <1>1, <1>4
  <2>2. Once(k) /\ k.continued
    BY <1>1, <2>1 DEF Once
  <2>3. CASE d.by = "continue"
    BY <1>1, <2>2, <2>3 DEF TopDecided
  <2>4. CASE d.by # "continue"
    <3>1. decision' = [record |-> d.e, result |-> result]
      BY <1>1, <1>2, <2>1, <2>4
    <3>2. RecordMatches(decision'.record, k.e) /\ decision'.result = "EXECUTION"
      BY <1>2, <2>1, <3>1 DEF RecordMatches
    <3> QED
      BY <1>1, <2>2, <2>4, <3>2 DEF TopDecided
  <2> QED
    BY <2>3, <2>4
<1>5. ASSUME ended' = "no" PROVE Forgotten(act', decision')
  <2>1. k.continued /\ k = act'[Len(act')]
    BY <1>1, <1>2, <1>5 DEF k
  <2> QED
    BY <1>1, <1>2, <2>1 DEF Forgotten
<1> QED
  BY <1>1, <1>3, <1>4, <1>5, RewriteDecided DEF k

(* An unclaimed raise's return.                                            *)
LEMMA UnclaimedDecided ==
  ASSUME StackInv(act, front, win), DecideInv, NEW p, Running(p),
         UNCHANGED <<mapped, handlers, debugger>>,
         NEW d, Continues(act, d), ReturnedUnclaimed(d),
         d.passes = 1, d.who # "frame", ~d.continued,
         SignalFromCode(Top.e.code) # 0
  PROVE  DecideInv'
<1>1. PICK a, result : Returned(a, d, result)
  BY DEF ReturnedUnclaimed
<1> QED
  BY <1>1, ReturnedDecided

(* A call of a global decider.                                             *)
LEMMA AsksDecided ==
  ASSUME StackInv(act, front, win), DecideInv, NEW p, Running(p),
         UNCHANGED <<mapped, handlers, debugger>>,
         NEW d, Asks(d), d.passes = 1, d.who = "nobody", ~d.continued,
         SignalFromCode(Top.e.code) # 0,
         debugger /\ handlers => decision' = NoDecision
  PROVE  DecideInv'
<1> DEFINE k == act'[Len(act)]
<1>1. /\ Rewrites(act, act') /\ k.who = d.who /\ k.passes = d.passes
      /\ k.phase = "decider" /\ ~k.continued
  BY DEF Asks
<1>2. k.e = Top.e
  BY <1>1 DEF Rewrites, Top
<1> HIDE DEF k
<1>3. DecidedAt(k) /\ TopDecided(k, decision', debugger)
  BY <1>1, <1>2 DEF DecidedAt, TopDecided
<1>4. debugger /\ handlers => Forgotten(act', decision')
  BY DEF Forgotten
<1> QED
  BY <1>1, <1>3, <1>4, RewriteDecided DEF k

(* A run of the global pass is the first decision of its exception.        *)
LEMMA PassedDecided ==
  ASSUME ChainInv, DecideInv, NEW p, Running(p),
         UNCHANGED <<mapped, handlers, debugger>>,
         NEW by, NEW d, Passed(by, d),
         Top.passes = 0, Top.who = "nobody", ~Top.continued,
         debugger /\ handlers => decision = NoDecision
  PROVE  DecideInv'
<1>0. StackInv(act, front, win)
  BY DEF ChainInv
<1>1. /\ Continues(act, d) /\ d.passes = 1 /\ d.who = "nobody" /\ ~d.continued
  BY DEF Passed
<1> DEFINE signo == SignalFromCode(Top.e.code)
<1>2. CASE signo \in mapped /\ Asks(d) /\ decision' \in {NoDecision, decision}
  <2>1. signo # 0
    BY <1>2, SignalsAssumption DEF ChainInv
  <2> QED
    BY <1>0, <1>1, <1>2, <2>1, AsksDecided
<1>3. CASE Returned(act, d, "SEARCH")
  <2> DEFINE r == "SEARCH"
  <2>1. Returned(act, d, r) /\ r # "EXECUTION"
    BY <1>3
  <2> HIDE DEF r
  <2> QED
    BY <1>0, <1>1, <2>1, ReturnedDecided
<1>4. CASE signo # 0 /\ ReturnedUnclaimed(d)
  BY <1>0, <1>1, <1>4, UnclaimedDecided
<1> QED
  BY <1>2, <1>3, <1>4 DEF Passed

(* Under a debugger everything stays installed.                            *)
DebuggerKeeps == TRUE \in Debuggers => KeepInstalled

(* Nothing is dispatched.                                                  *)
LEMMA DecideInit ==
  ASSUME DebuggerKeeps, Init
  PROVE  DecideInv
<1>1. /\ Len(act) = 0 /\ decision = NoDecision /\ debugger \in Debuggers
      /\ mapped = (IF debugger /\ KeepInstalled THEN Signals ELSE {})
      /\ handlers = (mapped # {})
  BY DEF Init
<1>2. debugger => KeepInstalled
  <2>1. debugger \in BOOLEAN
    BY <1>1, RulesAssumption
  <2> QED
    BY <1>1, <2>1 DEF DebuggerKeeps
<1>3. debugger => mapped = Signals /\ (handlers <=> Signals # {}) /\ KeepInstalled
  BY <1>1, <1>2
<1>4. Forgotten(act, decision)
  BY <1>1 DEF Forgotten
<1> QED
  BY <1>1, <1>3, <1>4 DEF DecideInv

(* The exception goes on and nothing is decided.                           *)
LEMMA MovesDecided ==
  ASSUME StackInv(act, front, win), DecideInv, NEW p, Running(p), p # "continue",
         UNCHANGED <<decision, mapped, handlers, debugger, ended>>,
         Rewrites(act, act'), DecidedAt(act'[Len(act)]),
         TopDecided(act'[Len(act)], decision, debugger)
  PROVE  DecideInv'
<1>1. debugger /\ handlers => decision = NoDecision
  BY TopIs
<1>2. debugger /\ handlers => Forgotten(act', decision')
  BY <1>1 DEF Forgotten
<1> QED
  BY <1>2, RewriteDecided

(* Every step keeps that.                                                  *)
LEMMA DecideNext ==
  ASSUME AbandonRule # "any", ChainInv, DecideInv, [Next]_vars
  PROVE  DecideInv'
<1>0. StackInv(act, front, win)
  BY DEF ChainInv
<1>1. ASSUME NEW s \in Signals, Install(s) \/ Uninstall(s) PROVE DecideInv'
  <2>1. ~debugger
    BY <1>1 DEF Install, Uninstall, DecideInv
  <2>2. UNCHANGED <<act, decision, debugger, ended>>
    BY <1>1 DEF Install, Uninstall
  <2> QED
    BY <2>1, <2>2 DEF DecideInv
<1>2. CASE Sigguarded \/ StdcRaise \/ Fault
  <2>1. Pushes /\ UserCode
    BY <1>0, <1>2, CallPushes
  <2>2. ~Running("continue")
    BY <2>1 DEF UserCode, Deciding, Running
  <2> QED
    BY <1>0, <1>2, <2>1, <2>2, QuietDecided DEF Sigguarded, StdcRaise, Fault
<1>3. CASE GuardedReturns \/ FilterRecover \/ Resume \/ JumpOut
  <2>1. Cuts /\ ~Running("continue")
    BY <1>0, <1>3, LeaveCuts
  <2> QED
    BY <1>0, <1>3, <2>1, QuietDecided DEF GuardedReturns, FilterRecover, Resume, JumpOut
<1>4. CASE FilterSearch
  <2>1. Searches /\ Running("search")
    BY <1>4, FilterSearchChains DEF FilterSearch
  <2>2. /\ Top.phase = "search" /\ DecidedAt(Top)
    BY <1>0, <2>1, TopDispatch, TopIs
  <2>3. /\ DecidedAt(act'[Len(act)]) /\ TopDecided(act'[Len(act)], decision, debugger)
    BY <2>1, <2>2 DEF Searches, DecidedAt, TopDecided
  <2> QED
    BY <1>0, <1>4, <2>1, <2>3, MovesDecided DEF Searches, FilterSearch
<1>5. CASE FilterNext
  <2>1. Moves("search") /\ Running("filter")
    BY <1>5, FilterNextChains DEF FilterNext
  <2>2. /\ Top.phase = "filter" /\ DecidedAt(Top)
    BY <1>0, <2>1, TopDispatch, TopIs
  <2>3. /\ DecidedAt(act'[Len(act)]) /\ TopDecided(act'[Len(act)], decision, debugger)
    BY <2>1, <2>2 DEF Moves, DecidedAt, TopDecided
  <2> QED
    BY <1>0, <1>5, <2>1, <2>3, MovesDecided DEF Moves, FilterNext
<1>6. CASE FilterResume
  <2>1. Claims /\ Running("filter")
    BY <1>6, FilterResumeChains DEF FilterResume
  <2>2. Top.phase = "filter" /\ DecidedAt(Top) /\ Top = act[Len(act)]
    BY <1>0, <2>1, TopDispatch, TopIs
  <2> DEFINE k == act'[Len(act)]
  <2>3. /\ k.phase = "continue" /\ k.who = "frame" /\ k.continued /\ k.passes = 0
        /\ Rewrites(act, act') /\ k.e = Top.e /\ Len(act') = Len(act) /\ Len(act) > 0
        /\ k.kind = "dispatch"
    BY <2>1, <2>2 DEF Claims, DecidedAt, Rewrites
  <2>4. decision'.record = Top.e /\ decision'.result = "EXECUTION"
    BY <1>6 DEF FilterResume
  <2>5. Forgotten(act', decision')
    BY <2>3 DEF Forgotten
  <2> HIDE DEF k
  <2>6. DecidedAt(k) /\ TopDecided(k, decision', debugger)
    BY <2>3, <2>4 DEF DecidedAt, TopDecided, Once, RecordMatches
  <2> QED
    BY <1>0, <1>6, <2>3, <2>5, <2>6, RewriteDecided DEF FilterResume, k
<1>7. CASE UnhandledExceptionFilter
  <2>1. Unhandled /\ Running("search") /\ UNCHANGED <<mapped, handlers, debugger>>
    BY <1>7, UnhandledChains DEF UnhandledExceptionFilter
  <2>2. /\ Top.phase = "search" /\ DecidedAt(Top)
        /\ debugger /\ handlers => decision = NoDecision
    BY <1>0, <2>1, TopDispatch, TopIs
  <2>3. Top.passes = 0 /\ Top.who = "nobody" /\ ~Top.continued
    BY <2>2 DEF DecidedAt
  <2>4. CASE debugger /\ Moves("continue") /\ UNCHANGED <<decision, ended>>
    <3>1. /\ DecidedAt(act'[Len(act)]) /\ TopDecided(act'[Len(act)], decision, debugger)
      BY <2>3, <2>4 DEF Moves, DecidedAt, TopDecided
    <3> QED
      BY <1>0, <2>1, <2>4, <3>1, MovesDecided DEF Moves
  <2>5. CASE \E d : Passed("unhandled", d)
    BY <2>1, <2>2, <2>3, <2>5, PassedDecided
  <2>6. CASE ended' = "terminated" /\ UNCHANGED <<act, decision>>
    BY <2>1, <2>6 DEF DecideInv
  <2> QED
    BY <2>1, <2>4, <2>5, <2>6 DEF Unhandled
<1>8. CASE VectoredContinueHandler
  <2>1. Vectored /\ Running("continue") /\ UNCHANGED <<mapped, handlers, debugger>>
    BY <1>8, VectoredChains DEF VectoredContinueHandler
  <2>2. /\ Top.phase = "continue" /\ TopDecided(Top, decision, debugger)
        /\ ~Top.continued /\ debugger /\ handlers => decision = NoDecision
    BY <1>0, <2>1, TopDispatch, TopIs
  <2> DEFINE match == RecordMatches(decision.record, Top.e)
             result == IF handlers /\ match THEN decision.result ELSE "SEARCH"
  <2>3. CASE handlers /\ ~match /\ \E d : Passed("continue", d)
    <3>1. debugger /\ ~Top.continued /\ Top.passes = 0 /\ Top.who = "nobody"
      BY <2>2, <2>3 DEF TopDecided
    <3> QED
      BY <2>1, <2>2, <2>3, <3>1, PassedDecided
  <2>4. CASE /\ Moves("resume")
             /\ ended' = (IF Top.continued \/ result = "EXECUTION" THEN "no" ELSE "terminated")
             /\ decision' = IF handlers THEN NoDecision ELSE decision
    <3>1. ASSUME ended' = "no" PROVE Once(Top) /\ Top.continued
      <4>1. CASE ~Top.continued
        <5>1. debugger
          BY <2>2, <4>1 DEF TopDecided
        <5>2. result = "EXECUTION" /\ handlers /\ decision = NoDecision
          BY <2>2, <2>4, <3>1, <4>1, <5>1
        <5> QED
          BY <5>2 DEF NoDecision
      <4>2. CASE Top.continued
        BY <2>2, <4>2 DEF TopDecided
      <4> QED
        BY <4>1, <4>2
    <3>2. DecidedAt(act'[Len(act)])
      BY <2>4 DEF Moves, DecidedAt
    <3>3. ended' = "no" => TopDecided(act'[Len(act)], decision', debugger)
      BY <2>4, <3>1 DEF Moves, TopDecided, Once
    <3>4. handlers => Forgotten(act', decision')
      BY <2>4 DEF Forgotten
    <3> QED
      BY <1>0, <2>1, <2>4, <3>2, <3>3, <3>4, RewriteDecided DEF Moves
  <2> QED
    BY <2>1, <2>3, <2>4 DEF Vectored
<1>9. CASE DeciderNext
  <2>1. /\ Running("decider") /\ UNCHANGED <<mapped, handlers, debugger>>
        /\ \/ Asks(Top) /\ UNCHANGED <<decision, ended>>
           \/ Continues(act, Top) /\ ReturnedUnclaimed(Top)
    BY <1>9, DeciderNextChains DEF DeciderNext
  <2>2. /\ Top.phase = "decider" /\ DecidedAt(Top)
        /\ debugger /\ handlers => decision = NoDecision
    BY <1>0, <2>1, TopDispatch, TopIs
  <2>3. /\ Top.passes = 1 /\ Top.who = "nobody" /\ ~Top.continued
        /\ SignalFromCode(Top.e.code) # 0
    BY <2>2 DEF DecidedAt
  <2>4. CASE Asks(Top) /\ UNCHANGED <<decision, ended>>
    BY <1>0, <2>1, <2>2, <2>3, <2>4, AsksDecided
  <2>5. CASE Continues(act, Top) /\ ReturnedUnclaimed(Top)
    BY <1>0, <2>1, <2>3, <2>5, UnclaimedDecided
  <2> QED
    BY <2>1, <2>4, <2>5
<1>10. CASE DeciderClaims
  <2>1. Running("decider") /\ UNCHANGED <<mapped, handlers, debugger>>
    BY <1>10 DEF DeciderClaims
  <2>2. CASE front # 0
    <3>1. Cuts /\ ~Running("continue")
      BY <1>0, <1>10, <2>2, LeaveCuts
    <3>2. UNCHANGED <<decision, ended>>
      BY <1>10, <2>2 DEF DeciderClaims
    <3> QED
      BY <1>0, <2>1, <3>1, <3>2, QuietDecided
  <2>3. CASE front = 0
    <3>1. PICK d : /\ Continues(act, d) /\ Returned(act, d, "EXECUTION")
                   /\ d.who = "global" /\ d.passes = Top.passes /\ d.by = Top.by
                   /\ d.continued = Top.continued
      BY <1>10, <2>3, DeciderClaimsChains
    <3>2. Top.phase = "decider" /\ DecidedAt(Top)
      BY <1>0, <2>1, TopDispatch, TopIs
    <3>3. /\ d.passes = 1 /\ d.who # "frame" /\ ~d.continued
          /\ SignalFromCode(Top.e.code) # 0
      BY <3>1, <3>2 DEF DecidedAt
    <3> DEFINE r == "EXECUTION"
    <3>4. Returned(act, d, r)
      BY <3>1
    <3> HIDE DEF r
    <3> QED
      BY <1>0, <2>1, <3>1, <3>3, <3>4, ReturnedDecided
  <2> QED
    BY <2>2, <2>3
<1>11. CASE SigdeciderAbandon \/ SigdeciderAbandonResume
  <2>1. PICK r : SetsRsi(r)
    BY <1>11, AbandonChains, AbandonResumeChains
  <2>2. ended' = ended
    BY <1>11, AbandonChains, AbandonResumeChains
  <2>3. UNCHANGED <<decision, mapped, handlers, debugger>> /\ Deciding
    BY <1>11 DEF SigdeciderAbandon, SigdeciderAbandonResume
  <2>4. PICK p \in Called : Running(p)
    BY <2>3 DEF Deciding, Called
  <2>5. Top.phase = p /\ DecidedAt(Top) /\ Top = act[Len(act)]
    BY <1>0, <2>4, TopDispatch, TopIs
  <2>6. Rewrites(act, act') /\ act'[Len(act)].e = Top.e
    BY <2>1, <2>5 DEF SetsRsi, Rewrites
  <2>7. /\ DecidedAt(act'[Len(act)]) /\ TopDecided(act'[Len(act)], decision, debugger)
        /\ p # "continue"
    BY <2>1, <2>4, <2>5, <2>6 DEF SetsRsi, DecidedAt, TopDecided, Called
  <2> QED
    BY <1>0, <2>2, <2>3, <2>4, <2>6, <2>7, MovesDecided
<1>12. CASE Ended \/ UNCHANGED vars
  BY <1>12 DEF Ended, vars, DecideInv
<1> QED
  BY <1>1, <1>2, <1>3, <1>4, <1>5, <1>6, <1>7, <1>8, <1>9, <1>10, <1>11, <1>12 DEF Next

(* So both invariants always hold.                                         *)
LEMMA DecideInvariant ==
  ASSUME AbandonRule # "any", DebuggerKeeps
  PROVE  Spec => [](ChainInv /\ DecideInv)
<1>1. Init => ChainInv /\ DecideInv
  BY ChainInit, DecideInit
<1>2. (ChainInv /\ DecideInv) /\ [Next]_vars => (ChainInv /\ DecideInv)'
  BY ChainNext, DecideNext
<1> QED
  BY <1>1, <1>2, PTL DEF Spec

(* An exception that execution continues after was decided exactly once,   *)
(* and never by the decision recorded for another one.                     *)
THEOREM ExceptionsDecidedOnce ==
  ASSUME AbandonRule # "any", DebuggerKeeps
  PROVE  Spec => []DecidedOnce
<1>1. ASSUME ChainInv, DecideInv PROVE DecidedOnce
  <2> SUFFICES ASSUME Running("resume")
               PROVE  Top.passes + (IF Top.who = "frame" THEN 1 ELSE 0) = 1
    BY DEF DecidedOnce
  <2>1. StackInv(act, front, win)
    BY <1>1 DEF ChainInv
  <2>2. TopDecided(Top, decision, debugger) /\ Top.phase = "resume"
    BY <1>1, <2>1, TopIs, TopDispatch
  <2> QED
    BY <2>2 DEF TopDecided, Once
<1>2. ChainInv /\ DecideInv => DecidedOnce
  BY <1>1
<1> QED
  BY <1>2, DecideInvariant, PTL

-----------------------------------------------------------------------------
(* A raise of ours survives.                                               *)

(* The empty memory of the last decision is of no signal.                  *)
LEMMA NoRecordNoSignal ==
  SignalFromCode(NoDecision.record.code) = 0
<1>1. NoDecision.record.code = Native("zero")
  BY DEF NoDecision, NoRecord, ExceptionRecord
<1>2. Native("zero").native = "zero"
  BY DEF Native
<1> QED
  BY <1>1, <1>2 DEF SignalFromCode

(* A raise of ours that nobody claims goes on.                             *)
LEMMA OwnUnclaimed ==
  ASSUME StackInv(act, front, win), NEW p, Running(p), ~Top.gone, Top.own,
         NEW d, Continues(act, d), ReturnedUnclaimed(d)
  PROVE  ended' = "no"
<1>1. d.e = Top.e
  BY DEF Continues, Top
<1>2. MatchingRaiseFrame(d.e)
  BY <1>1, OwnInnermost
<1> QED
  BY <1>2 DEF ReturnedUnclaimed, Returned

(* So it does after any run of the global pass, unless it is of signal 0.  *)
LEMMA OwnPassed ==
  ASSUME StackInv(act, front, win), NEW p, Running(p), ~Top.gone,
         Top.own, SignalFromCode(Top.e.code) # 0, NEW by, NEW d, Passed(by, d)
  PROVE  ended' = "no"
<1>1. ended = "no"
  BY TopDispatch
<1>2. Continues(act, d) /\ (ended' = ended \/ ReturnedUnclaimed(d))
  BY <1>1 DEF Passed
<1> QED
  BY <1>1, <1>2, OwnUnclaimed

(* "stdc_raise() then returns false instead of the exception reaching      *)
(* Windows Error Reporting": no step terminates the process for a raise of *)
(* ours while the handlers are installed, whatever its argument, except    *)
(* for one that the cut to 30 bits has made signal 0.                      *)
THEOREM RaisesSurvive ==
  ASSUME AbandonRule # "any", DebuggerKeeps
  PROVE  Spec => RaiseSurvives
<1> DEFINE Survives == ended = "no" /\ ended' = "terminated" /\ handlers =>
                         ~Top.own \/ SignalFromCode(Top.e.code) = 0
<1>1. ASSUME ChainInv, DecideInv, Next PROVE Survives
  <2> SUFFICES ASSUME ended = "no", ended' = "terminated", handlers, Top.own,
                      SignalFromCode(Top.e.code) # 0
               PROVE  FALSE
    BY DEF Survives
  <2>0. StackInv(act, front, win)
    BY <1>1 DEF ChainInv
  <2>1. ASSUME NEW s \in Signals, Install(s) \/ Uninstall(s) PROVE FALSE
    BY <2>1 DEF Install, Uninstall
  <2>2. CASE \/ Sigguarded \/ GuardedReturns \/ StdcRaise \/ Fault
             \/ FilterSearch \/ FilterNext \/ FilterResume \/ FilterRecover
             \/ Resume \/ JumpOut \/ Ended
    BY <2>2 DEF Sigguarded, GuardedReturns, StdcRaise, Fault, FilterSearch, FilterNext,
                FilterResume, FilterRecover, Resume, JumpOut, Ended
  <2>3. CASE SigdeciderAbandon \/ SigdeciderAbandonResume
    <3>1. ended' = ended
      BY <1>1, <2>3, AbandonChains, AbandonResumeChains
    <3> QED
      BY <3>1
  <2>4. CASE UnhandledExceptionFilter
    <3>1. Unhandled /\ Running("search")
      BY <1>1, <2>4, UnhandledChains DEF UnhandledExceptionFilter
    <3>2. ~Top.gone
      BY <2>0, <3>1, NotGone DEF Called
    <3>3. PICK d : Passed("unhandled", d)
      BY <3>1 DEF Unhandled
    <3> QED
      BY <2>0, <3>1, <3>2, <3>3, OwnPassed
  <2>5. CASE VectoredContinueHandler
    <3>1. Vectored /\ Running("continue")
      BY <1>1, <2>5, VectoredChains DEF VectoredContinueHandler
    <3>2. ~Top.gone
      BY <2>0, <3>1, NotGone DEF Called
    <3>3. ~\E d : Passed("continue", d)
      BY <2>0, <3>1, <3>2, OwnPassed
    <3>4. RecordMatches(decision.record, Top.e) /\ ~Top.continued
      BY <3>1, <3>3 DEF Vectored
    <3>5. decision.result # "EXECUTION"
      BY <3>1, <3>3 DEF Vectored
    <3>6. TopDecided(Top, decision, debugger) /\ Top.phase = "continue"
      BY <1>1, <2>0, <3>1, TopIs, TopDispatch
    <3>7. debugger
      BY <3>5, <3>6 DEF TopDecided
    <3>8. decision = NoDecision
      BY <1>1, <2>0, <3>1, <3>4, <3>7, TopIs
    <3>9. SignalFromCode(Top.e.code) = 0
      BY <3>4, <3>8, NoRecordNoSignal DEF RecordMatches
    <3> QED
      BY <3>9
  <2>6. CASE DeciderNext
    <3>1. /\ Running("decider") /\ ~Top.gone
          /\ \/ UNCHANGED ended
             \/ Continues(act, Top) /\ ReturnedUnclaimed(Top)
      BY <1>1, <2>6, DeciderNextChains DEF DeciderNext
    <3> QED
      BY <2>0, <3>1, OwnUnclaimed
  <2>7. CASE DeciderClaims
    <3>1. UNCHANGED ended \/ \E d : Returned(act, d, "EXECUTION")
      BY <1>1, <2>7, DeciderClaimsChains
    <3> QED
      BY <3>1 DEF Returned
  <2> QED
    BY <1>1, <2>1, <2>2, <2>3, <2>4, <2>5, <2>6, <2>7 DEF Next
<1>2. ASSUME ChainInv, DecideInv, [Next]_vars PROVE [Survives]_vars
  BY <1>1, <1>2
<1>3. ChainInv /\ DecideInv /\ [Next]_vars => [Survives]_vars
  BY <1>2
<1>4. Spec => [](ChainInv /\ DecideInv) /\ [][Next]_vars
  BY DecideInvariant, PTL DEF Spec
<1>5. Spec => [][Survives]_vars
  BY <1>3, <1>4, PTL
<1> QED
  BY <1>5 DEF RaiseSurvives

-----------------------------------------------------------------------------
(* A raise reports whether its exception was claimed.                      *)

(* A genuine fault can be told from every raise, by code or parameters.    *)
FaultsApart == RaiseCodes \cap FaultCodes = {} \/ RaiseParams \cap FaultParams = {}

(* Once a handler has said to continue, the raise below its exception is   *)
(* unclaimed exactly if nobody claimed it; until then it is unmarked.      *)
FlagsAt(s, i) ==
  s[i].kind = "dispatch" /\ s[i].own =>
    IF s[i].continued THEN s[i - 1].unclaimed <=> s[i].who = "nobody"
    ELSE ~s[i - 1].claimed /\ ~s[i - 1].unclaimed

FlagInv == \A i \in 1 .. Len(act) : FlagsAt(act, i)

(* The exception of a raise is right above it.                             *)
LEMMA RaiseBelow ==
  ASSUME NEW s, Frames(s), NEW i \in 1 .. Len(s), s[i].kind = "dispatch", s[i].own
  PROVE  i > 1 /\ i - 1 \in 1 .. Len(s) - 1 /\ s[i - 1].kind = "raise"
<1>1. Pos(s, i) /\ Len(s) \in Nat
  BY At
<1>2. i > 1 /\ s[i - 1].kind = "raise"
  BY <1>1 DEF Pos, OwnAt
<1> QED
  BY <1>1, <1>2

(* Only the exception of a raise matches one.                              *)
LEMMA MatchIsOwn ==
  ASSUME FaultsApart, StackInv(act, front, win), NEW p, Running(p),
         MatchingRaiseFrame(Top.e)
  PROVE  Top.own
<1>1. /\ Top \in DispatchType /\ Top = act[Len(act)] /\ Top.kind = "dispatch"
      /\ Pos(act, Len(act))
  BY TopDispatch
<1>2. win # 0 /\ RecordMatches(act[win].record, Top.e)
  BY DEF MatchingRaiseFrame
<1>3. act[win].record \in Snapshots
  BY <1>2, WinRaise DEF RaiseType
<1>4. Top.e.code \in RaiseCodes /\ Top.e.params \in RaiseParams
  BY <1>2, <1>3 DEF RecordMatches, Snapshots
<1>5. ASSUME ~Top.own PROVE FALSE
  <2>1. Top.e \in FaultRecords
    BY <1>1, <1>5 DEF Pos, OwnAt
  <2>2. Top.e.code \in FaultCodes /\ Top.e.params \in FaultParams
    BY <2>1 DEF FaultRecords
  <2> QED
    BY <1>4, <2>2 DEF FaultsApart
<1> QED
  BY <1>5

(* Returns keep that.                                                      *)
LEMMA CutsFlags ==
  ASSUME StackInv(act, front, win), FlagInv, Cuts
  PROVE  FlagInv'
<1> SUFFICES ASSUME NEW i \in 1 .. Len(act'), act'[i].kind = "dispatch", act'[i].own
             PROVE  FlagsAt(act', i)
  BY DEF FlagInv, FlagsAt
<1>1. act'[i] = act[i] /\ i \in 1 .. Len(act) /\ Len(act') \in Nat
  BY DEF Cuts
<1>2. Frames(act) /\ FlagsAt(act, i)
  BY <1>1 DEF StackInv, FlagInv
<1>3. i > 1
  BY <1>1, <1>2, RaiseBelow
<1>4. i - 1 \in 1 .. Len(act')
  BY <1>1, <1>3
<1>5. act'[i - 1] = act[i - 1]
  BY <1>4 DEF Cuts
<1> QED
  BY <1>1, <1>2, <1>5 DEF FlagsAt

(* So do calls: the exception of a new raise is pushed right after it.     *)
LEMMA PushesFlags ==
  ASSUME StackInv(act, front, win), FlagInv, Pushes, Frames(act')
  PROVE  FlagInv'
<1> SUFFICES ASSUME NEW i \in 1 .. Len(act'), act'[i].kind = "dispatch", act'[i].own
             PROVE  FlagsAt(act', i)
  BY DEF FlagInv, FlagsAt
<1>0. Len(act) \in Nat /\ Len(act') \in Nat /\ Len(act') > Len(act)
  BY DEF Pushes
<1>1. i > 1 /\ act'[i - 1].kind = "raise" /\ i - 1 \in 1 .. Len(act') - 1
  BY RaiseBelow
<1>2. CASE i \in 1 .. Len(act)
  <2>1. i - 1 \in 1 .. Len(act)
    BY <1>0, <1>1, <1>2
  <2>2. SameBut(act[i], act'[i]) /\ SameBut(act[i - 1], act'[i - 1])
    BY <1>2, <2>1 DEF Pushes
  <2>3. FlagsAt(act, i) /\ act'[i - 1] = act[i - 1]
    BY <1>1, <1>2, <2>2 DEF FlagInv, SameBut
  <2> QED
    BY <2>2, <2>3 DEF FlagsAt, SameBut
<1>3. CASE i = Len(act) + 1
  <2>1. Len(act) > 0 /\ Len(act) \in 1 .. Len(act) /\ i - 1 = Len(act)
    BY <1>0, <1>1, <1>3
  <2>2. SameBut(act[Len(act)], act'[Len(act)])
    BY <2>1 DEF Pushes
  <2>3. act[Len(act)].kind = "raise"
    BY <1>1, <2>1, <2>2 DEF SameBut
  <2> QED
    BY <2>1, <2>3 DEF StackInv, TopFits
<1>4. CASE i > Len(act) + 1
  <2>1. i \in Len(act) + 1 .. Len(act') /\ i - 1 \in Len(act) + 1 .. Len(act')
    BY <1>0, <1>4
  <2>2. Fresh(act'[i]) /\ Fresh(act'[i - 1])
    BY <2>1 DEF Pushes
  <2> QED
    BY <1>1, <2>2 DEF Fresh, FlagsAt
<1> QED
  BY <1>0, <1>2, <1>3, <1>4

(* A step of the exception on top need only keep it there, if it leaves    *)
(* the raises further out alone.                                           *)
LEMMA RewriteFlags ==
  ASSUME StackInv(act, front, win), FlagInv, Rewrites(act, act'),
         \A i \in 1 .. Len(act) - 2 : act[i].kind = "raise" => act'[i] = act[i],
         FlagsAt(act', Len(act))
  PROVE  FlagInv'
<1>1. Len(act') = Len(act) /\ Len(act) \in Nat \ {0} /\ Frames(act)
  BY DEF Rewrites, StackInv, Frames
<1> SUFFICES ASSUME NEW i \in 1 .. Len(act), i # Len(act),
                    act'[i].kind = "dispatch", act'[i].own
             PROVE  FlagsAt(act', i)
  BY <1>1 DEF FlagInv, FlagsAt
<1>2. i \in 1 .. Len(act) - 1
  BY <1>1
<1>3. Like(act[i], act'[i])
  BY <1>2 DEF Rewrites
<1>4. act'[i] = act[i]
  BY <1>3 DEF Like
<1>5. i > 1 /\ act[i - 1].kind = "raise"
  BY <1>1, <1>4, RaiseBelow
<1>6. i - 1 \in 1 .. Len(act) - 2
  BY <1>1, <1>2, <1>5
<1>7. act'[i - 1] = act[i - 1] /\ FlagsAt(act, i)
  BY <1>5, <1>6 DEF FlagInv
<1> QED
  BY <1>4, <1>7 DEF FlagsAt

(* A step that marks nothing and decides nothing.                          *)
LEMMA QuietFlags ==
  ASSUME StackInv(act, front, win), FlagInv, Rewrites(act, act'),
         \A i \in 1 .. Len(act) - 1 : act[i].kind # "guard" => act'[i] = act[i],
         act'[Len(act)].continued <=> act[Len(act)].continued,
         act'[Len(act)].who = act[Len(act)].who
  PROVE  FlagInv'
<1>1. Len(act) \in Nat \ {0} /\ Frames(act) /\ Len(act) \in 1 .. Len(act)
  BY DEF Rewrites, StackInv, Frames
<1>2. \A i \in 1 .. Len(act) - 2 : act[i].kind = "raise" => act'[i] = act[i]
  <2>1. \A i \in 1 .. Len(act) - 2 : i \in 1 .. Len(act) - 1
    BY <1>1
  <2> QED
    BY <2>1
<1>3. FlagsAt(act', Len(act))
  <2> SUFFICES ASSUME act'[Len(act)].own PROVE FlagsAt(act', Len(act))
    BY DEF FlagsAt
  <2>1. act[Len(act)].own /\ act[Len(act)].kind = "dispatch"
    BY DEF Rewrites
  <2>2. Len(act) - 1 \in 1 .. Len(act) - 1 /\ act[Len(act) - 1].kind = "raise"
    BY <1>1, <2>1, RaiseBelow
  <2>3. act'[Len(act) - 1] = act[Len(act) - 1] /\ FlagsAt(act, Len(act))
    BY <1>1, <2>2 DEF FlagInv
  <2> QED
    BY <2>1, <2>3 DEF FlagsAt
<1> QED
  BY <1>2, <1>3, RewriteFlags

(* A raise that nobody claimed is marked as its handler returns; a fault   *)
(* marks nothing.                                                          *)
LEMMA UnclaimedFlags ==
  ASSUME FaultsApart, StackInv(act, front, win), FlagInv, NEW p, Running(p), ~Top.gone,
         ~Top.continued, NEW d, Continues(act, d), ReturnedUnclaimed(d),
         d.who = "nobody", Top.who = "nobody", ~d.continued
  PROVE  FlagInv'
<1>0. /\ Len(act) \in Nat \ {0} /\ Len(act) \in 1 .. Len(act) /\ Top = act[Len(act)]
      /\ Top.kind = "dispatch"
  BY TopDispatch
<1>1. CASE MatchingRaiseFrame(d.e)
  <2>1. PICK a : Marks(a) /\ Returned(a, d, "EXECUTION")
    BY <1>1 DEF ReturnedUnclaimed
  <2>2. d.e = Top.e
    BY <1>0 DEF Continues
  <2>3. Top.own
    BY <1>1, <2>2, MatchIsOwn
  <2>4. win = Len(act) - 1 /\ win \in 1 .. Len(act) - 1
    BY <2>3, OwnInnermost
  <2>5. ~act[win].claimed
    BY <1>0, <2>3, <2>4 DEF FlagInv, FlagsAt
  <2>6. a[win].unclaimed
    BY <2>1, <2>5 DEF Marks
  <2>7. /\ Rewrites(act, act') /\ act'[win].unclaimed
        /\ act'[Len(act)].continued /\ act'[Len(act)].who = "nobody"
    BY <2>1, <2>4, <2>6 DEF Returned
  <2>8. FlagsAt(act', Len(act))
    BY <2>4, <2>7 DEF FlagsAt
  <2>9. ASSUME NEW i \in 1 .. Len(act) - 2 PROVE act'[i] = act[i]
    <3>1. i \in 1 .. Len(act) - 1 /\ i \in 1 .. Len(act) /\ i # win
      BY <1>0, <2>4
    <3> QED
      BY <2>1, <3>1 DEF Returned, Marks
  <2> QED
    BY <2>7, <2>8, <2>9, RewriteFlags
<1>2. CASE ~MatchingRaiseFrame(d.e)
  <2>1. Returned(act, d, "SEARCH")
    BY <1>2 DEF ReturnedUnclaimed
  <2>2. /\ Rewrites(act, act') /\ \A i \in 1 .. Len(act) - 1 : act'[i] = act[i]
        /\ ~act'[Len(act)].continued /\ act'[Len(act)].who = "nobody"
    BY <2>1 DEF Returned
  <2> QED
    BY <1>0, <2>2, QuietFlags
<1> QED
  BY <1>1, <1>2

(* A run of the global pass.                                               *)
LEMMA PassedFlags ==
  ASSUME FaultsApart, StackInv(act, front, win), FlagInv, NEW p, Running(p), ~Top.gone,
         Top.who = "nobody", ~Top.continued, NEW by, NEW d, Passed(by, d)
  PROVE  FlagInv'
<1>0. Top = act[Len(act)]
  BY DEF Top
<1>1. Continues(act, d) /\ d.who = "nobody" /\ ~d.continued
  BY DEF Passed
<1>2. CASE Asks(d)
  <2>1. /\ Rewrites(act, act') /\ \A i \in 1 .. Len(act) - 1 : act'[i] = act[i]
        /\ ~act'[Len(act)].continued /\ act'[Len(act)].who = "nobody"
    BY <1>1, <1>2 DEF Asks
  <2> QED
    BY <1>0, <2>1, QuietFlags
<1>3. CASE Returned(act, d, "SEARCH")
  <2>1. /\ Rewrites(act, act') /\ \A i \in 1 .. Len(act) - 1 : act'[i] = act[i]
        /\ ~act'[Len(act)].continued /\ act'[Len(act)].who = "nobody"
    BY <1>1, <1>3 DEF Returned
  <2> QED
    BY <1>0, <2>1, QuietFlags
<1>4. CASE ReturnedUnclaimed(d)
  BY <1>1, <1>4, UnclaimedFlags
<1> QED
  BY <1>2, <1>3, <1>4 DEF Passed

(* A claim by a frame's decider.                                           *)
LEMMA ClaimsFlags ==
  ASSUME FaultsApart, StackInv(act, front, win), FlagInv, Running("filter"), ~Top.gone,
         ~Top.continued, Claims
  PROVE  FlagInv'
<1>0. /\ Len(act) \in Nat \ {0} /\ Len(act) \in 1 .. Len(act) /\ Top = act[Len(act)]
      /\ Top.kind = "dispatch"
  BY TopDispatch
<1>1. /\ Rewrites(act, act') /\ act'[Len(act)].who = "frame" /\ act'[Len(act)].continued
      /\ act'[Len(act)].own = Top.own
  BY <1>0 DEF Claims, Rewrites
<1>2. CASE Top.own
  <2>1. /\ win = Len(act) - 1 /\ win \in 1 .. Len(act) - 1 /\ MatchingRaiseFrame(Top.e)
    BY <1>2, OwnInnermost
  <2>2. ~act[win].unclaimed
    BY <1>0, <1>2, <2>1 DEF FlagInv, FlagsAt
  <2>3. ~act'[win].unclaimed
    BY <2>1, <2>2 DEF Claims
  <2>4. FlagsAt(act', Len(act))
    BY <1>1, <2>1, <2>3 DEF FlagsAt
  <2>5. ASSUME NEW i \in 1 .. Len(act) - 2 PROVE act'[i] = act[i]
    <3>1. i \in 1 .. Len(act) - 1 /\ i # win
      BY <1>0, <2>1
    <3> QED
      BY <3>1 DEF Claims
  <2> QED
    BY <1>1, <2>4, <2>5, RewriteFlags
<1>3. CASE ~Top.own
  <2>1. ~MatchingRaiseFrame(Top.e)
    BY <1>3, MatchIsOwn
  <2>2. FlagsAt(act', Len(act))
    BY <1>1, <1>3 DEF FlagsAt
  <2>3. ASSUME NEW i \in 1 .. Len(act) - 2 PROVE act'[i] = act[i]
    <3>1. i \in 1 .. Len(act) - 1
      BY <1>0
    <3> QED
      BY <2>1, <3>1 DEF Claims
  <2> QED
    BY <1>1, <2>2, <2>3, RewriteFlags
<1> QED
  BY <1>2, <1>3

(* Every step keeps that.                                                  *)
LEMMA FlagNext ==
  ASSUME AbandonRule # "any", FaultsApart, ChainInv, ChainInv', DecideInv, FlagInv, [Next]_vars
  PROVE  FlagInv'
<1>0. StackInv(act, front, win) /\ Frames(act') /\ Top = act[Len(act)]
  BY DEF ChainInv, StackInv, Top
<1>1. ASSUME NEW s \in Signals, Install(s) \/ Uninstall(s) PROVE FlagInv'
  BY <1>1 DEF Install, Uninstall, FlagInv
<1>2. CASE Sigguarded \/ StdcRaise \/ Fault
  <2>1. Pushes
    BY <1>0, <1>2, CallPushes
  <2> QED
    BY <1>0, <2>1, PushesFlags
<1>3. CASE GuardedReturns \/ FilterRecover \/ Resume \/ JumpOut
  <2>1. Cuts
    BY <1>0, <1>3, LeaveCuts
  <2> QED
    BY <1>0, <2>1, CutsFlags
<1>4. CASE FilterSearch
  <2>1. Searches
    BY <1>4, FilterSearchChains
  <2> QED
    BY <1>0, <2>1, QuietFlags DEF Searches
<1>5. CASE FilterNext
  <2>1. Moves("search")
    BY <1>5, FilterNextChains
  <2> QED
    BY <1>0, <2>1, QuietFlags DEF Moves
<1>6. CASE FilterResume
  <2>1. Claims /\ Running("filter") /\ ~Top.gone
    BY <1>6, FilterResumeChains DEF FilterResume
  <2>2. Top.phase = "filter" /\ DecidedAt(Top)
    BY <1>0, <2>1, TopDispatch, TopIs
  <2> QED
    BY <1>0, <2>1, <2>2, ClaimsFlags DEF DecidedAt
<1>7. CASE UnhandledExceptionFilter
  <2>1. Unhandled /\ Running("search")
    BY <1>7, UnhandledChains DEF UnhandledExceptionFilter
  <2>2. ~Top.gone /\ Top.phase = "search" /\ DecidedAt(Top)
    BY <1>0, <2>1, NotGone, TopDispatch, TopIs DEF Called
  <2>3. CASE Moves("continue")
    BY <1>0, <2>3, QuietFlags DEF Moves
  <2>4. CASE \E d : Passed("unhandled", d)
    BY <1>0, <2>1, <2>2, <2>4, PassedFlags DEF DecidedAt
  <2>5. CASE act' = act
    BY <2>5 DEF FlagInv
  <2> QED
    BY <2>1, <2>3, <2>4, <2>5 DEF Unhandled
<1>8. CASE VectoredContinueHandler
  <2>1. Vectored /\ Running("continue")
    BY <1>8, VectoredChains DEF VectoredContinueHandler
  <2>2. ~Top.gone /\ Top.phase = "continue" /\ TopDecided(Top, decision, debugger)
    BY <1>0, <2>1, NotGone, TopDispatch, TopIs DEF Called
  <2>3. CASE Moves("resume")
    BY <1>0, <2>3, QuietFlags DEF Moves
  <2>4. CASE ~RecordMatches(decision.record, Top.e) /\ \E d : Passed("continue", d)
    <3>1. ~Top.continued /\ Top.who = "nobody"
      BY <2>2, <2>4 DEF TopDecided
    <3> QED
      BY <1>0, <2>1, <2>2, <2>4, <3>1, PassedFlags
  <2> QED
    BY <2>1, <2>3, <2>4 DEF Vectored
<1>9. CASE DeciderNext
  <2>1. /\ Running("decider") /\ ~Top.gone
        /\ Asks(Top) \/ (Continues(act, Top) /\ ReturnedUnclaimed(Top))
    BY <1>9, DeciderNextChains DEF DeciderNext
  <2>2. Top.who = "nobody" /\ ~Top.continued
    <3>1. Top.phase = "decider" /\ DecidedAt(Top)
      BY <1>0, <2>1, TopDispatch, TopIs
    <3> QED
      BY <3>1 DEF DecidedAt
  <2>3. CASE Asks(Top)
    BY <1>0, <2>3, QuietFlags DEF Asks
  <2>4. CASE Continues(act, Top) /\ ReturnedUnclaimed(Top)
    BY <1>0, <2>1, <2>2, <2>4, UnclaimedFlags
  <2> QED
    BY <2>1, <2>3, <2>4
<1>10. CASE DeciderClaims
  <2>1. Running("decider") /\ ~Top.gone
    BY <1>10 DEF DeciderClaims
  <2>2. CASE front # 0
    <3>1. Cuts
      BY <1>0, <1>10, <2>2, LeaveCuts
    <3> QED
      BY <1>0, <3>1, CutsFlags
  <2>3. CASE front = 0
    <3>1. PICK d : Returned(act, d, "EXECUTION")
      BY <1>10, <2>3, DeciderClaimsChains
    <3>2. ~Top.own
      BY <1>0, <2>1, <2>3, OwnInnermost
    <3>3. Rewrites(act, act') /\ \A i \in 1 .. Len(act) - 1 : act'[i] = act[i]
      BY <3>1 DEF Returned
    <3>4. FlagsAt(act', Len(act))
      BY <1>0, <3>2, <3>3 DEF Rewrites, FlagsAt
    <3>5. \A i \in 1 .. Len(act) - 2 : i \in 1 .. Len(act) - 1
      BY <1>0 DEF StackInv, Frames
    <3> QED
      BY <1>0, <3>3, <3>4, <3>5, RewriteFlags
  <2> QED
    BY <2>2, <2>3
<1>11. CASE SigdeciderAbandon \/ SigdeciderAbandonResume
  <2>1. PICK r : SetsRsi(r)
    BY <1>11, AbandonChains, AbandonResumeChains
  <2> QED
    BY <1>0, <2>1, QuietFlags DEF SetsRsi
<1>12. CASE Ended \/ UNCHANGED vars
  BY <1>12 DEF Ended, vars, FlagInv
<1> QED
  BY <1>1, <1>2, <1>3, <1>4, <1>5, <1>6, <1>7, <1>8, <1>9, <1>10, <1>11, <1>12 DEF Next

(* A raise whose RaiseException() returns is marked unclaimed exactly when *)
(* no decider claimed its own exception, whatever the raises and faults    *)
(* dispatched meanwhile marked.  (The other exit of stdc_raise(), by a     *)
(* claim's longjmp(), reads no mark.)                                      *)
THEOREM UnclaimedMarksAreOwn ==
  ASSUME AbandonRule # "any", DebuggerKeeps, FaultsApart
  PROVE  Spec => []UnclaimedMarkIsOwn
<1>1. Init => FlagInv
  BY DEF Init, FlagInv
<1>2. (ChainInv /\ DecideInv) /\ (ChainInv /\ DecideInv)' /\ FlagInv /\ [Next]_vars => FlagInv'
  BY FlagNext
<1>3. ASSUME ChainInv, DecideInv, FlagInv PROVE UnclaimedMarkIsOwn
  <2> SUFFICES ASSUME Running("resume"), Top.own
               PROVE  act[Len(act) - 1].unclaimed = (Top.who = "nobody")
    BY DEF UnclaimedMarkIsOwn
  <2>1. StackInv(act, front, win)
    BY <1>3 DEF ChainInv
  <2>2. /\ Len(act) \in 1 .. Len(act) /\ Top = act[Len(act)] /\ Top.kind = "dispatch"
        /\ Top.phase = "resume" /\ ~Top.gone
    BY <2>1, TopDispatch, NotGone DEF Called
  <2>3. Top.continued
    BY <1>3, <2>1, <2>2, TopIs DEF TopDecided
  <2>4. act[Len(act) - 1].unclaimed <=> Top.who = "nobody"
    BY <1>3, <2>2, <2>3 DEF FlagInv, FlagsAt
  <2>5. act[Len(act) - 1].unclaimed \in BOOLEAN
    <3>1. win = Len(act) - 1 /\ win # 0
      BY <2>1, <2>2, OwnInnermost
    <3> QED
      BY <2>1, <3>1, WinRaise DEF RaiseType
  <2> QED
    BY <2>4, <2>5
<1>4. ChainInv /\ DecideInv /\ FlagInv => UnclaimedMarkIsOwn
  BY <1>3
<1>5. Spec => Init /\ [][Next]_vars
  BY DEF Spec
<1> QED
  BY <1>1, <1>2, <1>4, <1>5, DecideInvariant, PTL
=============================================================================
