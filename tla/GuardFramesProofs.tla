-------------------------- MODULE GuardFramesProofs --------------------------
(***************************************************************************)
(* TLAPS proofs about GuardFrames, for every set of signals and frames and *)
(* every depth of the stack.  Wherever a client jumps, a raise reads a     *)
(* dead frame only in the window between a longjmp() and the store of      *)
(* front.  Where no client jumps back inside a sigguarded() it has         *)
(* abandoned, tss->front and every frame's prev name the innermost active  *)
(* sigguarded() and the local deciders come before the global ones.        *)
(*                                                                         *)
(* An activation only ever looks outwards, and only the innermost one      *)
(* changes: what holds of position i depends on stack[1 .. i] alone.  So   *)
(* each invariant is one predicate for each position, and a step, which    *)
(* cuts the stack and rewrites its top, has to show it for one position.   *)
(***************************************************************************)
EXTENDS GuardFrames, TLAPS, SequenceTheorems, WellFoundedInduction

(* ActiveBelow and InnermostBelow of an arbitrary stack s.                 *)
ActiveIn(s, n) ==
  {i \in 1 .. (n - 1) :
     /\ s[i].pc \in ActivePCs
     /\ \A j \in (i + 1) .. (n - 1) :
          ~(s[j].pc = "abandoned" /\ s[j].f = s[i].f)}

Newest(A) == CHOOSE i \in A : \A j \in A : j <= i

InnermostIn(s, n) ==
  IF ActiveIn(s, n) = {} THEN NULL ELSE s[Newest(ActiveIn(s, n))].f

-----------------------------------------------------------------------------
(* A non-empty set of positions has a greatest one.                        *)
LEMMA NewestIs ==
  ASSUME NEW N \in Nat, NEW A \in SUBSET (1 .. N), A # {}
  PROVE  Newest(A) \in A /\ \A j \in A : j <= Newest(A)
<1> DEFINE B == {N - i : i \in A}
<1>1. B \subseteq Nat /\ B # {}
  <2>1. \A i \in A : i \in 1 .. N
    OBVIOUS
  <2>2. \A i \in A : N - i \in Nat
    BY <2>1
  <2> QED
    BY <2>2
<1> HIDE DEF B
<1>2. PICK x \in B : \A y \in B : <<y, x>> \notin OpToRel(<, Nat)
  BY <1>1, NatLessThanWellFounded, WFMin, Zenon
<1>3. ASSUME NEW y \in B PROVE x <= y
  <2>1. <<y, x>> \in Nat \X Nat /\ <<y, x>>[1] = y /\ <<y, x>>[2] = x
    BY <1>1
  <2>2. ~(y < x)
    BY <1>2, <2>1, Zenon DEF OpToRel
  <2> QED
    BY <1>1, <2>2
<1>4. PICK m \in A : x = N - m
  BY DEF B
<1>5. \A j \in A : j <= m
  <2> SUFFICES ASSUME NEW j \in A PROVE j <= m
    OBVIOUS
  <2>1. N - j \in B
    BY DEF B
  <2> QED
    BY <1>3, <1>4, <2>1
<1> QED
  BY <1>5, Zenon DEF Newest

(* The greatest position is unique.                                        *)
LEMMA NewestUnique ==
  ASSUME NEW N \in Nat, NEW A \in SUBSET (1 .. N), NEW m \in A,
         \A j \in A : j <= m
  PROVE  Newest(A) = m
<1>1. Newest(A) \in A /\ \A j \in A : j <= Newest(A)
  BY NewestIs
<1>2. Newest(A) <= m /\ m <= Newest(A)
  BY <1>1
<1>3. Newest(A) \in 1 .. N /\ m \in 1 .. N
  BY <1>1
<1> QED
  BY <1>2, <1>3

-----------------------------------------------------------------------------
(* The operators on arbitrary stacks are those of the specification.       *)
LEMMA ActiveSame ==
  ASSUME TypeOK, NEW n \in 1 .. top + 1
  PROVE  ActiveBelow(n) = ActiveIn(stack, n)
  BY DEF ActiveBelow, ActiveIn, Guards, GuardPCs, ActivePCs, TypeOK, top

(* So is the innermost active frame.                                       *)
LEMMA InnermostSame ==
  ASSUME TypeOK, NEW n \in 1 .. top + 1
  PROVE  InnermostBelow(n) = InnermostIn(stack, n)
<1>1. ActiveBelow(n) = ActiveIn(stack, n)
  BY ActiveSame
<1>2. InnermostBelow(n) = IF ActiveBelow(n) = {} THEN NULL
                          ELSE stack[Newest(ActiveBelow(n))].f
  BY Zenon DEF InnermostBelow, Newest
<1> QED
  BY <1>1, <1>2 DEF InnermostIn

(* They look only at the activations before n.                             *)
LEMMA PrefixActive ==
  ASSUME NEW s, NEW t, NEW n \in Nat,
         \A i \in 1 .. n - 1 : s[i] = t[i]
  PROVE  ActiveIn(s, n) = ActiveIn(t, n) /\ InnermostIn(s, n) = InnermostIn(t, n)
<1>1. ActiveIn(s, n) = ActiveIn(t, n)
  BY DEF ActiveIn
<1>2. CASE ActiveIn(t, n) = {}
  BY <1>1, <1>2 DEF InnermostIn
<1>3. CASE ActiveIn(t, n) # {}
  <2>1. Newest(ActiveIn(t, n)) \in 1 .. n - 1
    <3>1. n - 1 \in Nat /\ ActiveIn(t, n) \subseteq 1 .. n - 1
      BY <1>3 DEF ActiveIn
    <3> QED
      BY <1>3, <3>1, NewestIs
  <2> QED
    BY <1>1, <2>1 DEF InnermostIn
<1> QED
  BY <1>1, <1>2, <1>3

(* How one more activation changes the active guards.                      *)
LEMMA ExtendActive ==
  ASSUME NEW s, NEW n \in Nat \ {0}
  PROVE  ActiveIn(s, n + 1) =
           {i \in ActiveIn(s, n) : ~(s[n].pc = "abandoned" /\ s[n].f = s[i].f)}
             \cup (IF s[n].pc \in ActivePCs THEN {n} ELSE {})
  BY DEF ActiveIn, ActivePCs

(* The innermost of a set of active guards that has a greatest position.   *)
LEMMA InnermostIs ==
  ASSUME NEW s, NEW n \in Nat \ {0}, NEW m \in ActiveIn(s, n),
         \A j \in ActiveIn(s, n) : j <= m
  PROVE  InnermostIn(s, n) = s[m].f
<1>1. n - 1 \in Nat /\ ActiveIn(s, n) \subseteq 1 .. n - 1
  BY DEF ActiveIn
<1>2. Newest(ActiveIn(s, n)) = m
  BY <1>1, NewestUnique
<1> QED
  BY <1>2 DEF InnermostIn

(* Without an active guard the innermost frame is NULL.                    *)
LEMMA InnermostNone ==
  ASSUME NEW s, NEW n, ActiveIn(s, n) = {}
  PROVE  InnermostIn(s, n) = NULL
  BY DEF InnermostIn

(* With one, the innermost frame is that of the greatest position.         *)
LEMMA HasInnermost ==
  ASSUME NEW s, NEW n \in Nat \ {0}, ActiveIn(s, n) # {}
  PROVE  \E m \in ActiveIn(s, n) : /\ \A j \in ActiveIn(s, n) : j <= m
                                   /\ InnermostIn(s, n) = s[m].f
<1>1. n - 1 \in Nat /\ ActiveIn(s, n) \subseteq 1 .. n - 1
  BY DEF ActiveIn
<1>2. /\ Newest(ActiveIn(s, n)) \in ActiveIn(s, n)
      /\ \A j \in ActiveIn(s, n) : j <= Newest(ActiveIn(s, n))
  BY <1>1, NewestIs
<1> QED
  BY <1>2 DEF InnermostIn

(* Equal sets of active guards have the same innermost one.                *)
LEMMA SameActive ==
  ASSUME NEW s, NEW n, NEW m, ActiveIn(s, n) = ActiveIn(s, m)
  PROVE  InnermostIn(s, n) = InnermostIn(s, m)
  BY DEF InnermostIn

-----------------------------------------------------------------------------
(* The invariant at position i of stack s, for the frames fr and the       *)
(* unused frames un.                                                       *)

HoldsActive(s, i) == \E m \in ActiveIn(s, i) : s[m].f = s[i].f

(* A sigguarded() owns its frame, and the frame's prev is the innermost    *)
(* active frame around it.                                                 *)
GuardPos(s, fr, un, i) ==
  s[i].pc \in GuardPCs =>
    /\ s[i].f \in Frames \ un
    /\ \A j \in 1 .. i - 1 : s[j].pc \in GuardPCs => s[j].f # s[i].f
    /\ fr[s[i].f].prev = InnermostIn(s, i)

(* A raise stands on an active frame, or at the end of the chain; every    *)
(* guarding frame it has passed has been asked; an abandoned frame is the  *)
(* innermost one.                                                          *)
RaisePos(s, fr, i) ==
  s[i].pc \in {"walk", "decider", "abandoned"} =>
    /\ \A j \in ActiveIn(s, i) : s[i].signo \in fr[s[j].f].guarded =>
         \/ s[j].f \in s[i].called
         \/ \E m \in ActiveIn(s, i) : s[m].f = s[i].f /\ j <= m
    /\ s[i].pc = "walk" => s[i].f = NULL \/ HoldsActive(s, i)
    /\ s[i].pc # "walk" => HoldsActive(s, i) /\ s[i].f \in s[i].called
    /\ s[i].pc = "abandoned" => s[i].f = InnermostIn(s, i)

(* A raise past the frames has asked all that guard the signal.            *)
GlobalPos(s, fr, i) ==
  s[i].pc = "global" =>
    \A j \in ActiveIn(s, i) :
      s[i].signo \in fr[s[j].f].guarded => s[j].f \in s[i].called

Pos(s, fr, un, i) == /\ GuardPos(s, fr, un, i)
                     /\ RaisePos(s, fr, i)
                     /\ GlobalPos(s, fr, i)
                     /\ s[i].pc # "aborted"

(* Only between a longjmp() and the store that follows it is front not the *)
(* innermost frame, and then it is dead.                                   *)
FrameInv ==
  /\ TypeOK
  /\ \A i \in 1 .. top : Pos(stack, frame, fresh, i)
  /\ \/ front = InnermostIn(stack, top + 1)
     \/ top > 0 /\ stack[top].pc = "landed" /\ Dead(front)

-----------------------------------------------------------------------------
(* Two sigguarded() calls on the stack have different frames.              *)
LEMMA UniqueGuard ==
  ASSUME NEW s, NEW fr, NEW un, NEW n \in Nat,
         \A i \in 1 .. n : Pos(s, fr, un, i),
         NEW i \in 1 .. n, NEW j \in 1 .. n,
         s[i].pc \in GuardPCs, s[j].pc \in GuardPCs, s[i].f = s[j].f
  PROVE  i = j
<1>1. CASE i < j
  <2>1. i \in 1 .. j - 1
    BY <1>1
  <2> QED
    BY <2>1 DEF Pos, GuardPos
<1>2. CASE j < i
  <2>1. j \in 1 .. i - 1
    BY <1>2
  <2> QED
    BY <2>1 DEF Pos, GuardPos
<1> QED
  BY <1>1, <1>2

(* The active guards around an active guard are the ones before it: no     *)
(* raise inside it can have abandoned one further out.                     *)
LEMMA Shrink ==
  ASSUME NEW s, NEW fr, NEW un, NEW n \in Nat,
         \A i \in 1 .. n - 1 : Pos(s, fr, un, i),
         NEW m \in ActiveIn(s, n)
  PROVE  \A i : i \in ActiveIn(s, m) <=> i \in ActiveIn(s, n) /\ i < m
<1>0. m \in 1 .. n - 1 /\ n - 1 \in Nat /\ s[m].pc \in ActivePCs
  BY DEF ActiveIn
<1>1. {i \in ActiveIn(s, n) : i < m} \subseteq ActiveIn(s, m)
  BY <1>0 DEF ActiveIn
<1>2. ASSUME NEW i \in ActiveIn(s, m), NEW k \in i + 1 .. n - 1,
             s[k].pc = "abandoned", s[k].f = s[i].f
      PROVE  FALSE
  <2>1. i \in 1 .. m - 1 /\ s[i].pc \in ActivePCs
    BY DEF ActiveIn
  <2>2. k > m
    <3>1. k # m
      BY <1>0, <1>2 DEF ActivePCs
    <3>2. ~(k < m)
      BY <1>0, <1>2, <2>1 DEF ActiveIn
    <3> QED
      BY <1>0, <2>1, <3>1, <3>2
  <2>3. k \in 1 .. n - 1 /\ k \in Nat \ {0} /\ i \in 1 .. n - 1
    BY <1>0, <2>1, <2>2
  <2>4. m \in ActiveIn(s, k)
    BY <1>0, <2>2, <2>3 DEF ActiveIn
  <2>5. PICK q \in ActiveIn(s, k) : /\ \A j \in ActiveIn(s, k) : j <= q
                                    /\ InnermostIn(s, k) = s[q].f
    BY <2>3, <2>4, HasInnermost
  <2>6. q \in 1 .. k - 1 /\ s[q].pc \in ActivePCs /\ m <= q
    BY <2>4, <2>5 DEF ActiveIn
  <2>7. s[k].f = s[q].f
    BY <1>2, <2>3, <2>5 DEF Pos, RaisePos
  <2>8. q \in 1 .. n - 1
    BY <2>3, <2>6
  <2>9. i = q
    <3>1. s[i].pc \in GuardPCs /\ s[q].pc \in GuardPCs /\ s[i].f = s[q].f
      BY <1>2, <2>1, <2>6, <2>7 DEF GuardPCs, ActivePCs
    <3> DEFINE N == n - 1
    <3>2. N \in Nat /\ i \in 1 .. N /\ q \in 1 .. N
      BY <1>0, <2>3, <2>8
    <3>3. \A x \in 1 .. N : Pos(s, fr, un, x)
      OBVIOUS
    <3> HIDE DEF N
    <3> QED
      BY <3>1, <3>2, <3>3, UniqueGuard, Zenon
  <2> QED
    BY <1>0, <2>1, <2>6, <2>9
<1>3. ASSUME NEW i \in ActiveIn(s, m) PROVE i \in ActiveIn(s, n) /\ i < m
  <2>1. i \in 1 .. m - 1 /\ s[i].pc \in ActivePCs
    BY DEF ActiveIn
  <2>2. i \in 1 .. n - 1 /\ i < m
    BY <1>0, <2>1
  <2> QED
    BY <1>2, <2>1, <2>2 DEF ActiveIn
<1> QED
  BY <1>1, <1>3

(* What holds at a position stays true when the stack changes only above   *)
(* it and no frame in use is written.                                      *)
LEMMA PosKept ==
  ASSUME NEW s, NEW t, NEW fr, NEW gr, NEW un, NEW vn \in SUBSET un,
         NEW n \in Nat \ {0}, \A i \in 1 .. n : s[i] = t[i],
         \A f \in Frames \ un : gr[f] = fr[f],
         \A i \in 1 .. n : Pos(s, fr, un, i)
  PROVE  Pos(t, gr, vn, n)
<1>0. n \in 1 .. n /\ \A i \in 1 .. n - 1 : i \in 1 .. n
  OBVIOUS
<1>1. s[n] = t[n] /\ \A i \in 1 .. n - 1 : s[i] = t[i]
  BY <1>0
<1>2. ActiveIn(t, n) = ActiveIn(s, n) /\ InnermostIn(t, n) = InnermostIn(s, n)
  BY <1>1, PrefixActive
<1>3. GuardPos(t, gr, vn, n)
  BY <1>0, <1>1, <1>2 DEF Pos, GuardPos
<1>4. ASSUME NEW j \in ActiveIn(t, n)
      PROVE  /\ j \in ActiveIn(s, n) /\ t[j] = s[j]
             /\ gr[t[j].f] = fr[s[j].f]
  <2>1. j \in 1 .. n /\ s[j].pc \in GuardPCs
    BY <1>0, <1>1, <1>2 DEF ActiveIn, GuardPCs, ActivePCs
  <2> QED
    BY <1>2, <2>1 DEF Pos, GuardPos
<1>5. RaisePos(t, gr, n)
  BY <1>0, <1>1, <1>2, <1>4 DEF Pos, RaisePos, HoldsActive
<1>6. GlobalPos(t, gr, n)
  BY <1>0, <1>1, <1>2, <1>4 DEF Pos, GlobalPos
<1> QED
  BY <1>0, <1>1, <1>3, <1>5, <1>6 DEF Pos

-----------------------------------------------------------------------------
(* Records and shapes of the stack.                                        *)

(* The control points, kept apart from the record types they occur in.     *)
LEMMA PCLiterals ==
  /\ GuardPCs \cup RaisePCs = {"enter", "guarded", "landed", "recovery", "walk",
                               "decider", "abandoned", "global", "aborted"}
  /\ LibraryPCs = {"enter", "landed", "walk"}
  BY DEF GuardPCs, RaisePCs, LibraryPCs

(* The updates the actions make give activations again.                    *)
LEMMA ActivationExcept ==
  ASSUME NEW a \in Activation, NEW p \in GuardPCs \cup RaisePCs,
         NEW g \in Frames \cup {NULL}, NEW C \in SUBSET Frames
  PROVE  /\ [a EXCEPT !.pc = p] \in Activation
         /\ [a EXCEPT !.f = g] \in Activation
         /\ [a EXCEPT !.pc = p, !.f = g] \in Activation
         /\ [a EXCEPT !.pc = p, !.called = C] \in Activation
  BY DEF Activation

(* The activations the actions push are activations.                       *)
LEMMA NewActivation ==
  ASSUME NEW p \in GuardPCs \cup RaisePCs, NEW g \in Frames \cup {NULL},
         NEW s \in Signals \cup {NULL}
  PROVE  [pc |-> p, f |-> g, signo |-> s, called |-> {}] \in Activation
  BY DEF Activation

(* The new state satisfies the invariant when it does at its top, front    *)
(* is right and nothing further out has changed.                           *)
LEMMA Settle ==
  ASSUME FrameInv, NEW k \in 0 .. top + 1,
         stack' \in Seq(Activation), Len(stack') = k,
         \A i \in 1 .. k - 1 : stack'[i] = stack[i],
         frame' \in [Frames -> Frame], fresh' \subseteq fresh,
         \A f \in Frames \ fresh : frame'[f] = frame[f],
         front' \in Frames \cup {NULL},
         k > 0 => Pos(stack', frame', fresh', k),
         \/ front' = InnermostIn(stack', k + 1)
         \/ k > 0 /\ stack'[k].pc = "landed" /\ Dead(front)'
  PROVE  FrameInv'
<1>0. top \in Nat /\ top' = k /\ k \in Nat
  BY DEF FrameInv, TypeOK, top
<1>1. TypeOK'
  BY DEF FrameInv, TypeOK
<1>2. ASSUME NEW n \in 1 .. k - 1 PROVE Pos(stack', frame', fresh', n)
  <2>1. n \in Nat \ {0} /\ \A i \in 1 .. n : i \in 1 .. k - 1 /\ i \in 1 .. top
    BY <1>0
  <2>2. \A i \in 1 .. n : stack[i] = stack'[i]
    BY <2>1
  <2>3. \A i \in 1 .. n : Pos(stack, frame, fresh, i)
    BY <2>1 DEF FrameInv
  <2>4. fresh' \in SUBSET fresh
    OBVIOUS
  <2> QED
    BY <2>1, <2>2, <2>3, <2>4, PosKept
<1>3. ASSUME NEW n \in 1 .. top'
      PROVE  Pos(stack', frame', fresh', n)
  <2>1. CASE n = k
    BY <1>0, <2>1
  <2>2. CASE n # k
    <3>1. n \in 1 .. k - 1
      BY <1>0, <2>2
    <3> QED
      BY <1>2, <3>1
  <2> QED
    BY <2>1, <2>2
<1> QED
  BY <1>0, <1>1, <1>3 DEF FrameInv

(* The invariant holds the types.                                          *)
LEMMA InvTyped == FrameInv => TypeOK
  BY DEF FrameInv

(* What the innermost activation knows.                                    *)
LEMMA AtTop ==
  ASSUME FrameInv, NEW p, At(p)
  PROVE  /\ top \in Nat \ {0} /\ top \in 1 .. top /\ stack \in Seq(Activation)
         /\ stack[top] \in Activation /\ stack[top].pc = p
         /\ Pos(stack, frame, fresh, top)
         /\ p # "landed" => front = InnermostIn(stack, top + 1)
<1>1. top \in Nat \ {0} /\ stack[top].pc = p
  BY DEF FrameInv, TypeOK, At, top
<1>2. top \in 1 .. top /\ \A i \in 1 .. top - 1 : i \in 1 .. top /\ i # top
  BY <1>1
<1>3. stack \in Seq(Activation) /\ stack[top] \in Activation
  BY <1>2, ElementOfSeq DEF FrameInv, TypeOK, top
<1> QED
  BY <1>1, <1>2, <1>3 DEF FrameInv

(* The innermost activation is rewritten.                                  *)
LEMMA Rewrite ==
  ASSUME FrameInv, NEW p, At(p), NEW act \in Activation, Goto(act)
  PROVE  /\ stack' \in Seq(Activation) /\ Len(stack') = top
         /\ \A i \in 1 .. top - 1 : stack'[i] = stack[i]
         /\ stack'[top] = act
         /\ ActiveIn(stack', top) = ActiveIn(stack, top)
         /\ InnermostIn(stack', top) = InnermostIn(stack, top)
         /\ \A m \in ActiveIn(stack, top) : stack'[m] = stack[m]
<1>1. top \in Nat \ {0} /\ top \in 1 .. top /\ stack \in Seq(Activation)
  BY AtTop
<1>2. /\ stack' \in Seq(Activation) /\ Len(stack') = top
      /\ \A j \in 1 .. top : stack'[j] = IF j = top THEN act ELSE stack[j]
  BY <1>1, ExceptSeq DEF Goto, top
<1>3. stack'[top] = act /\ \A i \in 1 .. top - 1 : stack'[i] = stack[i]
  BY <1>1, <1>2
<1>4. /\ ActiveIn(stack', top) = ActiveIn(stack, top)
      /\ InnermostIn(stack', top) = InnermostIn(stack, top)
  BY <1>1, <1>3, PrefixActive
<1>5. \A m \in ActiveIn(stack, top) : m \in 1 .. top - 1
  BY DEF ActiveIn
<1> QED
  BY <1>2, <1>3, <1>4, <1>5

(* A rewritten top that satisfies the invariant.                           *)
LEMMA RewriteSettles ==
  ASSUME FrameInv, NEW p, At(p), NEW act \in Activation, Goto(act),
         UNCHANGED <<frame, fresh>>, front' \in Frames \cup {NULL},
         Pos(stack', frame, fresh, top),
         front' = InnermostIn(stack', top + 1)
  PROVE  FrameInv'
<1>1. top \in Nat \ {0}
  BY AtTop
<1>2. /\ stack' \in Seq(Activation) /\ Len(stack') = top
      /\ \A i \in 1 .. top - 1 : stack'[i] = stack[i]
  BY Rewrite
<1>3. top \in 0 .. top + 1
  BY <1>1
<1>4. frame' \in [Frames -> Frame]
  BY DEF FrameInv, TypeOK
<1> QED
  BY <1>1, <1>2, <1>3, <1>4, Settle

(* The stack is cut.                                                       *)
LEMMA Cut ==
  ASSUME TypeOK, NEW k \in Nat, k <= top
  PROVE  /\ SubSeq(stack, 1, k) \in Seq(Activation)
         /\ Len(SubSeq(stack, 1, k)) = k
         /\ \A i \in 1 .. k : SubSeq(stack, 1, k)[i] = stack[i]
<1>1. top \in Nat /\ stack \in Seq(Activation)
  BY DEF TypeOK, top
<1>2. \A i \in 1 .. k : i \in 1 .. top
  BY <1>1
<1>3. \A i \in 1 .. k : stack[i] \in Activation
  BY <1>1, <1>2, ElementOfSeq DEF top
<1>4. /\ SubSeq(stack, 1, k) \in Seq(Activation)
      /\ Len(SubSeq(stack, 1, k)) = IF 1 <= k THEN k - 1 + 1 ELSE 0
      /\ \A i \in 1 .. k - 1 + 1 : SubSeq(stack, 1, k)[i] = stack[1 + i - 1]
  BY <1>3, SubSeqProperties
<1> QED
  BY <1>1, <1>4

(* A cut stack satisfies the invariant when front describes what is left.  *)
LEMMA CutSettles ==
  ASSUME FrameInv, NEW k \in Nat, k < top,
         stack' \in Seq(Activation), Len(stack') = k,
         \A i \in 1 .. k : stack'[i] = stack[i],
         UNCHANGED <<frame, fresh>>, front' = InnermostIn(stack, k + 1),
         front' \in Frames \cup {NULL}
  PROVE  FrameInv'
<1>1. top \in Nat /\ k \in 0 .. top + 1
  BY DEF FrameInv, TypeOK, top
<1>2. \A i \in 1 .. k : i \in 1 .. top /\ i # top
  BY <1>1
<1>3. \A i \in 1 .. k : Pos(stack, frame, fresh, i)
  BY <1>2 DEF FrameInv
<1>4. k > 0 => Pos(stack', frame', fresh', k)
  <2> SUFFICES ASSUME k > 0 PROVE Pos(stack', frame', fresh', k)
    OBVIOUS
  <2>1. k \in Nat \ {0} /\ fresh' \in SUBSET fresh
        /\ \A f \in Frames \ fresh : frame'[f] = frame[f]
        /\ \A i \in 1 .. k : stack[i] = stack'[i]
    OBVIOUS
  <2>2. \A i \in 1 .. k : Pos(stack, frame, fresh, i)
    BY <1>3
  <2> QED
    BY <2>1, <2>2, PosKept
<1>5. front' = InnermostIn(stack', k + 1)
  <2> DEFINE n == k + 1
  <2>1. n \in Nat /\ \A i \in 1 .. n - 1 : stack'[i] = stack[i]
    OBVIOUS
  <2>2. front' = InnermostIn(stack, n)
    OBVIOUS
  <2> HIDE DEF n
  <2>3. front' = InnermostIn(stack', n)
    BY <2>1, <2>2, PrefixActive
  <2> QED
    BY <2>3 DEF n
<1>6. \A i \in 1 .. k - 1 : stack'[i] = stack[i]
  OBVIOUS
<1>7. /\ frame' \in [Frames -> Frame] /\ fresh' \subseteq fresh
      /\ \A f \in Frames \ fresh : frame'[f] = frame[f]
  BY DEF FrameInv, TypeOK
<1> QED
  BY <1>1, <1>4, <1>5, <1>6, <1>7, Settle

-----------------------------------------------------------------------------
(* What the invariant says of the frames a raise can reach.                *)

(* An active guard is on the stack with a frame of its own, linked to the  *)
(* innermost one around it.                                                *)
LEMMA ActiveFrame ==
  ASSUME FrameInv, NEW n \in 1 .. top + 1, NEW m \in ActiveIn(stack, n)
  PROVE  /\ m \in 1 .. n - 1 /\ m \in 1 .. top /\ m \in Guards
         /\ stack[m].f \in Frames \ fresh
         /\ frame[stack[m].f].prev = InnermostIn(stack, m)
<1>1. top \in Nat
  BY DEF FrameInv, TypeOK, top
<1>2. m \in 1 .. n - 1 /\ m \in 1 .. top /\ stack[m].pc \in ActivePCs
  BY <1>1 DEF ActiveIn
<1>3. stack[m].pc \in GuardPCs
  BY <1>2 DEF GuardPCs, ActivePCs
<1> QED
  BY <1>2, <1>3 DEF FrameInv, Pos, GuardPos, Guards

(* The innermost frame is a frame pointer.                                 *)
LEMMA InnermostType ==
  ASSUME FrameInv, NEW n \in 1 .. top + 1
  PROVE  InnermostIn(stack, n) \in Frames \cup {NULL}
<1>1. CASE ActiveIn(stack, n) = {}
  BY <1>1, InnermostNone
<1>2. CASE ActiveIn(stack, n) # {}
  <2>1. n \in Nat \ {0}
    BY DEF FrameInv, TypeOK, top
  <2>2. PICK m \in ActiveIn(stack, n) : InnermostIn(stack, n) = stack[m].f
    BY <1>2, <2>1, HasInnermost
  <2> QED
    BY <2>2, ActiveFrame
<1> QED
  BY <1>1, <1>2

(* Guards on the stack are told apart by their frames.                     *)
LEMMA GuardOfFrame ==
  ASSUME FrameInv, NEW i \in Guards, NEW j \in Guards, stack[i].f = stack[j].f
  PROVE  i = j
<1>1. top \in Nat /\ \A x \in 1 .. top : Pos(stack, frame, fresh, x)
  BY DEF FrameInv, TypeOK, top
<1>2. i \in 1 .. top /\ j \in 1 .. top
      /\ stack[i].pc \in GuardPCs /\ stack[j].pc \in GuardPCs
  BY DEF Guards
<1> QED
  BY <1>1, <1>2, UniqueGuard, Zenon

(* The frame after an active one is the next active one outwards.          *)
LEMMA Outward ==
  ASSUME FrameInv, NEW n \in 1 .. top + 1, NEW m \in ActiveIn(stack, n)
  PROVE  \/ /\ frame[stack[m].f].prev = NULL
            /\ \A j \in ActiveIn(stack, n) : j >= m
         \/ \E q \in ActiveIn(stack, n) :
              /\ stack[q].f = frame[stack[m].f].prev
              /\ q < m /\ \A j \in ActiveIn(stack, n) : j < m => j <= q
<1>1. /\ m \in 1 .. n - 1 /\ m \in 1 .. top /\ m \in Nat \ {0}
      /\ frame[stack[m].f].prev = InnermostIn(stack, m)
  BY ActiveFrame
<1>2. \A i : i \in ActiveIn(stack, m) <=> i \in ActiveIn(stack, n) /\ i < m
  <2>1. top \in Nat /\ n \in Nat /\ \A i \in 1 .. n - 1 : i \in 1 .. top
    BY DEF FrameInv, TypeOK, top
  <2>2. \A i \in 1 .. n - 1 : Pos(stack, frame, fresh, i)
    BY <2>1 DEF FrameInv
  <2> QED
    BY <2>1, <2>2, Shrink
<1>3. \A j \in ActiveIn(stack, n) : j \in Int
  BY DEF ActiveIn
<1>4. CASE ActiveIn(stack, m) = {}
  <2>1. frame[stack[m].f].prev = NULL
    BY <1>1, <1>4, InnermostNone
  <2>2. \A j \in ActiveIn(stack, n) : j >= m
    BY <1>1, <1>2, <1>3, <1>4
  <2> QED
    BY <2>1, <2>2
<1>5. CASE ActiveIn(stack, m) # {}
  <2>1. PICK q \in ActiveIn(stack, m) : /\ \A j \in ActiveIn(stack, m) : j <= q
                                        /\ InnermostIn(stack, m) = stack[q].f
    BY <1>1, <1>5, HasInnermost
  <2> QED
    BY <1>1, <1>2, <2>1
<1> QED
  BY <1>4, <1>5

(* Past an activation that is neither an active guard nor abandoned, the   *)
(* active guards are the ones around it.                                   *)
LEMMA PassBy ==
  ASSUME NEW s, NEW n \in Nat \ {0},
         s[n].pc \notin {"guarded", "landed", "abandoned"}
  PROVE  /\ ActiveIn(s, n + 1) = ActiveIn(s, n)
         /\ InnermostIn(s, n + 1) = InnermostIn(s, n)
<1>1. ActiveIn(s, n + 1) = ActiveIn(s, n)
  BY ExtendActive DEF ActivePCs
<1> QED
  BY <1>1, SameActive

(* Inside an active guard, the innermost one is that guard.                *)
LEMMA InsideGuard ==
  ASSUME NEW s, NEW n \in Nat \ {0}, s[n].pc \in ActivePCs
  PROVE  InnermostIn(s, n + 1) = s[n].f
<1>1. n \in ActiveIn(s, n + 1)
  BY ExtendActive
<1>2. \A j \in ActiveIn(s, n + 1) : j <= n
  BY DEF ActiveIn
<1>3. n + 1 \in Nat \ {0}
  OBVIOUS
<1> QED
  BY <1>1, <1>2, <1>3, InnermostIs

(* A sigguarded() that goes on keeps what it knew.                         *)
LEMMA GuardMoves ==
  ASSUME NEW s, NEW t, NEW fr, NEW un, NEW n \in Nat \ {0},
         \A i \in 1 .. n - 1 : s[i] = t[i], Pos(s, fr, un, n),
         s[n].pc \in GuardPCs, t[n].pc \in GuardPCs, t[n].f = s[n].f
  PROVE  Pos(t, fr, un, n)
<1>1. InnermostIn(t, n) = InnermostIn(s, n)
  BY PrefixActive
<1>2. GuardPos(t, fr, un, n)
  BY <1>1 DEF Pos, GuardPos
<1>3. t[n].pc \notin {"walk", "decider", "abandoned", "global", "aborted"}
  BY DEF GuardPCs
<1> QED
  BY <1>2, <1>3 DEF Pos, RaisePos, GlobalPos

-----------------------------------------------------------------------------
(* Every action preserves the invariant.                                   *)

(* The frame goes to the front: the guard is active from now on.           *)
LEMMA GuardEnteredInv == FrameInv /\ GuardEntered => FrameInv'
<1> SUFFICES ASSUME FrameInv, GuardEntered PROVE FrameInv'
  OBVIOUS
<1> DEFINE act == [stack[top] EXCEPT !.pc = "guarded"]
<1>1. /\ At("enter") /\ front' = stack[top].f /\ Goto(act)
      /\ UNCHANGED <<frame, fresh>>
  BY DEF GuardEntered
<1>2. /\ top \in Nat \ {0} /\ stack[top] \in Activation
      /\ stack[top].pc = "enter" /\ Pos(stack, frame, fresh, top)
  BY <1>1, AtTop
<1>3. act \in Activation /\ act.pc = "guarded" /\ act.f = stack[top].f
  BY <1>2, PCLiterals, ActivationExcept DEF Activation
<1> HIDE DEF act
<1>4. stack'[top] = act /\ \A i \in 1 .. top - 1 : stack'[i] = stack[i]
  BY <1>1, <1>3, Rewrite
<1>5. Pos(stack', frame, fresh, top)
  BY <1>2, <1>3, <1>4, GuardMoves DEF GuardPCs
<1>6. front' = InnermostIn(stack', top + 1)
  BY <1>1, <1>2, <1>3, <1>4, InsideGuard DEF ActivePCs
<1>7. front' \in Frames \cup {NULL}
  BY <1>1, <1>2 DEF Activation
<1> QED
  BY <1>1, <1>3, <1>5, <1>6, <1>7, RewriteSettles

(* After a longjmp() front catches up: the guard is active no more.        *)
LEMMA GuardLandedInv == FrameInv /\ GuardLanded => FrameInv'
<1> SUFFICES ASSUME FrameInv, GuardLanded PROVE FrameInv'
  OBVIOUS
<1> DEFINE act == [stack[top] EXCEPT !.pc = "recovery"]
<1>1. /\ At("landed") /\ front' = frame[stack[top].f].prev /\ Goto(act)
      /\ UNCHANGED <<frame, fresh>>
  BY DEF GuardLanded
<1>2. /\ top \in Nat \ {0} /\ stack[top] \in Activation
      /\ stack[top].pc = "landed" /\ Pos(stack, frame, fresh, top)
  BY <1>1, AtTop
<1>3. act \in Activation /\ act.pc = "recovery" /\ act.f = stack[top].f
  BY <1>2, PCLiterals, ActivationExcept DEF Activation
<1> HIDE DEF act
<1>4. /\ stack'[top] = act /\ \A i \in 1 .. top - 1 : stack'[i] = stack[i]
      /\ InnermostIn(stack', top) = InnermostIn(stack, top)
  BY <1>1, <1>3, Rewrite
<1>5. Pos(stack', frame, fresh, top)
  BY <1>2, <1>3, <1>4, GuardMoves DEF GuardPCs
<1>6. InnermostIn(stack', top + 1) = InnermostIn(stack', top)
  BY <1>2, <1>3, <1>4, PassBy
<1>7. front' = InnermostIn(stack, top)
  BY <1>1, <1>2 DEF Pos, GuardPos, GuardPCs
<1>8. front' \in Frames \cup {NULL}
  BY <1>2, <1>7, InnermostType
<1> QED
  BY <1>1, <1>3, <1>4, <1>5, <1>6, <1>7, <1>8, RewriteSettles

(* The activations that return.                                            *)
LEMMA ReturnsInv ==
  ASSUME FrameInv,
         GuardedReturns \/ RecoveryReturns \/ RaiseReturns \/ DeciderResumes
  PROVE  FrameInv'
<1>1. PICK p \in {"guarded", "recovery", "global", "decider"} :
        /\ At(p) /\ Pop /\ UNCHANGED <<frame, fresh>>
        /\ front' = IF p = "guarded" THEN frame[stack[top].f].prev ELSE front
  BY DEF GuardedReturns, RecoveryReturns, RaiseReturns, DeciderResumes
<1>2. /\ top \in Nat \ {0} /\ stack[top].pc = p
      /\ Pos(stack, frame, fresh, top)
      /\ front = InnermostIn(stack, top + 1)
  BY <1>1, AtTop
<1>3. front' = InnermostIn(stack, top)
  <2>1. CASE p = "guarded"
    BY <1>1, <1>2, <2>1 DEF Pos, GuardPos, GuardPCs
  <2>2. CASE p # "guarded"
    BY <1>1, <1>2, <2>2, PassBy
  <2> QED
    BY <2>1, <2>2
<1>4. front' \in Frames \cup {NULL}
  BY <1>2, <1>3, InnermostType
<1> DEFINE k == top - 1
<1>5. k \in Nat /\ k < top /\ k <= top /\ k + 1 = top
  BY <1>2
<1>6. stack' = SubSeq(stack, 1, k)
  BY <1>1 DEF Pop, Front, top
<1> HIDE DEF k
<1>7. /\ stack' \in Seq(Activation) /\ Len(stack') = k
      /\ \A i \in 1 .. k : stack'[i] = stack[i]
  BY <1>5, <1>6, Cut, InvTyped
<1>8. front' = InnermostIn(stack, k + 1)
  BY <1>3, <1>5
<1> QED
  BY <1>1, <1>4, <1>5, <1>7, <1>8, CutSettles

(* The walk goes on to the next frame outwards: the one it leaves does not *)
(* guard the signal or has been asked.                                     *)
LEMMA OutwardsInv == FrameInv /\ (WalkSkip \/ DeciderNext) => FrameInv'
<1> SUFFICES ASSUME FrameInv, WalkSkip \/ DeciderNext PROVE FrameInv'
  OBVIOUS
<1> DEFINE g == frame[stack[top].f].prev
<1>1. PICK p \in {"walk", "decider"} : At(p)
  BY DEF WalkSkip, DeciderNext
<1>2. /\ top \in Nat \ {0} /\ top \in 1 .. top /\ stack[top] \in Activation
      /\ stack[top].pc = p /\ Pos(stack, frame, fresh, top)
      /\ front = InnermostIn(stack, top + 1)
  BY <1>1, AtTop
<1>3. /\ p = "walk" => /\ stack[top].f # NULL
                       /\ stack[top].signo \notin frame[stack[top].f].guarded
      /\ UNCHANGED <<front, frame, fresh>>
  BY <1>1, <1>2 DEF WalkSkip, DeciderNext, At
<1>4. HoldsActive(stack, top)
  BY <1>2, <1>3 DEF Pos, RaisePos
<1>5. PICK m \in ActiveIn(stack, top) : stack[m].f = stack[top].f
  BY <1>4 DEF HoldsActive
<1>6. top \in 1 .. top + 1
  BY <1>2
<1>7. \/ g = NULL /\ \A j \in ActiveIn(stack, top) : j >= m
      \/ \E q \in ActiveIn(stack, top) :
           /\ stack[q].f = g
           /\ q < m /\ \A j \in ActiveIn(stack, top) : j < m => j <= q
  BY <1>5, <1>6, Outward
<1>8. g \in Frames \cup {NULL}
  BY <1>2, <1>3, <1>5, <1>6, ActiveFrame DEF FrameInv, TypeOK, Frame
<1>9. PICK act \in Activation :
        /\ Goto(act) /\ act.pc = "walk" /\ act.f = g
        /\ act.signo = stack[top].signo /\ act.called = stack[top].called
  <2>1. CASE WalkSkip
    <3> DEFINE a == [stack[top] EXCEPT !.f = g]
    <3>1. Goto(a) /\ stack[top].pc = "walk"
      BY <2>1 DEF WalkSkip, At
    <3>2. a \in Activation
      BY <1>2, <1>8, PCLiterals, ActivationExcept
    <3>3. /\ a.pc = stack[top].pc /\ a.f = g
          /\ a.signo = stack[top].signo /\ a.called = stack[top].called
      BY <1>2 DEF Activation
    <3> QED
      BY <3>1, <3>2, <3>3
  <2>2. CASE DeciderNext
    <3> DEFINE a == [stack[top] EXCEPT !.pc = "walk", !.f = g]
    <3>1. Goto(a)
      BY <2>2 DEF DeciderNext
    <3>2. a \in Activation
      BY <1>2, <1>8, PCLiterals, ActivationExcept
    <3>3. /\ a.pc = "walk" /\ a.f = g
          /\ a.signo = stack[top].signo /\ a.called = stack[top].called
      BY <1>2 DEF Activation
    <3> QED
      BY <3>1, <3>2, <3>3
  <2> QED
    BY <2>1, <2>2
<1>10. /\ stack'[top] = act
       /\ ActiveIn(stack', top) = ActiveIn(stack, top)
       /\ InnermostIn(stack', top) = InnermostIn(stack, top)
       /\ \A j \in ActiveIn(stack, top) : stack'[j] = stack[j]
  BY <1>1, <1>9, Rewrite
<1>11. ASSUME NEW x \in ActiveIn(stack, top), stack[x].f = stack[top].f
       PROVE  x = m
  BY <1>5, <1>6, <1>11, ActiveFrame, GuardOfFrame
<1>12. ASSUME NEW j \in ActiveIn(stack, top),
              act.signo \in frame[stack[j].f].guarded,
              stack[j].f \notin act.called
       PROVE  \E q \in ActiveIn(stack, top) : stack[q].f = act.f /\ j <= q
  <2>1. \E x \in ActiveIn(stack, top) : stack[x].f = stack[top].f /\ j <= x
    BY <1>2, <1>9, <1>12 DEF Pos, RaisePos
  <2>2. j <= m
    BY <1>11, <2>1
  <2>3. j # m
    <3>1. CASE p = "walk"
      BY <1>3, <1>5, <1>9, <1>12, <3>1
    <3>2. CASE p = "decider"
      BY <1>2, <1>5, <1>9, <1>12, <3>2 DEF Pos, RaisePos
    <3> QED
      BY <3>1, <3>2
  <2>4. j \in Int /\ m \in Int
    BY DEF ActiveIn
  <2>5. j < m
    BY <2>2, <2>3, <2>4
  <2> QED
    BY <1>7, <1>9, <2>4, <2>5
<1>13. act.f = NULL \/ \E q \in ActiveIn(stack, top) : stack[q].f = act.f
  BY <1>7, <1>9
<1>14. RaisePos(stack', frame, top)
  BY <1>9, <1>10, <1>12, <1>13 DEF RaisePos, HoldsActive
<1>15. Pos(stack', frame, fresh, top)
  BY <1>9, <1>10, <1>14 DEF Pos, GuardPos, GlobalPos, GuardPCs
<1>16. /\ InnermostIn(stack', top + 1) = InnermostIn(stack', top)
       /\ InnermostIn(stack, top + 1) = InnermostIn(stack, top)
  BY <1>2, <1>9, <1>10, PassBy
<1>17. front' = InnermostIn(stack', top + 1) /\ front' \in Frames \cup {NULL}
  BY <1>2, <1>3, <1>10, <1>16 DEF FrameInv, TypeOK
<1> QED
  BY <1>1, <1>3, <1>9, <1>15, <1>17, RewriteSettles

(* A guarding frame's decider is called.                                   *)
LEMMA WalkCallInv == FrameInv /\ WalkCall => FrameInv'
<1> SUFFICES ASSUME FrameInv, WalkCall PROVE FrameInv'
  OBVIOUS
<1> DEFINE C == stack[top].called \cup {stack[top].f}
           act == [stack[top] EXCEPT !.pc = "decider", !.called = C]
<1>1. /\ At("walk") /\ stack[top].f # NULL /\ Goto(act)
      /\ UNCHANGED <<front, frame, fresh>>
  BY DEF WalkCall
<1>2. /\ top \in Nat \ {0} /\ stack[top] \in Activation
      /\ stack[top].pc = "walk" /\ Pos(stack, frame, fresh, top)
      /\ front = InnermostIn(stack, top + 1)
  BY <1>1, AtTop
<1>3. act \in Activation
  <2>1. C \in SUBSET Frames
    BY <1>1, <1>2 DEF Activation
  <2> QED
    BY <1>2, <2>1, PCLiterals, ActivationExcept
<1>4. /\ act.pc = "decider" /\ act.f = stack[top].f
      /\ act.signo = stack[top].signo /\ act.called = C
  BY <1>2 DEF Activation
<1>5. stack[top].f \in C /\ stack[top].called \subseteq C
  OBVIOUS
<1> HIDE DEF act, C
<1>6. /\ stack'[top] = act
      /\ ActiveIn(stack', top) = ActiveIn(stack, top)
      /\ InnermostIn(stack', top) = InnermostIn(stack, top)
      /\ \A j \in ActiveIn(stack, top) : stack'[j] = stack[j]
  BY <1>1, <1>3, Rewrite
<1>7. RaisePos(stack', frame, top)
  BY <1>1, <1>2, <1>4, <1>5, <1>6 DEF Pos, RaisePos, HoldsActive
<1>8. Pos(stack', frame, fresh, top)
  BY <1>4, <1>6, <1>7 DEF Pos, GuardPos, GlobalPos, GuardPCs
<1>9. /\ InnermostIn(stack', top + 1) = InnermostIn(stack', top)
      /\ InnermostIn(stack, top + 1) = InnermostIn(stack, top)
  BY <1>2, <1>4, <1>6, PassBy
<1>10. front' = InnermostIn(stack', top + 1) /\ front' \in Frames \cup {NULL}
  BY <1>1, <1>2, <1>6, <1>9 DEF FrameInv, TypeOK
<1> QED
  BY <1>1, <1>3, <1>8, <1>10, RewriteSettles

(* The walk ends: no active frame holds the pointer NULL.                  *)
LEMMA WalkEndInv == FrameInv /\ WalkEnd => FrameInv'
<1> SUFFICES ASSUME FrameInv, WalkEnd PROVE FrameInv'
  OBVIOUS
<1> DEFINE act == [stack[top] EXCEPT !.pc = "global"]
<1>1. /\ At("walk") /\ stack[top].f = NULL /\ Goto(act)
      /\ UNCHANGED <<front, frame, fresh>>
  BY DEF WalkEnd
<1>2. /\ top \in Nat \ {0} /\ stack[top] \in Activation
      /\ stack[top].pc = "walk" /\ Pos(stack, frame, fresh, top)
      /\ front = InnermostIn(stack, top + 1) /\ top \in 1 .. top + 1
  BY <1>1, AtTop
<1>3. /\ act \in Activation /\ act.pc = "global"
      /\ act.signo = stack[top].signo /\ act.called = stack[top].called
  BY <1>2, PCLiterals, ActivationExcept DEF Activation
<1> HIDE DEF act
<1>4. /\ stack'[top] = act
      /\ ActiveIn(stack', top) = ActiveIn(stack, top)
      /\ InnermostIn(stack', top) = InnermostIn(stack, top)
      /\ \A j \in ActiveIn(stack, top) : stack'[j] = stack[j]
  BY <1>1, <1>3, Rewrite
<1>5. \A m \in ActiveIn(stack, top) : stack[m].f # stack[top].f
  BY <1>1, <1>2, ActiveFrame, FramesAssumption
<1>6. GlobalPos(stack', frame, top)
  BY <1>2, <1>3, <1>4, <1>5 DEF Pos, RaisePos, GlobalPos
<1>7. Pos(stack', frame, fresh, top)
  BY <1>3, <1>4, <1>6 DEF Pos, GuardPos, RaisePos, GuardPCs
<1>8. /\ InnermostIn(stack', top + 1) = InnermostIn(stack', top)
      /\ InnermostIn(stack, top + 1) = InnermostIn(stack, top)
  BY <1>2, <1>3, <1>4, PassBy
<1>9. front' = InnermostIn(stack', top + 1) /\ front' \in Frames \cup {NULL}
  BY <1>1, <1>2, <1>4, <1>8 DEF FrameInv, TypeOK
<1> QED
  BY <1>1, <1>3, <1>7, <1>9, RewriteSettles

-----------------------------------------------------------------------------
(* Once position n has abandoned the innermost guard m around it, the      *)
(* innermost one is the guard around m.                                    *)
LEMMA AbandonedRest ==
  ASSUME FrameInv, NEW n \in 1 .. top, NEW m \in ActiveIn(stack, n),
         stack[m].f = InnermostIn(stack, n),
         NEW t, \A i \in 1 .. n - 1 : t[i] = stack[i],
         t[n].pc = "abandoned", t[n].f = stack[m].f
  PROVE  InnermostIn(t, n + 1) = InnermostIn(stack, m)
<1>1. top \in Nat /\ n \in Nat \ {0} /\ n \in 1 .. top + 1
  BY DEF FrameInv, TypeOK, top
<1>2. PICK q \in ActiveIn(stack, n) : /\ \A j \in ActiveIn(stack, n) : j <= q
                                      /\ InnermostIn(stack, n) = stack[q].f
  BY <1>1, HasInnermost
<1>3. \A j \in ActiveIn(stack, n) : j \in Guards /\ j \in 1 .. n - 1
  BY <1>1, ActiveFrame
<1>4. \A j \in ActiveIn(stack, n) : stack[j].f = stack[m].f => j = m
  BY <1>3, GuardOfFrame
<1>5. q = m
  BY <1>2, <1>4
<1>6. m \in Nat \ {0} /\ m \in 1 .. n - 1
  BY <1>3
<1>7. \A i : i \in ActiveIn(stack, m) <=> i \in ActiveIn(stack, n) /\ i < m
  <2>1. n \in Nat /\ \A i \in 1 .. n - 1 : i \in 1 .. top
    BY <1>1
  <2>2. \A i \in 1 .. n - 1 : Pos(stack, frame, fresh, i)
    BY <2>1 DEF FrameInv
  <2> QED
    BY <2>1, <2>2, Shrink
<1>8. ActiveIn(t, n) = ActiveIn(stack, n)
  BY <1>1, PrefixActive
<1>9. ActiveIn(t, n + 1) = ActiveIn(stack, m)
  <2>1. ActiveIn(t, n + 1) = {i \in ActiveIn(t, n) : t[n].f # t[i].f}
    BY <1>1, ExtendActive DEF ActivePCs
  <2>2. \A i \in ActiveIn(stack, n) : t[n].f # t[i].f <=> i < m
    BY <1>2, <1>3, <1>4, <1>5
  <2> QED
    BY <1>7, <1>8, <2>1, <2>2
<1>10. CASE ActiveIn(stack, m) = {}
  BY <1>9, <1>10 DEF InnermostIn
<1>11. CASE ActiveIn(stack, m) # {}
  <2>1. Newest(ActiveIn(stack, m)) \in 1 .. n - 1
    <3>1. m - 1 \in Nat /\ ActiveIn(stack, m) \subseteq 1 .. m - 1
      BY <1>6 DEF ActiveIn
    <3>2. Newest(ActiveIn(stack, m)) \in 1 .. m - 1
      BY <1>11, <3>1, NewestIs
    <3> QED
      BY <1>6, <3>2
  <2> QED
    BY <1>9, <2>1 DEF InnermostIn
<1> QED
  BY <1>10, <1>11

(* The frame a raise stands on at the top of the stack.                    *)
LEMMA TopFrame ==
  ASSUME FrameInv, NEW p \in {"decider", "abandoned"}, At(p)
  PROVE  \E m \in ActiveIn(stack, top) :
           /\ stack[m].f = stack[top].f /\ m \in Nat \ {0} /\ m < top
           /\ frame[stack[top].f].prev = InnermostIn(stack, m)
           /\ \A i \in Guards : stack[i].f = stack[top].f => i = m
<1>1. top \in Nat \ {0} /\ stack[top].pc = p /\ Pos(stack, frame, fresh, top)
  BY AtTop
<1>2. PICK m \in ActiveIn(stack, top) : stack[m].f = stack[top].f
  BY <1>1 DEF Pos, RaisePos, HoldsActive
<1>3. top \in 1 .. top + 1
  BY <1>1
<1>4. /\ m \in 1 .. top - 1 /\ m \in Guards
      /\ frame[stack[m].f].prev = InnermostIn(stack, m)
  BY <1>3, ActiveFrame
<1> QED
  BY <1>1, <1>2, <1>4, GuardOfFrame

(* The innermost frame is taken off the front by the decider it called.    *)
LEMMA AbandonInv == FrameInv /\ Abandon => FrameInv'
<1> SUFFICES ASSUME FrameInv, Abandon PROVE FrameInv'
  OBVIOUS
<1> DEFINE act == [stack[top] EXCEPT !.pc = "abandoned"]
<1>1. /\ At("decider") /\ front = stack[top].f /\ Goto(act)
      /\ front' = frame[stack[top].f].prev /\ UNCHANGED <<frame, fresh>>
  BY DEF Abandon
<1>2. /\ top \in Nat \ {0} /\ stack[top] \in Activation /\ top \in 1 .. top
      /\ stack[top].pc = "decider" /\ Pos(stack, frame, fresh, top)
      /\ front = InnermostIn(stack, top + 1)
  BY <1>1, AtTop
<1>3. /\ act \in Activation /\ act.pc = "abandoned" /\ act.f = stack[top].f
      /\ act.signo = stack[top].signo /\ act.called = stack[top].called
  BY <1>2, PCLiterals, ActivationExcept DEF Activation
<1> HIDE DEF act
<1>4. /\ stack'[top] = act
      /\ \A i \in 1 .. top - 1 : stack'[i] = stack[i]
      /\ ActiveIn(stack', top) = ActiveIn(stack, top)
      /\ InnermostIn(stack', top) = InnermostIn(stack, top)
      /\ \A j \in ActiveIn(stack, top) : stack'[j] = stack[j]
  BY <1>1, <1>3, Rewrite
<1>5. stack[top].f = InnermostIn(stack, top)
  BY <1>1, <1>2, PassBy
<1>6. RaisePos(stack', frame, top)
  BY <1>2, <1>3, <1>4, <1>5 DEF Pos, RaisePos, HoldsActive
<1>7. Pos(stack', frame, fresh, top)
  BY <1>3, <1>4, <1>6 DEF Pos, GuardPos, GlobalPos, GuardPCs
<1>8. PICK m \in ActiveIn(stack, top) :
        /\ stack[m].f = stack[top].f /\ m \in Nat \ {0} /\ m < top
        /\ frame[stack[top].f].prev = InnermostIn(stack, m)
  BY <1>1, TopFrame
<1>9. InnermostIn(stack', top + 1) = InnermostIn(stack, m)
  BY <1>2, <1>3, <1>4, <1>5, <1>8, AbandonedRest
<1>10. m \in 1 .. top + 1
  BY <1>2, <1>8
<1>11. front' = InnermostIn(stack', top + 1) /\ front' \in Frames \cup {NULL}
  BY <1>1, <1>8, <1>9, <1>10, InnermostType
<1> QED
  BY <1>1, <1>3, <1>7, <1>11, RewriteSettles

(* In an abandoned decider front is the abandoned frame's prev, so         *)
(* sigdecider_abandon_resume() finds what it expects.                      *)
LEMMA FrontWhenAbandoned ==
  ASSUME FrameInv, At("abandoned")
  PROVE  front = frame[stack[top].f].prev
<1>1. /\ top \in Nat \ {0} /\ top \in 1 .. top
      /\ stack[top].pc = "abandoned" /\ Pos(stack, frame, fresh, top)
      /\ front = InnermostIn(stack, top + 1)
  BY AtTop
<1>2. PICK m \in ActiveIn(stack, top) :
        /\ stack[m].f = stack[top].f
        /\ frame[stack[top].f].prev = InnermostIn(stack, m)
  BY TopFrame
<1>3. stack[m].f = InnermostIn(stack, top)
  BY <1>1, <1>2 DEF Pos, RaisePos
<1>4. InnermostIn(stack, top + 1) = InnermostIn(stack, m)
  BY <1>1, <1>2, <1>3, AbandonedRest
<1> QED
  BY <1>1, <1>2, <1>4

(* The abandoned frame is put back, and is the innermost again.            *)
LEMMA AbandonResumeInv == FrameInv /\ AbandonResume => FrameInv'
<1> SUFFICES ASSUME FrameInv, AbandonResume PROVE FrameInv'
  OBVIOUS
<1> DEFINE act == [stack[top] EXCEPT !.pc = "decider"]
<1>1. /\ At("abandoned") /\ front' = stack[top].f /\ Goto(act)
      /\ UNCHANGED <<frame, fresh>>
  BY FrontWhenAbandoned DEF AbandonResume
<1>2. /\ top \in Nat \ {0} /\ stack[top] \in Activation
      /\ stack[top].pc = "abandoned" /\ Pos(stack, frame, fresh, top)
  BY <1>1, AtTop
<1>3. /\ act \in Activation /\ act.pc = "decider" /\ act.f = stack[top].f
      /\ act.signo = stack[top].signo /\ act.called = stack[top].called
  BY <1>2, PCLiterals, ActivationExcept DEF Activation
<1> HIDE DEF act
<1>4. /\ stack'[top] = act
      /\ ActiveIn(stack', top) = ActiveIn(stack, top)
      /\ InnermostIn(stack', top) = InnermostIn(stack, top)
      /\ \A j \in ActiveIn(stack, top) : stack'[j] = stack[j]
  BY <1>1, <1>3, Rewrite
<1>5. RaisePos(stack', frame, top)
  BY <1>2, <1>3, <1>4 DEF Pos, RaisePos, HoldsActive
<1>6. Pos(stack', frame, fresh, top)
  BY <1>3, <1>4, <1>5 DEF Pos, GuardPos, GlobalPos, GuardPCs
<1>7. InnermostIn(stack', top + 1) = InnermostIn(stack', top)
  BY <1>2, <1>3, <1>4, PassBy
<1>8. stack[top].f = InnermostIn(stack, top)
  BY <1>2 DEF Pos, RaisePos
<1>9. front' = InnermostIn(stack', top + 1) /\ front' \in Frames \cup {NULL}
  BY <1>1, <1>2, <1>4, <1>7, <1>8 DEF Activation
<1> QED
  BY <1>1, <1>3, <1>6, <1>9, RewriteSettles

(* A jump takes with it every guard it abandons and no other: the active   *)
(* guards are the same before and after it.                                *)
LEMMA LeaveAbandonedInv ==
  ASSUME Jumps = "outside", FrameInv, LeaveAbandoned
  PROVE  FrameInv'
<1>1. At("abandoned") /\ UNCHANGED <<front, frame, fresh>>
  BY DEF LeaveAbandoned
<1>2. PICK k \in 0 .. top - 1 :
        /\ \A i \in k + 1 .. top : stack[i].pc \in ActivePCs => Abandoned(i)
        /\ \A i \in Guards, j \in k + 1 .. top :
             stack[j].pc = "abandoned" /\ stack[j].f = stack[i].f => i > k
        /\ stack' = SubSeq(stack, 1, k)
  BY DEF LeaveAbandoned
<1>3. top \in Nat \ {0} /\ front = InnermostIn(stack, top + 1)
  BY <1>1, AtTop
<1>4. k \in Nat /\ k < top /\ k <= top
  BY <1>3
<1>5. ASSUME NEW i \in ActiveIn(stack, top + 1) PROVE i \in ActiveIn(stack, k + 1)
  <2>1. /\ i \in 1 .. top /\ stack[i].pc \in ActivePCs
        /\ \A j \in i + 1 .. top : ~(stack[j].pc = "abandoned"
                                     /\ stack[j].f = stack[i].f)
    BY <1>3 DEF ActiveIn
  <2>2. ~Abandoned(i)
    BY <2>1 DEF Abandoned
  <2>3. i \in 1 .. k
    BY <1>2, <1>3, <1>4, <2>1, <2>2
  <2> QED
    BY <1>3, <1>4, <2>1, <2>3 DEF ActiveIn
<1>6. ASSUME NEW i \in ActiveIn(stack, k + 1) PROVE i \in ActiveIn(stack, top + 1)
  <2>1. /\ i \in 1 .. k /\ stack[i].pc \in ActivePCs
        /\ \A j \in i + 1 .. k : ~(stack[j].pc = "abandoned"
                                   /\ stack[j].f = stack[i].f)
    BY <1>4 DEF ActiveIn
  <2>2. i \in Guards
    BY <1>3, <1>4, <2>1 DEF Guards, GuardPCs, ActivePCs
  <2>3. \A j \in k + 1 .. top : ~(stack[j].pc = "abandoned"
                                  /\ stack[j].f = stack[i].f)
    BY <1>2, <1>4, <2>1, <2>2
  <2> QED
    BY <1>3, <1>4, <2>1, <2>3 DEF ActiveIn
<1>7. ActiveIn(stack, top + 1) = ActiveIn(stack, k + 1)
  BY <1>5, <1>6
<1>8. front' = InnermostIn(stack, k + 1)
  BY <1>1, <1>3, <1>7, SameActive
<1>9. /\ stack' \in Seq(Activation) /\ Len(stack') = k
      /\ \A i \in 1 .. k : stack'[i] = stack[i]
  BY <1>2, <1>4, Cut, InvTyped
<1>10. front' \in Frames \cup {NULL}
  BY <1>1 DEF FrameInv, TypeOK
<1> QED
  BY <1>1, <1>4, <1>8, <1>9, <1>10, CutSettles

(* A longjmp() lands in a guard that was active.  Where the decider was    *)
(* not the innermost one, front is left on a guard that was jumped over.   *)
LEMMA DeciderRecoversInv == FrameInv /\ DeciderRecovers => FrameInv'
<1> SUFFICES ASSUME FrameInv, DeciderRecovers PROVE FrameInv'
  OBVIOUS
<1>1. /\ At("decider") /\ UNCHANGED <<front, frame, fresh>>
      /\ \E i \in Guards :
           /\ stack[i].f = stack[top].f
           /\ stack' = [SubSeq(stack, 1, i) EXCEPT ![i].pc = "landed"]
  BY DEF DeciderRecovers
<1>2. PICK m \in ActiveIn(stack, top) :
        /\ m \in Nat \ {0} /\ m < top
        /\ \A i \in Guards : stack[i].f = stack[top].f => i = m
  BY <1>1, TopFrame
<1> DEFINE c == SubSeq(stack, 1, m)
           act == [c[m] EXCEPT !.pc = "landed"]
<1>3. stack' = [c EXCEPT ![m] = act]
  BY <1>1, <1>2
<1>4. /\ top \in Nat \ {0} /\ stack[top].pc = "decider"
      /\ front = InnermostIn(stack, top + 1)
  BY <1>1, AtTop
<1>5. m \in 1 .. m /\ m <= top /\ m \in 1 .. top /\ m \in 0 .. top + 1
  BY <1>2, <1>4
<1>6. c \in Seq(Activation) /\ Len(c) = m /\ \A i \in 1 .. m : c[i] = stack[i]
  BY <1>2, <1>5, Cut, InvTyped
<1> HIDE DEF c
<1>7. c[m] \in Activation
  BY <1>5, <1>6, ElementOfSeq
<1>8. act \in Activation /\ act.pc = "landed" /\ act.f = stack[m].f
  <2>1. act \in Activation
    BY <1>7, PCLiterals, ActivationExcept
  <2>2. act.pc = "landed" /\ act.f = c[m].f
    BY <1>7 DEF Activation
  <2>3. c[m] = stack[m]
    BY <1>5, <1>6
  <2> QED
    BY <2>1, <2>2, <2>3
<1> HIDE DEF act
<1>9. /\ stack' \in Seq(Activation) /\ Len(stack') = m
      /\ \A j \in 1 .. m : stack'[j] = IF j = m THEN act ELSE c[j]
  BY <1>3, <1>5, <1>6, <1>8, ExceptSeq
<1>10. stack'[m] = act /\ \A i \in 1 .. m - 1 : stack'[i] = stack[i]
  BY <1>5, <1>6, <1>9
<1>11. Pos(stack, frame, fresh, m) /\ stack[m].pc \in ActivePCs
  BY <1>5 DEF FrameInv, ActiveIn
<1>12. Pos(stack', frame, fresh, m)
  BY <1>2, <1>8, <1>10, <1>11, GuardMoves DEF GuardPCs, ActivePCs
<1>13. PICK q \in ActiveIn(stack, top) :
         /\ \A j \in ActiveIn(stack, top) : j <= q
         /\ front = stack[q].f
  BY <1>2, <1>4, PassBy, HasInnermost
<1>14. /\ frame' \in [Frames -> Frame] /\ fresh' \subseteq fresh
       /\ \A f \in Frames \ fresh : frame'[f] = frame[f]
       /\ front' \in Frames \cup {NULL}
  BY <1>1 DEF FrameInv, TypeOK
<1>15. m > 0 /\ stack'[m].pc = "landed"
  BY <1>2, <1>8, <1>10
<1>16. Pos(stack', frame', fresh', m)
  BY <1>1, <1>12
<1>17. q \in Guards /\ stack[q].f \in Frames /\ m <= q
  <2>1. top \in 1 .. top + 1
    BY <1>4
  <2> QED
    BY <1>2, <1>13, <2>1, ActiveFrame
<1>18. CASE q = m
  <2>1. InnermostIn(stack', m + 1) = stack'[m].f
    BY <1>2, <1>15, InsideGuard DEF ActivePCs
  <2>2. front' = InnermostIn(stack', m + 1)
    BY <1>1, <1>8, <1>10, <1>13, <1>18, <2>1
  <2> QED
    BY <1>5, <1>9, <1>10, <1>14, <1>16, <2>2, Settle
<1>19. CASE q # m
  <2>1. ASSUME NEW i \in Guards' PROVE stack'[i].f # front
    <3>1. i \in 1 .. m /\ stack'[i].pc \in GuardPCs
      BY <1>9 DEF Guards, top
    <3>2. stack[i].pc \in GuardPCs /\ stack'[i].f = stack[i].f
      <4>1. CASE i = m
        BY <1>8, <1>10, <1>11, <4>1 DEF GuardPCs, ActivePCs
      <4>2. CASE i # m
        BY <1>2, <1>10, <3>1, <4>2
      <4> QED
        BY <4>1, <4>2
    <3>3. i \in Guards /\ i <= m
      BY <1>2, <1>4, <3>1, <3>2 DEF Guards
    <3>4. i # q
      BY <1>2, <1>17, <1>19, <3>3 DEF Guards
    <3> QED
      BY <1>13, <1>17, <3>2, <3>3, <3>4, GuardOfFrame
  <2>2. Dead(front)'
    BY <1>1, <1>13, <1>17, <2>1, FramesAssumption DEF Dead
  <2> QED
    BY <1>5, <1>9, <1>10, <1>14, <1>15, <1>16, <2>2, Settle
<1> QED
  BY <1>18, <1>19

-----------------------------------------------------------------------------
(* An activation is pushed.                                                *)
LEMMA Push ==
  ASSUME TypeOK, NEW act \in Activation, stack' = Append(stack, act)
  PROVE  /\ stack' \in Seq(Activation) /\ Len(stack') = top + 1
         /\ \A i \in 1 .. top : stack'[i] = stack[i]
         /\ stack'[top + 1] = act
<1>1. stack \in Seq(Activation)
  BY DEF TypeOK
<1> QED
  BY <1>1, AppendProperties DEF top

(* A pushed activation that satisfies the invariant and is not active.     *)
LEMMA PushSettles ==
  ASSUME FrameInv, stack' \in Seq(Activation), Len(stack') = top + 1,
         \A i \in 1 .. top : stack'[i] = stack[i],
         front = InnermostIn(stack, top + 1),
         stack'[top + 1].pc \in {"enter", "walk"}, front' = front,
         frame' \in [Frames -> Frame], fresh' \subseteq fresh,
         \A f \in Frames \ fresh : frame'[f] = frame[f],
         Pos(stack', frame', fresh', top + 1)
  PROVE  FrameInv'
<1> DEFINE k == top + 1
<1>1. top \in Nat /\ k \in Nat \ {0} /\ k \in 0 .. top + 1 /\ k - 1 = top
  BY DEF FrameInv, TypeOK, top
<1>2. /\ Len(stack') = k /\ stack'[k].pc \in {"enter", "walk"}
      /\ Pos(stack', frame', fresh', k)
      /\ \A i \in 1 .. k - 1 : stack'[i] = stack[i]
  BY <1>1
<1>3. front = InnermostIn(stack, k) /\ front \in Frames \cup {NULL}
  BY <1>1 DEF FrameInv, TypeOK
<1> HIDE DEF k
<1>5. InnermostIn(stack', k) = InnermostIn(stack, k)
  BY <1>1, <1>2, PrefixActive
<1>6. InnermostIn(stack', k + 1) = InnermostIn(stack', k)
  BY <1>1, <1>2, PassBy
<1>7. front' = InnermostIn(stack', k + 1) /\ front' \in Frames \cup {NULL}
  BY <1>3, <1>5, <1>6
<1> QED
  BY <1>1, <1>2, <1>7, Settle

(* A new frame is linked to the innermost active one.                      *)
LEMMA SigguardedInv == FrameInv /\ Sigguarded => FrameInv'
<1> SUFFICES ASSUME FrameInv, Sigguarded PROVE FrameInv'
  OBVIOUS
<1>1. PICK f \in fresh, S \in SUBSET Signals, rec \in BOOLEAN :
        /\ frame' = [frame EXCEPT ![f] = [prev |-> front, guarded |-> S,
                                          recovery |-> rec]]
        /\ fresh' = fresh \ {f}
        /\ stack' = Append(stack, [pc |-> "enter", f |-> f, signo |-> NULL,
                                   called |-> {}])
  BY DEF Sigguarded
<1> DEFINE act == [pc |-> "enter", f |-> f, signo |-> NULL, called |-> {}]
           k == top + 1
<1>2. /\ front' = front /\ top \in Nat /\ f \in Frames
      /\ front \in Frames \cup {NULL} /\ frame \in [Frames -> Frame]
  BY DEF Sigguarded, FrameInv, TypeOK, top
<1>3. front = InnermostIn(stack, top + 1)
  BY DEF Sigguarded, InUserCode, LibraryPCs, FrameInv
<1>4. act \in Activation /\ act.pc = "enter" /\ act.f = f
  BY <1>2, PCLiterals, NewActivation
<1>5. /\ stack' \in Seq(Activation) /\ Len(stack') = k
      /\ \A i \in 1 .. top : stack'[i] = stack[i]
      /\ stack'[k] = act
  BY <1>1, <1>4, Push, InvTyped
<1> HIDE DEF act
<1>6. /\ frame' \in [Frames -> Frame] /\ frame'[f].prev = front
      /\ \A g \in Frames \ fresh : frame'[g] = frame[g]
  <2>1. [prev |-> front, guarded |-> S, recovery |-> rec] \in Frame
    BY <1>2 DEF Frame
  <2> QED
    BY <1>1, <1>2, <2>1
<1>7. \A j \in 1 .. top : stack[j].pc \in GuardPCs => stack[j].f # f
  BY <1>1 DEF FrameInv, Pos, GuardPos
<1>8. front = InnermostIn(stack, k)
  BY <1>3
<1>9. k \in Nat \ {0} /\ k - 1 = top
  BY <1>2
<1> HIDE DEF k
<1>10. InnermostIn(stack', k) = InnermostIn(stack, k)
  BY <1>5, <1>9, PrefixActive
<1>11. GuardPos(stack', frame', fresh', k)
  BY <1>1, <1>2, <1>4, <1>5, <1>6, <1>7, <1>8, <1>9, <1>10 DEF GuardPos
<1>12. Pos(stack', frame', fresh', k)
  BY <1>4, <1>5, <1>11 DEF Pos, RaisePos, GlobalPos
<1>13. fresh' \subseteq fresh /\ stack'[k].pc \in {"enter", "walk"}
  BY <1>1, <1>4, <1>5
<1> QED
  BY <1>2, <1>3, <1>5, <1>6, <1>12, <1>13, PushSettles DEF k

(* A raise starts at the innermost active frame, if front is that.         *)
LEMMA StdcRaiseInv ==
  ASSUME FrameInv, StdcRaise, front = InnermostIn(stack, top + 1)
  PROVE  FrameInv'
<1>1. PICK s \in Signals :
        stack' = Append(stack, [pc |-> "walk", f |-> front, signo |-> s,
                                called |-> {}])
  BY DEF StdcRaise
<1> DEFINE act == [pc |-> "walk", f |-> front, signo |-> s, called |-> {}]
           k == top + 1
<1>2. /\ UNCHANGED <<front, frame, fresh>> /\ top \in Nat
      /\ front \in Frames \cup {NULL} /\ frame \in [Frames -> Frame]
  BY DEF StdcRaise, FrameInv, TypeOK, top
<1>4. act \in Activation /\ act.pc = "walk" /\ act.f = front
  BY <1>2, PCLiterals, NewActivation
<1>5. /\ stack' \in Seq(Activation) /\ Len(stack') = k
      /\ \A i \in 1 .. top : stack'[i] = stack[i]
      /\ stack'[k] = act
  BY <1>1, <1>4, Push, InvTyped
<1> HIDE DEF act
<1>6. front = InnermostIn(stack, k)
  OBVIOUS
<1>7. k \in Nat \ {0} /\ k - 1 = top
  BY <1>2
<1> HIDE DEF k
<1>8. /\ ActiveIn(stack', k) = ActiveIn(stack, k)
      /\ InnermostIn(stack', k) = InnermostIn(stack, k)
  BY <1>5, <1>7, PrefixActive
<1>9. RaisePos(stack', frame, k)
  <2>1. CASE ActiveIn(stack', k) = {}
    <3>1. front = NULL
      BY <1>6, <1>8, <2>1, InnermostNone
    <3> QED
      BY <1>4, <1>5, <2>1, <3>1 DEF RaisePos
  <2>2. CASE ActiveIn(stack', k) # {}
    <3>1. PICK m \in ActiveIn(stack', k) :
            /\ \A j \in ActiveIn(stack', k) : j <= m
            /\ InnermostIn(stack', k) = stack'[m].f
      BY <1>7, <2>2, HasInnermost
    <3> QED
      BY <1>4, <1>5, <1>6, <1>8, <3>1 DEF RaisePos, HoldsActive
  <2> QED
    BY <2>1, <2>2
<1>10. Pos(stack', frame, fresh, k)
  BY <1>4, <1>5, <1>9 DEF Pos, GuardPos, GlobalPos, GuardPCs
<1>11. /\ Pos(stack', frame', fresh', k) /\ fresh' \subseteq fresh
       /\ frame' \in [Frames -> Frame] /\ stack'[k].pc \in {"enter", "walk"}
       /\ \A f \in Frames \ fresh : frame'[f] = frame[f]
  BY <1>2, <1>4, <1>5, <1>10
<1> QED
  BY <1>2, <1>5, <1>11, PushSettles DEF k

-----------------------------------------------------------------------------
(* The initial state satisfies the invariant.                              *)
LEMMA InitFrameInv == Init => FrameInv
<1> SUFFICES ASSUME Init PROVE FrameInv
  OBVIOUS
<1>1. stack = <<>> /\ top = 0 /\ front = NULL
  BY DEF Init, top
<1>2. TypeOK
  <2>1. [prev |-> NULL, guarded |-> {}, recovery |-> FALSE] \in Frame
    BY DEF Frame
  <2> QED
    BY <1>1, <2>1 DEF Init, TypeOK
<1>3. ActiveIn(stack, top + 1) = {}
  BY <1>1 DEF ActiveIn
<1>4. front = InnermostIn(stack, top + 1)
  BY <1>1, <1>3, InnermostNone
<1> QED
  BY <1>1, <1>2, <1>4 DEF FrameInv

(* A signal delivered while front is a dead frame: the raise has it in     *)
(* hand and nothing happens any more.                                      *)
StoppedInv == /\ TypeOK /\ DeadFrameInHand
              /\ top > 0 /\ stack[top].pc = "walk"
              /\ \A i \in 1 .. top - 1 : Pos(stack, frame, fresh, i)

(* A raise that starts at a dead frame stops the thread.                   *)
LEMMA StdcRaiseStops ==
  ASSUME FrameInv, StdcRaise, Dead(front)
  PROVE  StoppedInv'
<1>1. PICK s \in Signals :
        stack' = Append(stack, [pc |-> "walk", f |-> front, signo |-> s,
                                called |-> {}])
  BY DEF StdcRaise
<1> DEFINE act == [pc |-> "walk", f |-> front, signo |-> s, called |-> {}]
           k == top + 1
<1>2. UNCHANGED <<front, frame, fresh>> /\ top \in Nat /\ TypeOK
  BY DEF StdcRaise, FrameInv, TypeOK, top
<1>3. act \in Activation /\ act.pc = "walk" /\ act.f = front
  BY <1>2, PCLiterals, NewActivation DEF TypeOK
<1>4. /\ stack' \in Seq(Activation) /\ Len(stack') = k
      /\ \A i \in 1 .. top : stack'[i] = stack[i]
      /\ stack'[k] = act
  BY <1>1, <1>3, Push, InvTyped
<1> HIDE DEF act
<1>5. /\ TypeOK' /\ top' = k /\ k \in 1 .. k /\ k > 0 /\ k - 1 = top
      /\ stack'[k].pc = "walk" /\ stack'[k].f = front
  BY <1>2, <1>3, <1>4 DEF TypeOK, top
<1>6. Dead(front)'
  <2>1. ASSUME NEW i \in Guards' PROVE stack'[i].f # front
    <3>1. i \in 1 .. k /\ stack'[i].pc \in GuardPCs
      BY <1>5 DEF Guards
    <3>2. i \in 1 .. top
      BY <1>2, <1>5, <3>1 DEF GuardPCs
    <3>3. i \in Guards /\ stack'[i] = stack[i]
      BY <1>4, <3>1, <3>2 DEF Guards
    <3> QED
      BY <3>3 DEF Dead
  <2>2. front # NULL
    BY DEF Dead
  <2> QED
    BY <1>2, <2>1, <2>2 DEF Dead
<1>7. DeadFrameInHand'
  BY <1>2, <1>5, <1>6 DEF DeadFrameInHand, Dead
<1>8. ASSUME NEW n \in 1 .. top' - 1 PROVE Pos(stack', frame', fresh', n)
  <2>1. n \in 1 .. top /\ n \in Nat \ {0} /\ \A i \in 1 .. n : i \in 1 .. top
    BY <1>2, <1>5
  <2>2. /\ \A i \in 1 .. n : stack[i] = stack'[i]
        /\ \A i \in 1 .. n : Pos(stack, frame, fresh, i)
    BY <1>4, <2>1 DEF FrameInv
  <2>3. fresh' \in SUBSET fresh /\ \A f \in Frames \ fresh : frame'[f] = frame[f]
    BY <1>2
  <2> QED
    BY <2>1, <2>2, <2>3, PosKept
<1> QED
  BY <1>5, <1>7, <1>8 DEF StoppedInv

(* Every step of a client that jumps outside preserves the two.            *)
LEMMA NextFrameInv ==
  ASSUME Jumps = "outside"
  PROVE  (FrameInv \/ StoppedInv) /\ [Next]_vars => (FrameInv \/ StoppedInv)'
<1> SUFFICES ASSUME FrameInv \/ StoppedInv, [Next]_vars
             PROVE  FrameInv' \/ StoppedInv'
  OBVIOUS
<1>1. ASSUME UNCHANGED vars PROVE FrameInv' \/ StoppedInv'
  <2>1. CASE FrameInv
    BY <1>1, <2>1 DEF vars, FrameInv, TypeOK, top, Dead, Guards
  <2>2. CASE StoppedInv
    BY <1>1, <2>2 DEF vars, StoppedInv, TypeOK, top, DeadFrameInHand, Dead, Guards
  <2> QED
    BY <2>1, <2>2
<1>2. ASSUME StoppedInv, Next PROVE UNCHANGED vars
  BY <1>2 DEF StoppedInv, Next, Sigguarded, GuardEntered, GuardedReturns,
     GuardLanded, RecoveryReturns, StdcRaise, WalkSkip, WalkCall, WalkEnd,
     RaiseReturns, DeciderNext, DeciderResumes, DeciderRecovers, Abandon,
     AbandonResume, LeaveAbandoned, Stopped, At, InUserCode
<1>3. ASSUME FrameInv, StdcRaise PROVE FrameInv' \/ StoppedInv'
  <2>1. front = InnermostIn(stack, top + 1) \/ Dead(front)
    BY <1>3 DEF FrameInv
  <2> QED
    BY <1>3, <2>1, StdcRaiseInv, StdcRaiseStops
<1>4. ASSUME FrameInv, Next PROVE FrameInv' \/ StoppedInv' \/ UNCHANGED vars
  BY <1>3, <1>4, SigguardedInv, GuardEnteredInv, GuardLandedInv, ReturnsInv,
     OutwardsInv, WalkCallInv, WalkEndInv, DeciderRecoversInv,
     AbandonInv, AbandonResumeInv, LeaveAbandonedInv, Zenon DEF Next, Stopped
<1> QED
  BY <1>1, <1>2, <1>4

(* One of them holds in every state.                                       *)
LEMMA FrameInvariant ==
  ASSUME Jumps = "outside"
  PROVE  Spec => [](FrameInv \/ StoppedInv)
  BY InitFrameInv, NextFrameInv, PTL DEF Spec

-----------------------------------------------------------------------------
(* Which frames a pointer can reach when a client may jump anywhere: the   *)
(* invariant asks only that a pointer names a guard further out.           *)

(* A raise before position n has abandoned a guard at or before m and      *)
(* stands after it: while it stands nothing points between the two.        *)
Masked(s, m, n) ==
  \E r \in 1 .. n - 1, g \in 1 .. n - 1 :
    /\ s[r].pc = "abandoned" /\ s[g].pc \in GuardPCs /\ s[g].f = s[r].f
    /\ g <= m /\ m <= r

(* The pointer f names a guard before position n whose frame is linked.    *)
Sound(s, f, n) ==
  f = NULL \/ \E m \in 1 .. n - 1 : /\ s[m].pc \in ActivePCs /\ s[m].f = f
                                    /\ ~Masked(s, m, n)

OwnFrame(s, un, i) ==
  s[i].pc \in GuardPCs =>
    /\ s[i].f \in Frames \ un
    /\ \A j \in 1 .. i - 1 : s[j].pc \in GuardPCs => s[j].f # s[i].f

LivePos(s, fr, un, i) ==
  /\ OwnFrame(s, un, i)
  /\ s[i].pc \in GuardPCs => Sound(s, fr[s[i].f].prev, i)
  /\ s[i].pc \in {"walk", "decider", "abandoned"} => Sound(s, s[i].f, i)
  /\ s[i].pc \in {"decider", "abandoned"} => s[i].f # NULL

FrontSound == \/ Sound(stack, front, top + 1)
              \/ top > 0 /\ stack[top].pc = "landed" /\ Dead(front)

LiveInv == /\ TypeOK
           /\ \A i \in 1 .. top : LivePos(stack, frame, fresh, i)
           /\ FrontSound

(* A signal was delivered while front was a dead frame.                    *)
StruckInv ==
  /\ TypeOK /\ DeadFrameInHand
  /\ top > 1 /\ stack[top].pc = "walk" /\ stack[top - 1].pc = "landed"
  /\ stack[top].f = front /\ stack[top].called = {}
  /\ \A i \in 1 .. top - 1 : LivePos(stack, frame, fresh, i)

-----------------------------------------------------------------------------
(* What a pointer may name depends only on the activations before it.      *)
LEMMA SoundPrefix ==
  ASSUME NEW s, NEW t, NEW n \in Nat, \A i \in 1 .. n - 1 : s[i] = t[i],
         NEW f, Sound(s, f, n)
  PROVE  Sound(t, f, n)
<1>1. \A m \in 1 .. n - 1 : Masked(t, m, n) => Masked(s, m, n)
  BY DEF Masked
<1> QED
  BY <1>1 DEF Sound

(* An activation that has not abandoned masks nothing.                     *)
LEMMA SoundExtend ==
  ASSUME NEW s, NEW n \in Nat \ {0}, NEW f, Sound(s, f, n),
         s[n].pc # "abandoned"
  PROVE  Sound(s, f, n + 1)
<1>1. ASSUME NEW m \in 1 .. n - 1, Masked(s, m, n + 1) PROVE Masked(s, m, n)
  <2>1. PICK r \in 1 .. n, g \in 1 .. n :
          /\ s[r].pc = "abandoned" /\ s[g].pc \in GuardPCs /\ s[g].f = s[r].f
          /\ g <= m /\ m <= r
    BY <1>1 DEF Masked
  <2>2. r \in 1 .. n - 1 /\ g \in 1 .. n - 1
    BY <2>1
  <2> QED
    BY <2>1, <2>2 DEF Masked
<1>2. \A m \in 1 .. n - 1 : m \in 1 .. (n + 1) - 1
  OBVIOUS
<1>3. CASE f = NULL
  BY <1>3 DEF Sound
<1>4. CASE f # NULL
  <2>1. PICK m \in 1 .. n - 1 : /\ s[m].pc \in ActivePCs /\ s[m].f = f
                                /\ ~Masked(s, m, n)
    BY <1>4 DEF Sound
  <2> QED
    BY <1>1, <1>2, <2>1 DEF Sound
<1> QED
  BY <1>3, <1>4

(* A pointer that names a guard at or before k stays sound when what       *)
(* follows k is cut off.                                                   *)
LEMMA MaskedGrows ==
  ASSUME NEW s, NEW k \in Nat, NEW n \in Nat, k <= n, NEW m, Masked(s, m, k)
  PROVE  Masked(s, m, n)
<1>1. \A i \in 1 .. k - 1 : i \in 1 .. n - 1
  OBVIOUS
<1> QED
  BY <1>1 DEF Masked

(* Nothing points to an activation that is not an active guard.            *)
LEMMA SoundDrop ==
  ASSUME NEW s, NEW n \in Nat \ {0}, NEW f, Sound(s, f, n + 1),
         s[n].pc \notin ActivePCs
  PROVE  Sound(s, f, n)
<1>1. CASE f = NULL
  BY <1>1 DEF Sound
<1>2. CASE f # NULL
  <2>1. PICK m \in 1 .. (n + 1) - 1 : /\ s[m].pc \in ActivePCs /\ s[m].f = f
                                      /\ ~Masked(s, m, n + 1)
    BY <1>2 DEF Sound
  <2>2. m \in 1 .. n - 1
    BY <2>1
  <2>3. n \in Nat /\ n + 1 \in Nat /\ n <= n + 1
    OBVIOUS
  <2>4. ~Masked(s, m, n)
    BY <2>1, <2>3, MaskedGrows
  <2> QED
    BY <2>1, <2>2, <2>4 DEF Sound
<1> QED
  BY <1>1, <1>2

(* The prev of a guard that may be pointed to may itself be pointed to.    *)
LEMMA SoundOutward ==
  ASSUME NEW s, NEW fr, NEW un, NEW n \in Nat, NEW m \in 1 .. n - 1,
         s[m].pc \in ActivePCs, ~Masked(s, m, n), LivePos(s, fr, un, m)
  PROVE  /\ Sound(s, fr[s[m].f].prev, n)
         /\ fr[s[m].f].prev # NULL =>
              \E q \in 1 .. m - 1 : /\ s[q].pc \in ActivePCs
                                    /\ s[q].f = fr[s[m].f].prev
                                    /\ ~Masked(s, q, n)
<1> DEFINE p == fr[s[m].f].prev
<1>1. Sound(s, p, m)
  BY DEF LivePos, GuardPCs, ActivePCs
<1>2. ASSUME p # NULL
      PROVE  \E q \in 1 .. m - 1 : /\ s[q].pc \in ActivePCs /\ s[q].f = p
                                   /\ ~Masked(s, q, n)
  <2>1. PICK q \in 1 .. m - 1 : /\ s[q].pc \in ActivePCs /\ s[q].f = p
                                /\ ~Masked(s, q, m)
    BY <1>1, <1>2 DEF Sound
  <2>2. ASSUME Masked(s, q, n) PROVE FALSE
    <3>1. PICK r \in 1 .. n - 1, g \in 1 .. n - 1 :
            /\ s[r].pc = "abandoned" /\ s[g].pc \in GuardPCs /\ s[g].f = s[r].f
            /\ g <= q /\ q <= r
      BY <2>2 DEF Masked
    <3>2. r # m
      BY <3>1 DEF ActivePCs
    <3>3. CASE r < m
      <4>1. r \in 1 .. m - 1 /\ g \in 1 .. m - 1
        BY <3>1, <3>3
      <4> QED
        BY <2>1, <3>1, <4>1 DEF Masked
    <3>4. CASE r > m
      <4>1. g <= m /\ m <= r
        BY <3>1, <3>4
      <4> QED
        BY <3>1, <4>1 DEF Masked
    <3> QED
      BY <3>2, <3>3, <3>4
  <2> QED
    BY <2>1, <2>2
<1>3. \A q \in 1 .. m - 1 : q \in 1 .. n - 1
  OBVIOUS
<1> HIDE DEF p
<1>4. Sound(s, p, n)
  BY <1>2, <1>3 DEF Sound
<1> QED
  BY <1>2, <1>4 DEF p

(* What holds at a position stays true when the stack changes only above   *)
(* it and no frame in use is written.                                      *)
LEMMA LiveKept ==
  ASSUME NEW s, NEW t, NEW fr, NEW gr, NEW un, NEW vn \in SUBSET un,
         NEW n \in Nat \ {0}, \A i \in 1 .. n : s[i] = t[i],
         \A f \in Frames \ un : gr[f] = fr[f], LivePos(s, fr, un, n)
  PROVE  LivePos(t, gr, vn, n)
<1>1. /\ n \in 1 .. n /\ \A i \in 1 .. n - 1 : i \in 1 .. n
      /\ n \in Nat
  OBVIOUS
<1>2. s[n] = t[n] /\ \A i \in 1 .. n - 1 : s[i] = t[i]
  BY <1>1
<1>3. OwnFrame(t, vn, n)
  BY <1>2 DEF LivePos, OwnFrame
<1>4. ASSUME NEW f, Sound(s, f, n) PROVE Sound(t, f, n)
  BY <1>1, <1>2, <1>4, SoundPrefix
<1>5. t[n].pc \in GuardPCs => gr[t[n].f] = fr[s[n].f]
  BY <1>2 DEF LivePos, OwnFrame
<1> QED
  BY <1>2, <1>3, <1>4, <1>5 DEF LivePos

(* A sigguarded() that goes on keeps what it knew.                         *)
LEMMA LiveGuardMoves ==
  ASSUME NEW s, NEW t, NEW fr, NEW un, NEW n \in Nat \ {0},
         \A i \in 1 .. n - 1 : t[i] = s[i], LivePos(s, fr, un, n),
         s[n].pc \in GuardPCs, t[n].pc \in GuardPCs, t[n].f = s[n].f
  PROVE  LivePos(t, fr, un, n)
<1>1. Sound(s, fr[s[n].f].prev, n)
  BY DEF LivePos
<1>2. n \in Nat /\ \A i \in 1 .. n - 1 : s[i] = t[i]
  OBVIOUS
<1>3. Sound(t, fr[s[n].f].prev, n)
  BY <1>1, <1>2, SoundPrefix
<1>4. OwnFrame(t, un, n)
  BY <1>2 DEF LivePos, OwnFrame
<1>5. t[n].pc \notin {"walk", "decider", "abandoned"}
  BY DEF GuardPCs
<1> QED
  BY <1>3, <1>4, <1>5 DEF LivePos

(* The new state satisfies the invariant when it does at its top, front    *)
(* is right and nothing further out has changed.                           *)
LEMMA LiveSettle ==
  ASSUME LiveInv, NEW k \in 0 .. top + 1,
         stack' \in Seq(Activation), Len(stack') = k,
         \A i \in 1 .. k - 1 : stack'[i] = stack[i],
         frame' \in [Frames -> Frame], fresh' \subseteq fresh,
         \A f \in Frames \ fresh : frame'[f] = frame[f],
         front' \in Frames \cup {NULL},
         k > 0 => LivePos(stack', frame', fresh', k),
         \/ Sound(stack', front', k + 1)
         \/ k > 0 /\ stack'[k].pc = "landed" /\ Dead(front)'
  PROVE  LiveInv'
<1>0. top \in Nat /\ top' = k /\ k \in Nat
  BY DEF LiveInv, TypeOK, top
<1>1. TypeOK'
  BY DEF LiveInv, TypeOK
<1>2. ASSUME NEW n \in 1 .. k - 1 PROVE LivePos(stack', frame', fresh', n)
  <2>1. /\ n \in Nat \ {0} /\ n \in 1 .. top
        /\ \A i \in 1 .. n : i \in 1 .. k - 1
    BY <1>0
  <2>2. \A i \in 1 .. n : stack[i] = stack'[i]
    BY <2>1
  <2>3. LivePos(stack, frame, fresh, n) /\ fresh' \in SUBSET fresh
    BY <2>1 DEF LiveInv
  <2> QED
    BY <2>1, <2>2, <2>3, LiveKept
<1>3. ASSUME NEW n \in 1 .. top' PROVE LivePos(stack', frame', fresh', n)
  <2>1. CASE n = k
    BY <1>0, <2>1
  <2>2. CASE n # k
    <3>1. n \in 1 .. k - 1
      BY <1>0, <2>2
    <3> QED
      BY <1>2, <3>1
  <2> QED
    BY <2>1, <2>2
<1>4. FrontSound'
  BY <1>0 DEF FrontSound
<1> QED
  BY <1>1, <1>3, <1>4 DEF LiveInv

(* What the innermost activation knows.                                    *)
LEMMA LiveTop ==
  ASSUME LiveInv, NEW p, At(p)
  PROVE  /\ top \in Nat \ {0} /\ top \in 1 .. top /\ stack \in Seq(Activation)
         /\ stack[top] \in Activation /\ stack[top].pc = p
         /\ LivePos(stack, frame, fresh, top)
         /\ p # "landed" => Sound(stack, front, top + 1)
<1>1. top \in Nat \ {0} /\ stack[top].pc = p
  BY DEF LiveInv, TypeOK, At, top
<1>2. top \in 1 .. top
  BY <1>1
<1>3. stack \in Seq(Activation) /\ stack[top] \in Activation
  BY <1>2, ElementOfSeq DEF LiveInv, TypeOK, top
<1> QED
  BY <1>1, <1>2, <1>3 DEF LiveInv, FrontSound

(* The innermost activation is rewritten.                                  *)
LEMMA LiveRewrite ==
  ASSUME LiveInv, NEW p, At(p), NEW act \in Activation, Goto(act)
  PROVE  /\ stack' \in Seq(Activation) /\ Len(stack') = top
         /\ \A i \in 1 .. top - 1 : stack'[i] = stack[i]
         /\ stack'[top] = act
<1>1. top \in Nat \ {0} /\ top \in 1 .. top /\ stack \in Seq(Activation)
  BY LiveTop
<1>2. /\ stack' \in Seq(Activation) /\ Len(stack') = top
      /\ \A j \in 1 .. top : stack'[j] = IF j = top THEN act ELSE stack[j]
  BY <1>1, ExceptSeq DEF Goto, top
<1> QED
  BY <1>1, <1>2

(* A rewritten top that satisfies the invariant.                           *)
LEMMA LiveRewriteSettles ==
  ASSUME LiveInv, NEW p, At(p), NEW act \in Activation, Goto(act),
         UNCHANGED <<frame, fresh>>, front' \in Frames \cup {NULL},
         LivePos(stack', frame, fresh, top), Sound(stack', front', top + 1)
  PROVE  LiveInv'
<1>1. /\ stack' \in Seq(Activation) /\ Len(stack') = top
      /\ \A i \in 1 .. top - 1 : stack'[i] = stack[i]
  BY LiveRewrite
<1>2. top \in 0 .. top + 1 /\ frame' \in [Frames -> Frame]
  BY DEF LiveInv, TypeOK, top
<1> QED
  BY <1>1, <1>2, LiveSettle

(* A cut stack satisfies the invariant when front names what is left.      *)
LEMMA LiveCutSettles ==
  ASSUME LiveInv, NEW k \in Nat, k < top, stack' = SubSeq(stack, 1, k),
         UNCHANGED <<frame, fresh>>, front' \in Frames \cup {NULL},
         Sound(stack, front', k + 1)
  PROVE  LiveInv'
<1>1. top \in Nat /\ TypeOK /\ k \in 0 .. top + 1 /\ k <= top
  BY DEF LiveInv, TypeOK, top
<1>2. /\ stack' \in Seq(Activation) /\ Len(stack') = k
      /\ \A i \in 1 .. k : stack'[i] = stack[i]
  BY <1>1, Cut
<1>3. k > 0 => LivePos(stack', frame', fresh', k)
  <2> SUFFICES ASSUME k > 0 PROVE LivePos(stack', frame', fresh', k)
    OBVIOUS
  <2>1. /\ k \in Nat \ {0} /\ fresh' \in SUBSET fresh
        /\ \A f \in Frames \ fresh : frame'[f] = frame[f]
        /\ \A i \in 1 .. k : stack[i] = stack'[i]
        /\ k \in 1 .. top
    BY <1>1, <1>2
  <2>2. LivePos(stack, frame, fresh, k)
    BY <2>1 DEF LiveInv
  <2> QED
    BY <2>1, <2>2, LiveKept
<1>4. Sound(stack', front', k + 1)
  <2> DEFINE n == k + 1
  <2>1. n \in Nat /\ \A i \in 1 .. n - 1 : stack[i] = stack'[i]
    BY <1>2
  <2>2. Sound(stack, front', n)
    OBVIOUS
  <2> HIDE DEF n
  <2>3. Sound(stack', front', n)
    BY <2>1, <2>2, SoundPrefix
  <2> QED
    BY <2>3 DEF n
<1>5. /\ frame' \in [Frames -> Frame] /\ fresh' \subseteq fresh
      /\ \A f \in Frames \ fresh : frame'[f] = frame[f]
      /\ \A i \in 1 .. k - 1 : stack'[i] = stack[i]
  BY <1>2 DEF LiveInv, TypeOK
<1> QED
  BY <1>1, <1>2, <1>3, <1>4, <1>5, LiveSettle

(* Guards on the stack are told apart by their frames.                     *)
LEMMA LiveUnique ==
  ASSUME LiveInv, NEW i \in 1 .. top, NEW j \in 1 .. top,
         stack[i].pc \in GuardPCs, stack[j].pc \in GuardPCs,
         stack[i].f = stack[j].f
  PROVE  i = j
<1>1. CASE i < j
  <2>1. i \in 1 .. j - 1
    BY <1>1
  <2> QED
    BY <2>1 DEF LiveInv, LivePos, OwnFrame
<1>2. CASE j < i
  <2>1. j \in 1 .. i - 1
    BY <1>2
  <2> QED
    BY <2>1 DEF LiveInv, LivePos, OwnFrame
<1> QED
  BY <1>1, <1>2

(* The frame a raise at the top of the stack has in hand.                  *)
LEMMA LiveHolds ==
  ASSUME LiveInv, NEW p \in {"walk", "decider", "abandoned"}, At(p),
         stack[top].f # NULL
  PROVE  \E m \in 1 .. top - 1 :
           /\ stack[m].pc \in ActivePCs /\ stack[m].f = stack[top].f
           /\ ~Masked(stack, m, top) /\ LivePos(stack, frame, fresh, m)
           /\ stack[m].f \in Frames
<1>1. top \in Nat \ {0} /\ stack[top].pc = p /\ LivePos(stack, frame, fresh, top)
  BY LiveTop
<1>2. Sound(stack, stack[top].f, top)
  BY <1>1 DEF LivePos
<1>3. PICK m \in 1 .. top - 1 :
        /\ stack[m].pc \in ActivePCs /\ stack[m].f = stack[top].f
        /\ ~Masked(stack, m, top)
  BY <1>2 DEF Sound
<1>4. m \in 1 .. top
  BY <1>1
<1>5. LivePos(stack, frame, fresh, m)
  BY <1>4 DEF LiveInv
<1>6. stack[m].f \in Frames
  BY <1>3, <1>5 DEF LivePos, OwnFrame, GuardPCs, ActivePCs
<1> QED
  BY <1>3, <1>5, <1>6

(* No raise holds a frame whose sigguarded() is gone.                      *)
LEMMA LiveNoDead == LiveInv => ~DeadFrameInHand
<1> SUFFICES ASSUME LiveInv, NEW i \in 1 .. top,
                    stack[i].pc \in {"walk", "decider", "abandoned"},
                    Dead(stack[i].f)
             PROVE  FALSE
  BY DEF DeadFrameInHand
<1>1. Sound(stack, stack[i].f, i) /\ stack[i].f # NULL /\ top \in Nat
  BY DEF LiveInv, LivePos, Dead, TypeOK, top
<1>2. PICK m \in 1 .. i - 1 : stack[m].pc \in ActivePCs /\ stack[m].f = stack[i].f
  BY <1>1 DEF Sound
<1>3. m \in Guards
  BY <1>1, <1>2 DEF Guards, GuardPCs, ActivePCs
<1> QED
  BY <1>2, <1>3 DEF Dead

-----------------------------------------------------------------------------
(* The frame goes to the front.                                            *)
LEMMA GuardEnteredLive == LiveInv /\ GuardEntered => LiveInv'
<1> SUFFICES ASSUME LiveInv, GuardEntered PROVE LiveInv'
  OBVIOUS
<1> DEFINE act == [stack[top] EXCEPT !.pc = "guarded"]
<1>1. /\ At("enter") /\ front' = stack[top].f /\ Goto(act)
      /\ UNCHANGED <<frame, fresh>>
  BY DEF GuardEntered
<1>2. /\ top \in Nat \ {0} /\ stack[top] \in Activation
      /\ stack[top].pc = "enter" /\ LivePos(stack, frame, fresh, top)
  BY <1>1, LiveTop
<1>3. act \in Activation /\ act.pc = "guarded" /\ act.f = stack[top].f
  BY <1>2, PCLiterals, ActivationExcept DEF Activation
<1> HIDE DEF act
<1>4. stack'[top] = act /\ \A i \in 1 .. top - 1 : stack'[i] = stack[i]
  BY <1>1, <1>3, LiveRewrite
<1>5. LivePos(stack', frame, fresh, top)
  BY <1>2, <1>3, <1>4, LiveGuardMoves DEF GuardPCs
<1>6. Sound(stack', front', top + 1)
  <2>1. top \in 1 .. (top + 1) - 1 /\ stack'[top].pc \in ActivePCs
        /\ stack'[top].f = front'
    BY <1>1, <1>2, <1>3, <1>4 DEF ActivePCs
  <2>2. ~Masked(stack', top, top + 1)
    <3> SUFFICES ASSUME Masked(stack', top, top + 1) PROVE FALSE
      OBVIOUS
    <3>1. PICK r \in 1 .. (top + 1) - 1 :
            stack'[r].pc = "abandoned" /\ top <= r
      BY DEF Masked
    <3>2. r = top
      BY <1>2, <3>1
    <3> QED
      BY <1>3, <1>4, <3>1, <3>2
  <2> QED
    BY <2>1, <2>2 DEF Sound
<1>7. front' \in Frames \cup {NULL}
  BY <1>1, <1>2 DEF Activation
<1> QED
  BY <1>1, <1>3, <1>5, <1>6, <1>7, LiveRewriteSettles

(* After a longjmp() front is the frame's prev.                            *)
LEMMA GuardLandedLive == LiveInv /\ GuardLanded => LiveInv'
<1> SUFFICES ASSUME LiveInv, GuardLanded PROVE LiveInv'
  OBVIOUS
<1> DEFINE act == [stack[top] EXCEPT !.pc = "recovery"]
           p == frame[stack[top].f].prev
<1>1. /\ At("landed") /\ front' = p /\ Goto(act)
      /\ UNCHANGED <<frame, fresh>>
  BY DEF GuardLanded
<1>2. /\ top \in Nat \ {0} /\ stack[top] \in Activation /\ top \in Nat
      /\ stack[top].pc = "landed" /\ LivePos(stack, frame, fresh, top)
  BY <1>1, LiveTop
<1>3. act \in Activation /\ act.pc = "recovery" /\ act.f = stack[top].f
  BY <1>2, PCLiterals, ActivationExcept DEF Activation
<1> HIDE DEF act
<1>4. stack'[top] = act /\ \A i \in 1 .. top - 1 : stack[i] = stack'[i]
  BY <1>1, <1>3, LiveRewrite
<1>5. LivePos(stack', frame, fresh, top)
  BY <1>2, <1>3, <1>4, LiveGuardMoves DEF GuardPCs
<1>6. Sound(stack, p, top) /\ p \in Frames \cup {NULL}
  BY <1>2 DEF LivePos, OwnFrame, GuardPCs, LiveInv, TypeOK, Frame
<1> HIDE DEF p
<1>7. Sound(stack', p, top)
  BY <1>2, <1>4, <1>6, SoundPrefix
<1>8. Sound(stack', p, top + 1)
  BY <1>2, <1>3, <1>4, <1>7, SoundExtend
<1> QED
  BY <1>1, <1>3, <1>5, <1>6, <1>8, LiveRewriteSettles

(* The activations that return.                                            *)
LEMMA ReturnsLive ==
  ASSUME LiveInv,
         GuardedReturns \/ RecoveryReturns \/ RaiseReturns \/ DeciderResumes
  PROVE  LiveInv'
<1>1. PICK p \in {"guarded", "recovery", "global", "decider"} :
        /\ At(p) /\ Pop /\ UNCHANGED <<frame, fresh>>
        /\ front' = IF p = "guarded" THEN frame[stack[top].f].prev ELSE front
  BY DEF GuardedReturns, RecoveryReturns, RaiseReturns, DeciderResumes
<1>2. /\ top \in Nat \ {0} /\ stack[top].pc = p
      /\ LivePos(stack, frame, fresh, top)
      /\ Sound(stack, front, top + 1)
  BY <1>1, LiveTop
<1>3. Sound(stack, front', top) /\ front' \in Frames \cup {NULL}
  <2>1. CASE p = "guarded"
    BY <1>1, <1>2, <2>1 DEF LivePos, OwnFrame, GuardPCs, LiveInv, TypeOK, Frame
  <2>2. CASE p # "guarded"
    <3>1. stack[top].pc \notin ActivePCs /\ front' = front
      BY <1>1, <1>2, <2>2 DEF ActivePCs
    <3>2. front \in Frames \cup {NULL}
      BY DEF LiveInv, TypeOK
    <3> QED
      BY <1>2, <3>1, <3>2, SoundDrop
  <2> QED
    BY <2>1, <2>2
<1> DEFINE k == top - 1
<1>4. k \in Nat /\ k < top /\ k + 1 = top /\ stack' = SubSeq(stack, 1, k)
  BY <1>1, <1>2 DEF Pop, Front, top
<1>5. Sound(stack, front', k + 1)
  BY <1>3, <1>4
<1> HIDE DEF k
<1> QED
  BY <1>1, <1>3, <1>4, <1>5, LiveCutSettles

(* A raise at the top moves on with a sound pointer, and front is the same *)
(* or was sound before the raise.                                          *)
LEMMA RaiseMoves ==
  ASSUME LiveInv, NEW p \in {"walk", "decider", "abandoned"}, At(p),
         NEW act \in Activation, Goto(act), UNCHANGED <<frame, fresh>>,
         act.pc \in {"walk", "decider", "global", "aborted"},
         act.pc = "walk" => Sound(stack, act.f, top),
         act.pc = "decider" => act.f = stack[top].f /\ act.f # NULL,
         front' = front \/ front' = stack[top].f
  PROVE  LiveInv'
<1>1. /\ top \in Nat \ {0} /\ top \in Nat /\ stack[top].pc = p
      /\ stack[top] \in Activation
      /\ LivePos(stack, frame, fresh, top) /\ Sound(stack, front, top + 1)
  BY LiveTop
<1>2. stack'[top] = act /\ \A i \in 1 .. top - 1 : stack[i] = stack'[i]
  BY LiveRewrite
<1>3. Sound(stack, stack[top].f, top)
  BY <1>1 DEF LivePos
<1>4. Sound(stack, front, top)
  BY <1>1, SoundDrop DEF ActivePCs
<1>5. Sound(stack', front', top)
  BY <1>1, <1>2, <1>3, <1>4, SoundPrefix
<1>6. Sound(stack', front', top + 1)
  BY <1>1, <1>2, <1>5, SoundExtend
<1>7. act.pc \in {"walk", "decider"} => Sound(stack', act.f, top)
  BY <1>1, <1>2, <1>3, SoundPrefix
<1>8. LivePos(stack', frame, fresh, top)
  BY <1>2, <1>7 DEF LivePos, OwnFrame, GuardPCs
<1>9. front' \in Frames \cup {NULL}
  BY <1>1 DEF LiveInv, TypeOK, Activation
<1> QED
  BY <1>6, <1>8, <1>9, LiveRewriteSettles

(* The walk goes on to the next frame outwards.                            *)
LEMMA OutwardsLive == LiveInv /\ (WalkSkip \/ DeciderNext) => LiveInv'
<1> SUFFICES ASSUME LiveInv, WalkSkip \/ DeciderNext PROVE LiveInv'
  OBVIOUS
<1> DEFINE g == frame[stack[top].f].prev
<1>1. PICK p \in {"walk", "decider"} : At(p)
  BY DEF WalkSkip, DeciderNext
<1>2. /\ top \in Nat /\ stack[top] \in Activation /\ stack[top].pc = p
      /\ LivePos(stack, frame, fresh, top) /\ stack[top].pc \in {"walk", "decider"}
  BY <1>1, LiveTop
<1>3. stack[top].f # NULL /\ UNCHANGED <<front, frame, fresh>>
  BY <1>2 DEF WalkSkip, DeciderNext, LivePos, At
<1>4. PICK m \in 1 .. top - 1 :
        /\ stack[m].pc \in ActivePCs /\ stack[m].f = stack[top].f
        /\ ~Masked(stack, m, top) /\ LivePos(stack, frame, fresh, m)
        /\ stack[m].f \in Frames
  BY <1>1, <1>3, LiveHolds
<1>5. Sound(stack, g, top)
  <2>1. Sound(stack, frame[stack[m].f].prev, top)
    BY <1>2, <1>4, SoundOutward
  <2> QED
    BY <1>4, <2>1
<1>6. g \in Frames \cup {NULL}
  BY <1>4 DEF LiveInv, TypeOK, Frame
<1> HIDE DEF g
<1>7. PICK act \in Activation : Goto(act) /\ act.pc = "walk" /\ act.f = g
  <2>1. CASE WalkSkip
    <3> DEFINE a == [stack[top] EXCEPT !.f = g]
    <3>1. Goto(a) /\ stack[top].pc = "walk"
      BY <2>1 DEF WalkSkip, At, g
    <3>2. a \in Activation
      BY <1>2, <1>6, PCLiterals, ActivationExcept
    <3>3. a.pc = stack[top].pc /\ a.f = g
      BY <1>2 DEF Activation
    <3> QED
      BY <3>1, <3>2, <3>3
  <2>2. CASE DeciderNext
    <3> DEFINE a == [stack[top] EXCEPT !.pc = "walk", !.f = g]
    <3>1. Goto(a)
      BY <2>2 DEF DeciderNext, g
    <3>2. a \in Activation
      BY <1>2, <1>6, PCLiterals, ActivationExcept
    <3>3. a.pc = "walk" /\ a.f = g
      BY <1>2 DEF Activation
    <3> QED
      BY <3>1, <3>2, <3>3
  <2> QED
    BY <2>1, <2>2
<1> QED
  BY <1>1, <1>3, <1>5, <1>7, RaiseMoves

(* The other moves of a raise that keeps its frame.                        *)
LEMMA RaiseLive ==
  ASSUME LiveInv, WalkCall \/ WalkEnd \/ AbandonResume
  PROVE  LiveInv'
<1>1. PICK p \in {"walk", "abandoned"} : At(p)
  BY DEF WalkCall, WalkEnd, AbandonResume
<1>2. /\ stack[top] \in Activation /\ stack[top].pc = p
      /\ LivePos(stack, frame, fresh, top)
  BY <1>1, LiveTop
<1>3. UNCHANGED <<frame, fresh>> /\ (front' = front \/ front' = stack[top].f)
  BY DEF WalkCall, WalkEnd, AbandonResume
<1>4. CASE WalkCall
  <2> DEFINE C == stack[top].called \cup {stack[top].f}
             act == [stack[top] EXCEPT !.pc = "decider", !.called = C]
  <2>1. Goto(act) /\ stack[top].f # NULL
    BY <1>4 DEF WalkCall
  <2>2. act \in Activation
    <3>1. C \in SUBSET Frames
      BY <1>2, <2>1 DEF Activation
    <3> QED
      BY <1>2, <3>1, PCLiterals, ActivationExcept
  <2>3. act.pc = "decider" /\ act.f = stack[top].f
    BY <1>2 DEF Activation
  <2> HIDE DEF act
  <2> QED
    BY <1>1, <1>3, <2>1, <2>2, <2>3, RaiseMoves
<1>5. CASE WalkEnd
  <2> DEFINE act == [stack[top] EXCEPT !.pc = "global"]
  <2>1. Goto(act)
    BY <1>5 DEF WalkEnd
  <2>2. act \in Activation /\ act.pc = "global"
    BY <1>2, PCLiterals, ActivationExcept DEF Activation
  <2> HIDE DEF act
  <2> QED
    BY <1>1, <1>3, <2>1, <2>2, RaiseMoves
<1>6. CASE AbandonResume
  <2>1. stack[top].f # NULL
    BY <1>2, <1>6 DEF AbandonResume, At, LivePos
  <2> DEFINE a == [stack[top] EXCEPT !.pc = "decider"]
             b == [stack[top] EXCEPT !.pc = "aborted"]
  <2>2. Goto(a) \/ Goto(b)
    BY <1>6 DEF AbandonResume
  <2>3. /\ a \in Activation /\ a.pc = "decider" /\ a.f = stack[top].f
        /\ b \in Activation /\ b.pc = "aborted"
    BY <1>2, PCLiterals, ActivationExcept DEF Activation
  <2> HIDE DEF a, b
  <2>4. CASE Goto(a)
    BY <1>1, <1>3, <2>1, <2>3, <2>4, RaiseMoves
  <2>5. CASE Goto(b)
    BY <1>1, <1>3, <2>3, <2>5, RaiseMoves
  <2> QED
    BY <2>2, <2>4, <2>5
<1> QED
  BY <1>4, <1>5, <1>6

(* The frame of a decider that abandons is taken off the front.            *)
LEMMA AbandonLive == LiveInv /\ Abandon => LiveInv'
<1> SUFFICES ASSUME LiveInv, Abandon PROVE LiveInv'
  OBVIOUS
<1> DEFINE act == [stack[top] EXCEPT !.pc = "abandoned"]
           g == frame[stack[top].f].prev
<1>1. /\ At("decider") /\ Goto(act) /\ front' = g /\ UNCHANGED <<frame, fresh>>
  BY DEF Abandon
<1>2. /\ top \in Nat \ {0} /\ top \in Nat /\ stack[top] \in Activation
      /\ stack[top].pc = "decider" /\ LivePos(stack, frame, fresh, top)
  BY <1>1, LiveTop
<1>3. act \in Activation /\ act.pc = "abandoned" /\ act.f = stack[top].f
  BY <1>2, PCLiterals, ActivationExcept DEF Activation
<1> HIDE DEF act
<1>4. stack'[top] = act /\ \A i \in 1 .. top - 1 : stack[i] = stack'[i]
  BY <1>1, <1>3, LiveRewrite
<1>5. Sound(stack, stack[top].f, top) /\ stack[top].f # NULL
  BY <1>2 DEF LivePos
<1>6. Sound(stack', stack[top].f, top)
  BY <1>2, <1>4, <1>5, SoundPrefix
<1>7. LivePos(stack', frame, fresh, top)
  BY <1>3, <1>4, <1>5, <1>6 DEF LivePos, OwnFrame, GuardPCs
<1>8. PICK m \in 1 .. top - 1 :
        /\ stack[m].pc \in ActivePCs /\ stack[m].f = stack[top].f
        /\ ~Masked(stack, m, top) /\ LivePos(stack, frame, fresh, m)
        /\ stack[m].f \in Frames
  BY <1>1, <1>5, LiveHolds
<1>9. g \in Frames \cup {NULL}
  BY <1>8 DEF LiveInv, TypeOK, Frame
<1>10. g # NULL => \E q \in 1 .. m - 1 : /\ stack[q].pc \in ActivePCs
                                        /\ stack[q].f = g
                                        /\ ~Masked(stack, q, top)
  <2>1. frame[stack[m].f].prev # NULL =>
          \E q \in 1 .. m - 1 : /\ stack[q].pc \in ActivePCs
                                /\ stack[q].f = frame[stack[m].f].prev
                                /\ ~Masked(stack, q, top)
    BY <1>2, <1>8, SoundOutward
  <2> QED
    BY <1>8, <2>1
<1> HIDE DEF g
<1>11. Sound(stack', g, top + 1)
  <2>1. CASE g = NULL
    BY <2>1 DEF Sound
  <2>2. CASE g # NULL
    <3>1. PICK q \in 1 .. m - 1 : /\ stack[q].pc \in ActivePCs /\ stack[q].f = g
                                  /\ ~Masked(stack, q, top)
      BY <1>10, <2>2
    <3>2. q \in 1 .. (top + 1) - 1 /\ stack'[q] = stack[q] /\ q < m /\ m < top
      BY <1>2, <1>4, <1>8, <3>1
    <3>3. ASSUME Masked(stack', q, top + 1) PROVE FALSE
      <4>1. PICK r \in 1 .. top, h \in 1 .. top :
              /\ stack'[r].pc = "abandoned" /\ stack'[h].pc \in GuardPCs
              /\ stack'[h].f = stack'[r].f /\ h <= q /\ q <= r
        BY <1>2, <3>3 DEF Masked
      <4>2. h \in 1 .. top - 1 /\ stack'[h] = stack[h] /\ h # m
        BY <1>2, <1>4, <3>2, <4>1
      <4>3. CASE r = top
        <5>1. stack[h].f = stack[m].f /\ stack[h].pc \in GuardPCs
              /\ stack[m].pc \in GuardPCs
          BY <1>3, <1>4, <1>8, <4>1, <4>2, <4>3 DEF GuardPCs, ActivePCs
        <5>2. h \in 1 .. top /\ m \in 1 .. top
          BY <1>2, <1>8, <4>2
        <5> QED
          BY <4>2, <5>1, <5>2, LiveUnique
      <4>4. CASE r # top
        <5>1. r \in 1 .. top - 1 /\ stack'[r] = stack[r]
          BY <1>2, <1>4, <4>1, <4>4
        <5> QED
          BY <3>1, <4>1, <4>2, <5>1 DEF Masked
      <4> QED
        BY <4>3, <4>4
    <3> QED
      BY <3>1, <3>2, <3>3 DEF Sound
  <2> QED
    BY <2>1, <2>2
<1> QED
  BY <1>1, <1>3, <1>7, <1>9, <1>11, LiveRewriteSettles

(* A jump does not take with it the guard that front names: that one would *)
(* be abandoned, and then nothing points to it.                            *)
LEMMA LeaveAbandonedLive == LiveInv /\ LeaveAbandoned => LiveInv'
<1> SUFFICES ASSUME LiveInv, LeaveAbandoned PROVE LiveInv'
  OBVIOUS
<1>1. At("abandoned") /\ UNCHANGED <<front, frame, fresh>>
  BY DEF LeaveAbandoned
<1>2. PICK k \in 0 .. top - 1 :
        /\ \A i \in k + 1 .. top : stack[i].pc \in ActivePCs => Abandoned(i)
        /\ stack' = SubSeq(stack, 1, k)
  BY DEF LeaveAbandoned
<1>3. top \in Nat \ {0} /\ Sound(stack, front, top + 1)
  BY <1>1, LiveTop
<1>4. k \in Nat /\ k < top
  BY <1>3
<1>5. Sound(stack, front, k + 1)
  <2>1. CASE front = NULL
    BY <2>1 DEF Sound
  <2>2. CASE front # NULL
    <3>1. PICK m \in 1 .. (top + 1) - 1 :
            /\ stack[m].pc \in ActivePCs /\ stack[m].f = front
            /\ ~Masked(stack, m, top + 1)
      BY <1>3, <2>2 DEF Sound
    <3>2. m \in 1 .. top /\ stack[m].pc \in GuardPCs
      BY <1>3, <3>1 DEF GuardPCs, ActivePCs
    <3>3. ASSUME Abandoned(m) PROVE FALSE
      <4>1. PICK j \in m + 1 .. top : stack[j].pc = "abandoned"
                                      /\ stack[j].f = stack[m].f
        BY <3>3 DEF Abandoned
      <4>2. /\ j \in 1 .. (top + 1) - 1 /\ m \in 1 .. (top + 1) - 1
            /\ m <= m /\ m <= j
        BY <1>3, <3>2, <4>1
      <4> QED
        BY <3>1, <3>2, <4>1, <4>2 DEF Masked
    <3>4. m \in 1 .. (k + 1) - 1
      BY <1>2, <1>3, <1>4, <3>1, <3>2, <3>3
    <3>5. k + 1 \in Nat /\ top + 1 \in Nat /\ k + 1 <= top + 1
      BY <1>3, <1>4
    <3>6. ~Masked(stack, m, k + 1)
      BY <3>1, <3>5, MaskedGrows
    <3> QED
      BY <3>1, <3>4, <3>6 DEF Sound
  <2> QED
    BY <2>1, <2>2
<1>6. front' \in Frames \cup {NULL} /\ Sound(stack, front', k + 1)
  BY <1>1, <1>5 DEF LiveInv, TypeOK
<1> QED
  BY <1>1, <1>2, <1>4, <1>6, LiveCutSettles

(* A longjmp() lands in a guard that was active, with front on that guard, *)
(* on one further out or on one that was jumped over.                      *)
LEMMA DeciderRecoversLive == LiveInv /\ DeciderRecovers => LiveInv'
<1> SUFFICES ASSUME LiveInv, DeciderRecovers PROVE LiveInv'
  OBVIOUS
<1>1. /\ At("decider") /\ UNCHANGED <<front, frame, fresh>>
      /\ \E i \in Guards :
           /\ stack[i].f = stack[top].f
           /\ stack' = [SubSeq(stack, 1, i) EXCEPT ![i].pc = "landed"]
  BY DEF DeciderRecovers
<1>2. /\ top \in Nat \ {0} /\ TypeOK /\ stack[top].pc = "decider"
      /\ LivePos(stack, frame, fresh, top) /\ Sound(stack, front, top + 1)
  BY <1>1, LiveTop DEF LiveInv
<1>3. stack[top].f # NULL
  BY <1>2 DEF LivePos
<1>4. PICK m \in 1 .. top - 1 :
        /\ stack[m].pc \in ActivePCs /\ stack[m].f = stack[top].f
        /\ LivePos(stack, frame, fresh, m)
  BY <1>1, <1>3, LiveHolds
<1>5. \A i \in Guards : stack[i].f = stack[top].f => i = m
  BY <1>2, <1>4, LiveUnique DEF Guards, GuardPCs, ActivePCs
<1> DEFINE c == SubSeq(stack, 1, m)
           act == [c[m] EXCEPT !.pc = "landed"]
<1>6. stack' = [c EXCEPT ![m] = act]
  BY <1>1, <1>5
<1>7. /\ m \in 1 .. m /\ m <= top /\ m \in 1 .. top /\ m \in 0 .. top + 1
      /\ m \in Nat \ {0} /\ m \in Nat
  BY <1>2, <1>4
<1>8. c \in Seq(Activation) /\ Len(c) = m /\ \A i \in 1 .. m : c[i] = stack[i]
  BY <1>2, <1>7, Cut
<1> HIDE DEF c
<1>9. c[m] \in Activation
  BY <1>7, <1>8, ElementOfSeq
<1>10. act \in Activation /\ act.pc = "landed" /\ act.f = stack[m].f
  <2>1. act \in Activation
    BY <1>9, PCLiterals, ActivationExcept
  <2>2. act.pc = "landed" /\ act.f = c[m].f
    BY <1>9 DEF Activation
  <2>3. c[m] = stack[m]
    BY <1>7, <1>8
  <2> QED
    BY <2>1, <2>2, <2>3
<1> HIDE DEF act
<1>11. /\ stack' \in Seq(Activation) /\ Len(stack') = m
       /\ \A j \in 1 .. m : stack'[j] = IF j = m THEN act ELSE c[j]
  BY <1>6, <1>7, <1>8, <1>10, ExceptSeq
<1>12. stack'[m] = act /\ \A i \in 1 .. m - 1 : stack'[i] = stack[i]
  BY <1>7, <1>8, <1>11
<1>13. LivePos(stack', frame, fresh, m)
  BY <1>4, <1>7, <1>10, <1>12, LiveGuardMoves DEF GuardPCs, ActivePCs
<1>14. /\ frame' \in [Frames -> Frame] /\ fresh' \subseteq fresh
       /\ \A f \in Frames \ fresh : frame'[f] = frame[f]
       /\ front' \in Frames \cup {NULL}
  BY <1>1 DEF LiveInv, TypeOK
<1>15. m > 0 /\ stack'[m].pc = "landed"
  BY <1>7, <1>10, <1>12
<1>17. LivePos(stack', frame', fresh', m)
  BY <1>1, <1>13
<1>16. Sound(stack', front', m + 1) \/ Dead(front)'
  <2>1. CASE front = NULL
    BY <1>1, <2>1 DEF Sound
  <2>2. CASE front # NULL
    <3>1. PICK q \in 1 .. (top + 1) - 1 :
            /\ stack[q].pc \in ActivePCs /\ stack[q].f = front
            /\ ~Masked(stack, q, top + 1)
      BY <1>2, <2>2 DEF Sound
    <3>2. q \in 1 .. top /\ stack[q].pc \in GuardPCs
      BY <1>2, <3>1 DEF GuardPCs, ActivePCs
    <3>3. CASE q <= m
      <4>1. q \in 1 .. (m + 1) - 1
        BY <1>7, <3>2, <3>3
      <4>2. stack'[q].pc \in ActivePCs /\ stack'[q].f = front
        <5>1. CASE q = m
          BY <1>10, <1>12, <3>1, <5>1 DEF ActivePCs
        <5>2. CASE q # m
          BY <1>12, <3>1, <3>2, <3>3, <5>2
        <5> QED
          BY <5>1, <5>2
      <4>3. ASSUME Masked(stack', q, m + 1) PROVE FALSE
        <5>1. PICK r \in 1 .. m, h \in 1 .. m :
                /\ stack'[r].pc = "abandoned" /\ stack'[h].pc \in GuardPCs
                /\ stack'[h].f = stack'[r].f /\ h <= q /\ q <= r
          BY <1>7, <4>3 DEF Masked
        <5>2. r # m
          BY <1>15, <5>1
        <5>3. stack[r] = stack'[r]
          BY <1>12, <5>1, <5>2
        <5>4. stack[h].pc \in GuardPCs /\ stack[h].f = stack'[h].f
          <6>1. CASE h = m
            BY <1>4, <1>10, <1>12, <6>1 DEF GuardPCs, ActivePCs
          <6>2. CASE h # m
            BY <1>12, <5>1, <6>2
          <6> QED
            BY <6>1, <6>2
        <5>5. r \in 1 .. (top + 1) - 1 /\ h \in 1 .. (top + 1) - 1
          BY <1>2, <1>7, <5>1
        <5> QED
          BY <3>1, <5>1, <5>3, <5>4, <5>5 DEF Masked
      <4> QED
        BY <1>1, <4>1, <4>2, <4>3 DEF Sound
    <3>4. CASE q > m
      <4>1. ASSUME NEW i \in Guards' PROVE stack'[i].f # front
        <5>1. i \in 1 .. m /\ stack'[i].pc \in GuardPCs
          BY <1>11 DEF Guards, top
        <5>2. stack[i].pc \in GuardPCs /\ stack'[i].f = stack[i].f
          <6>1. CASE i = m
            BY <1>4, <1>10, <1>12, <6>1 DEF GuardPCs, ActivePCs
          <6>2. CASE i # m
            BY <1>12, <5>1, <6>2
          <6> QED
            BY <6>1, <6>2
        <5>3. i \in 1 .. top /\ i # q
          BY <1>2, <1>7, <3>4, <5>1
        <5> QED
          BY <3>1, <3>2, <5>2, <5>3, LiveUnique
      <4> QED
        BY <1>1, <2>2, <4>1 DEF Dead
    <3> QED
      BY <1>7, <3>2, <3>3, <3>4
  <2> QED
    BY <2>1, <2>2
<1> QED
  BY <1>7, <1>11, <1>12, <1>14, <1>15, <1>16, <1>17, LiveSettle

(* A pushed activation that satisfies the invariant and is not active.     *)
LEMMA LivePushSettles ==
  ASSUME LiveInv, NEW act \in Activation, stack' = Append(stack, act),
         Sound(stack, front, top + 1), act.pc \in {"enter", "walk"},
         front' = front, frame' \in [Frames -> Frame], fresh' \subseteq fresh,
         \A f \in Frames \ fresh : frame'[f] = frame[f],
         act.pc = "enter" => /\ act.f \in Frames \ fresh'
                             /\ act.f \in fresh
                             /\ frame'[act.f].prev = front,
         act.pc = "walk" => act.f = front
  PROVE  LiveInv'
<1> DEFINE k == top + 1
<1>1. /\ top \in Nat /\ k \in Nat \ {0} /\ k \in Nat /\ k \in 0 .. top + 1
      /\ k - 1 = top /\ TypeOK
  BY DEF LiveInv, TypeOK, top
<1>2. /\ stack' \in Seq(Activation) /\ Len(stack') = k
      /\ \A i \in 1 .. top : stack'[i] = stack[i]
      /\ stack'[k] = act
  BY <1>1, Push
<1>3. \A i \in 1 .. k - 1 : stack'[i] = stack[i] /\ stack[i] = stack'[i]
  BY <1>1, <1>2
<1>4. Sound(stack, front, k)
  OBVIOUS
<1>5. \A j \in 1 .. top : stack[j].pc \in GuardPCs => stack[j].f \notin fresh
  BY DEF LiveInv, LivePos, OwnFrame
<1> HIDE DEF k
<1>6. Sound(stack', front, k)
  BY <1>1, <1>3, <1>4, SoundPrefix
<1>7. Sound(stack', front', k + 1)
  BY <1>1, <1>2, <1>6, SoundExtend
<1>8. OwnFrame(stack', fresh', k)
  BY <1>1, <1>2, <1>3, <1>5 DEF OwnFrame, GuardPCs
<1>9. LivePos(stack', frame', fresh', k)
  BY <1>2, <1>6, <1>8 DEF LivePos, GuardPCs
<1>10. front' \in Frames \cup {NULL}
  BY DEF LiveInv, TypeOK
<1> QED
  BY <1>1, <1>2, <1>3, <1>7, <1>9, <1>10, LiveSettle

(* A new frame is linked to the one front names.                           *)
LEMMA SigguardedLive == LiveInv /\ Sigguarded => LiveInv'
<1> SUFFICES ASSUME LiveInv, Sigguarded PROVE LiveInv'
  OBVIOUS
<1>1. PICK f \in fresh, S \in SUBSET Signals, rec \in BOOLEAN :
        /\ frame' = [frame EXCEPT ![f] = [prev |-> front, guarded |-> S,
                                          recovery |-> rec]]
        /\ fresh' = fresh \ {f}
        /\ stack' = Append(stack, [pc |-> "enter", f |-> f, signo |-> NULL,
                                   called |-> {}])
  BY DEF Sigguarded
<1> DEFINE act == [pc |-> "enter", f |-> f, signo |-> NULL, called |-> {}]
<1>2. /\ front' = front /\ f \in Frames /\ front \in Frames \cup {NULL}
      /\ frame \in [Frames -> Frame]
  BY DEF Sigguarded, LiveInv, TypeOK
<1>3. Sound(stack, front, top + 1)
  BY DEF Sigguarded, InUserCode, LibraryPCs, LiveInv, FrontSound
<1>4. act \in Activation /\ act.pc = "enter" /\ act.f = f
  BY <1>2, PCLiterals, NewActivation
<1>5. /\ frame' \in [Frames -> Frame] /\ frame'[f].prev = front
      /\ \A g \in Frames \ fresh : frame'[g] = frame[g]
  <2>1. [prev |-> front, guarded |-> S, recovery |-> rec] \in Frame
    BY <1>2 DEF Frame
  <2> QED
    BY <1>1, <1>2, <2>1
<1>6. stack' = Append(stack, act)
  BY <1>1
<1> HIDE DEF act
<1>7. /\ fresh' \subseteq fresh /\ f \in Frames \ fresh' /\ f \in fresh
      /\ "enter" # "walk"
  BY <1>1, <1>2
<1> QED
  BY <1>2, <1>3, <1>4, <1>5, <1>6, <1>7, LivePushSettles

(* A raise starts at the frame front names.                                *)
LEMMA StdcRaiseLive ==
  ASSUME LiveInv, StdcRaise
  PROVE  LiveInv' \/ StruckInv'
<1>1. PICK s \in Signals :
        stack' = Append(stack, [pc |-> "walk", f |-> front, signo |-> s,
                                called |-> {}])
  BY DEF StdcRaise
<1> DEFINE act == [pc |-> "walk", f |-> front, signo |-> s, called |-> {}]
           k == top + 1
<1>2. /\ UNCHANGED <<front, frame, fresh>> /\ front \in Frames \cup {NULL}
      /\ frame \in [Frames -> Frame] /\ TypeOK /\ top \in Nat
  BY DEF StdcRaise, LiveInv, TypeOK, top
<1>3. /\ act \in Activation /\ act.pc = "walk" /\ act.f = front
      /\ act.called = {}
  BY <1>2, PCLiterals, NewActivation
<1>4. stack' = Append(stack, act)
  BY <1>1
<1> HIDE DEF act
<1>5. CASE Sound(stack, front, top + 1)
  BY <1>2, <1>3, <1>4, <1>5, LivePushSettles
<1>6. CASE top > 0 /\ stack[top].pc = "landed" /\ Dead(front)
  <2>1. /\ stack' \in Seq(Activation) /\ Len(stack') = k
        /\ \A i \in 1 .. top : stack'[i] = stack[i]
        /\ stack'[k] = act
    BY <1>2, <1>3, <1>4, Push
  <2>2. /\ TypeOK' /\ top' = k /\ k \in 1 .. k /\ k > 1 /\ k - 1 = top
        /\ stack'[k].pc = "walk" /\ stack'[k].f = front
        /\ stack'[k].called = {} /\ stack'[k - 1].pc = "landed"
    BY <1>2, <1>3, <1>6, <2>1 DEF TypeOK, top
  <2>3. Dead(front)'
    <3>1. ASSUME NEW i \in Guards' PROVE stack'[i].f # front
      <4>1. i \in 1 .. k /\ stack'[i].pc \in GuardPCs
        BY <2>2 DEF Guards
      <4>2. i \in 1 .. top
        BY <1>2, <2>2, <4>1 DEF GuardPCs
      <4>3. i \in Guards /\ stack'[i] = stack[i]
        BY <2>1, <4>1, <4>2 DEF Guards
      <4> QED
        BY <1>6, <4>3 DEF Dead
    <3>2. front # NULL
      BY <1>6 DEF Dead
    <3> QED
      BY <1>2, <3>1, <3>2 DEF Dead
  <2>4. DeadFrameInHand'
    BY <1>2, <2>2, <2>3 DEF DeadFrameInHand, Dead
  <2>5. ASSUME NEW n \in 1 .. top' - 1 PROVE LivePos(stack', frame', fresh', n)
    <3>1. n \in 1 .. top /\ n \in Nat \ {0} /\ \A i \in 1 .. n : i \in 1 .. top
      BY <1>2, <2>2
    <3>2. /\ \A i \in 1 .. n : stack[i] = stack'[i]
          /\ LivePos(stack, frame, fresh, n)
      BY <2>1, <3>1 DEF LiveInv
    <3>3. fresh' \in SUBSET fresh
          /\ \A f \in Frames \ fresh : frame'[f] = frame[f]
      BY <1>2
    <3> QED
      BY <3>1, <3>2, <3>3, LiveKept
  <2>6. stack'[top'].f = front'
    BY <1>2, <2>2
  <2> QED
    BY <2>2, <2>4, <2>5, <2>6 DEF StruckInv
<1> QED
  BY <1>5, <1>6 DEF LiveInv, FrontSound

-----------------------------------------------------------------------------
(* The initial state satisfies the invariant.                              *)
LEMMA InitLive == Init => LiveInv
<1> SUFFICES ASSUME Init PROVE LiveInv
  OBVIOUS
<1>1. FrameInv
  BY InitFrameInv
<1>2. stack = <<>> /\ top = 0 /\ front = NULL
  BY DEF Init, top
<1> QED
  BY <1>1, <1>2 DEF FrameInv, LiveInv, FrontSound, Sound

(* Every step preserves it, or ends in a state where nothing happens.      *)
LEMMA NextLive == (LiveInv \/ StruckInv) /\ [Next]_vars => (LiveInv \/ StruckInv)'
<1> SUFFICES ASSUME LiveInv \/ StruckInv, [Next]_vars
             PROVE  LiveInv' \/ StruckInv'
  OBVIOUS
<1>1. ASSUME UNCHANGED vars PROVE LiveInv' \/ StruckInv'
  <2>1. CASE LiveInv
    BY <1>1, <2>1 DEF vars, LiveInv, TypeOK, top, FrontSound, Dead, Guards
  <2>2. CASE StruckInv
    BY <1>1, <2>2 DEF vars, StruckInv, TypeOK, top, DeadFrameInHand, Dead, Guards
  <2> QED
    BY <2>1, <2>2
<1>2. ASSUME StruckInv, Next PROVE UNCHANGED vars
  BY <1>2 DEF StruckInv, Next, Sigguarded, GuardEntered, GuardedReturns,
     GuardLanded, RecoveryReturns, StdcRaise, WalkSkip, WalkCall, WalkEnd,
     RaiseReturns, DeciderNext, DeciderResumes, DeciderRecovers, Abandon,
     AbandonResume, LeaveAbandoned, Stopped, At, InUserCode
<1>3. ASSUME LiveInv, Next PROVE LiveInv' \/ StruckInv' \/ UNCHANGED vars
  BY <1>3, SigguardedLive, GuardEnteredLive, GuardLandedLive, ReturnsLive,
     StdcRaiseLive, OutwardsLive, RaiseLive, DeciderRecoversLive, AbandonLive,
     LeaveAbandonedLive, Zenon DEF Next, Stopped
<1> QED
  BY <1>1, <1>2, <1>3

(* One of them holds in every state, whatever a client jumps to and        *)
(* wherever signals are delivered.                                         *)
LEMMA LiveInvariant == Spec => [](LiveInv \/ StruckInv)
  BY InitLive, NextLive, PTL DEF Spec

-----------------------------------------------------------------------------
(* The thread state of sigguarded() and stdc_raise() keeps its type: no    *)
(* walk reads a prev through NULL.                                         *)
THEOREM FramesTyped == Spec => []TypeOK
<1>1. LiveInv \/ StruckInv => TypeOK
  BY DEF LiveInv, StruckInv
<1> QED
  BY <1>1, LiveInvariant, PTL

(* The only raise that ever reads the frame of a sigguarded() that has     *)
(* returned or was jumped over is a signal delivered between the longjmp() *)
(* of a recovery and the store of tss->front that follows it.              *)
THEOREM DeadFramesOnlyInWindow == Spec => []DeadFrameOnlyInWindow
<1>1. LiveInv => DeadFrameOnlyInWindow
  BY LiveNoDead DEF DeadFrameOnlyInWindow
<1>2. StruckInv => DeadFrameOnlyInWindow
  <2> SUFFICES ASSUME StruckInv, NEW i \in 1 .. top - 1,
                      stack[i].pc \in {"walk", "decider", "abandoned"},
                      Dead(stack[i].f)
               PROVE  FALSE
    BY DEF StruckInv, DeadFrameOnlyInWindow
  <2>1. /\ Sound(stack, stack[i].f, i) /\ stack[i].f # NULL
        /\ top \in Nat
    BY DEF StruckInv, LivePos, Dead, TypeOK, top
  <2>2. PICK m \in 1 .. i - 1 : /\ stack[m].pc \in ActivePCs
                                /\ stack[m].f = stack[i].f
    BY <2>1 DEF Sound
  <2>3. m \in Guards
    BY <2>1, <2>2 DEF Guards, GuardPCs, ActivePCs
  <2> QED
    BY <2>2, <2>3 DEF Dead
<1> QED
  BY <1>1, <1>2, LiveInvariant, PTL
-----------------------------------------------------------------------------
(* tss->front is the innermost active sigguarded() of the C stack and each *)
(* frame's prev the innermost one around it, whatever raises, recoveries,  *)
(* abandons and resumes are nested, to any depth, where no client jumps    *)
(* back inside a sigguarded() it has abandoned.                            *)
THEOREM FrontInnermost ==
  ASSUME Jumps = "outside"
  PROVE  Spec => []FrontIsInnermost
<1>1. FrameInv \/ StoppedInv => FrontIsInnermost
  <2> SUFFICES ASSUME FrameInv \/ StoppedInv PROVE FrontIsInnermost
    OBVIOUS
  <2>1. TypeOK /\ top \in Nat
    BY DEF FrameInv, StoppedInv, TypeOK, top
  <2>2. top + 1 \in 1 .. top + 1 /\ \A i \in 1 .. top : i \in 1 .. top + 1
    BY <2>1
  <2>3. InnermostBelow(top + 1) = InnermostIn(stack, top + 1)
    BY <2>1, <2>2, InnermostSame
  <2>4. \/ front = InnermostBelow(top + 1)
        \/ top > 0 /\ stack[top].pc = "landed" /\ Dead(front)
        \/ DeadFrameInHand
    BY <2>3 DEF FrameInv, StoppedInv
  <2>5. ASSUME NEW i \in Guards
        PROVE  frame[stack[i].f].prev = InnermostBelow(i)
    <3>1. i \in 1 .. top /\ i \in 1 .. top + 1 /\ stack[i].pc \in GuardPCs
      BY <2>2 DEF Guards
    <3>2. InnermostBelow(i) = InnermostIn(stack, i)
      BY <2>1, <3>1, InnermostSame
    <3>3. Pos(stack, frame, fresh, i)
      <4>1. CASE FrameInv
        BY <3>1, <4>1 DEF FrameInv
      <4>2. CASE StoppedInv
        <5>1. i \in 1 .. top - 1
          BY <2>1, <3>1, <4>2 DEF StoppedInv, GuardPCs
        <5> QED
          BY <4>2, <5>1 DEF StoppedInv
      <4> QED
        BY <4>1, <4>2
    <3> QED
      BY <3>1, <3>2, <3>3 DEF Pos, GuardPos
  <2> QED
    BY <2>4, <2>5 DEF FrontIsInnermost
<1> QED
  BY <1>1, FrameInvariant, PTL

(* Every raise that reaches the global deciders has called the decider of  *)
(* every active sigguarded() around it that guards the signal, for the     *)
(* same clients.                                                           *)
THEOREM LocalBeforeGlobal ==
  ASSUME Jumps = "outside"
  PROVE  Spec => []LocalDecidersFirst
<1>1. FrameInv \/ StoppedInv => LocalDecidersFirst
  <2> SUFFICES ASSUME FrameInv \/ StoppedInv,
                      NEW n \in 1 .. top, stack[n].pc = "global",
                      NEW i \in ActiveBelow(n),
                      stack[n].signo \in frame[stack[i].f].guarded
               PROVE  stack[i].f \in stack[n].called
    BY DEF LocalDecidersFirst
  <2>1. TypeOK /\ n \in 1 .. top + 1 /\ top \in Nat
    BY DEF FrameInv, StoppedInv, TypeOK, top
  <2>2. i \in ActiveIn(stack, n)
    BY <2>1, ActiveSame
  <2>3. Pos(stack, frame, fresh, n)
    <3>1. CASE FrameInv
      BY <3>1 DEF FrameInv
    <3>2. CASE StoppedInv
      <4>1. n \in 1 .. top - 1
        BY <2>1, <3>2 DEF StoppedInv
      <4> QED
        BY <3>2, <4>1 DEF StoppedInv
    <3> QED
      BY <3>1, <3>2
  <2> QED
    BY <2>2, <2>3 DEF Pos, GlobalPos
<1> QED
  BY <1>1, FrameInvariant, PTL
=============================================================================
