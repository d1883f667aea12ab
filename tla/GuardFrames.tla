----------------------------- MODULE GuardFrames -----------------------------
(***************************************************************************)
(* The thread-local half of wg14_signals on POSIX: the chain of            *)
(* sigguarded() frames that starts at tss->front, the walk of stdc_raise() *)
(* along it, the longjmp() to a frame's recovery, and sigdecider_abandon() *)
(* and sigdecider_abandon_resume() from a frame's decider.                 *)
(*                                                                         *)
(* The frames live on the C stack of one thread, so one thread is all      *)
(* there is to model.  stack holds the activations of sigguarded() and     *)
(* stdc_raise() on it, the last one running; a signal delivered on the     *)
(* thread is a stdc_raise() pushed on whatever runs.  A non-local jump     *)
(* drops the activations above its target, and the frames of the dropped   *)
(* sigguarded() calls are dead.  Once an activation has a pointer to a     *)
(* dead frame in hand the behaviour is undefined and the specification     *)
(* stops.                                                                  *)
(***************************************************************************)
EXTENDS Integers, Sequences, FiniteSets, SequencesExt

CONSTANTS
  Signals,
  Frames,         \* addresses of frames, each used by one sigguarded() call
  NULL,
  MaxDepth,       \* bound on the activations of one thread
  Interruptible,  \* where inside the library a signal may be delivered
  Jumps           \* where a decider that has abandoned may jump to

(* enter:   sigguarded() has read tss->front and not yet replaced it        *)
(* landed:  setjmp() has returned from a longjmp(), front not yet restored  *)
(* walk:    stdc_raise() is about to look at frame f                        *)
LibraryPCs == {"enter", "landed", "walk"}
GuardPCs == {"enter", "guarded", "landed", "recovery"}
ActivePCs == {"guarded", "landed"}   \* the frame is linked
RaisePCs == {"walk", "decider", "abandoned", "global", "aborted"}

ASSUME FramesAssumption == NULL \notin Frames
ASSUME DepthAssumption == MaxDepth \in Nat
ASSUME InterruptibleAssumption == Interruptible \subseteq LibraryPCs
ASSUME JumpsAssumption == Jumps \in {"any", "outside"}

VARIABLES
  front,   \* tss->front
  frame,   \* struct sig_global_state_tss_state_per_frame_t, by address
  fresh,   \* frames no sigguarded() call has used
  stack    \* activations, outermost first

vars == <<front, frame, fresh, stack>>

Frame == [prev : Frames \cup {NULL}, guarded : SUBSET Signals,
          recovery : BOOLEAN]

(* f: the frame of a sigguarded(), or the frame pointer of a stdc_raise(). *)
(* called is history: the frames whose decider this raise has called.      *)
Activation == [pc : GuardPCs \cup RaisePCs, f : Frames \cup {NULL},
               signo : Signals \cup {NULL}, called : SUBSET Frames]

(* Every variable holds a value of its C type.                             *)
TypeOK == /\ front \in Frames \cup {NULL}
          /\ frame \in [Frames -> Frame]
          /\ fresh \subseteq Frames
          /\ stack \in Seq(Activation)

Init == /\ front = NULL
        /\ frame = [f \in Frames |->
                      [prev |-> NULL, guarded |-> {}, recovery |-> FALSE]]
        /\ fresh = Frames
        /\ stack = <<>>

-----------------------------------------------------------------------------
top == Len(stack)
Goto(act) == stack' = [stack EXCEPT ![top] = act]
Pop == stack' = Front(stack)

(* The sigguarded() calls that have not returned.                          *)
Guards == {i \in 1 .. top : stack[i].pc \in GuardPCs}
Dead(f) == f # NULL /\ \A i \in Guards : stack[i].f # f

(* A raise holds a pointer to the frame of a sigguarded() that is gone.    *)
DeadFrameInHand ==
  \E i \in 1 .. top : /\ stack[i].pc \in {"walk", "decider", "abandoned"}
                      /\ Dead(stack[i].f)

At(p) == top > 0 /\ stack[top].pc = p /\ ~DeadFrameInHand

(* The application's code is running: outside the library, or in a         *)
(* guarded function, a recovery routine or a decider.                      *)
InUserCode == /\ top > 0 => stack[top].pc \notin LibraryPCs \cup {"aborted"}
              /\ ~DeadFrameInHand

-----------------------------------------------------------------------------
(* sigguarded().                                                           *)

(* Mutant of Sigguarded: the frame is linked to the ones before it only    *)
(* when it has a recovery.                                                 *)
SigguardedUnlinked ==
  /\ InUserCode /\ top < MaxDepth
  /\ \E f \in fresh, S \in SUBSET Signals, rec \in BOOLEAN :
       /\ frame' = [frame EXCEPT ![f] =
            IF rec THEN [prev |-> front, guarded |-> S, recovery |-> rec]
            ELSE [guarded |-> S, recovery |-> rec]]
       /\ fresh' = fresh \ {f}
       /\ stack' = Append(stack, [pc |-> "enter", f |-> f, signo |-> NULL,
                                  called |-> {}])
  /\ UNCHANGED front

Sigguarded ==
  /\ InUserCode /\ top < MaxDepth
  /\ \E f \in fresh, S \in SUBSET Signals, rec \in BOOLEAN :
       /\ frame' = [frame EXCEPT ![f] = [prev |-> front, guarded |-> S,
                                         recovery |-> rec]]
       /\ fresh' = fresh \ {f}
       /\ stack' = Append(stack, [pc |-> "enter", f |-> f, signo |-> NULL,
                                  called |-> {}])
  /\ UNCHANGED front

(* tss->front = &current, then the guarded function is called.             *)
GuardEntered ==
  /\ At("enter")
  /\ front' = stack[top].f
  /\ Goto([stack[top] EXCEPT !.pc = "guarded"])
  /\ UNCHANGED <<frame, fresh>>

(* The guarded function returns: tss->front = old.                         *)
GuardedReturns ==
  /\ At("guarded")
  /\ front' = frame[stack[top].f].prev
  /\ Pop
  /\ UNCHANGED <<frame, fresh>>

(* Mutant of GuardLanded: the recovery runs under its own frame.           *)
GuardLandedKept ==
  /\ At("landed")
  /\ Goto([stack[top] EXCEPT !.pc = "recovery"])
  /\ UNCHANGED <<front, frame, fresh>>

(* setjmp() returned non-zero: tss->front = old, then recovery is called.  *)
GuardLanded ==
  /\ At("landed")
  /\ front' = frame[stack[top].f].prev
  /\ Goto([stack[top] EXCEPT !.pc = "recovery"])
  /\ UNCHANGED <<frame, fresh>>

RecoveryReturns ==
  /\ At("recovery")
  /\ Pop
  /\ UNCHANGED <<front, frame, fresh>>

-----------------------------------------------------------------------------
(* stdc_raise(), called by the application or by a delivered signal.       *)

StdcRaise ==
  /\ InUserCode \/ \E p \in Interruptible : At(p)
  /\ top < MaxDepth
  /\ \E s \in Signals :
       stack' = Append(stack, [pc |-> "walk", f |-> front, signo |-> s,
                               called |-> {}])
  /\ UNCHANGED <<front, frame, fresh>>

(* The frame does not guard the signal: frame = frame->prev.               *)
WalkSkip ==
  /\ At("walk") /\ stack[top].f # NULL
  /\ stack[top].signo \notin frame[stack[top].f].guarded
  /\ Goto([stack[top] EXCEPT !.f = frame[stack[top].f].prev])
  /\ UNCHANGED <<front, frame, fresh>>

WalkCall ==
  /\ At("walk") /\ stack[top].f # NULL
  /\ stack[top].signo \in frame[stack[top].f].guarded
  /\ Goto([stack[top] EXCEPT !.pc = "decider",
                             !.called = @ \cup {stack[top].f}])
  /\ UNCHANGED <<front, frame, fresh>>

(* No frame is left: the rest of stdc_raise() is module DeciderRegistry.   *)
WalkEnd ==
  /\ At("walk") /\ stack[top].f = NULL
  /\ Goto([stack[top] EXCEPT !.pc = "global"])
  /\ UNCHANGED <<front, frame, fresh>>

RaiseReturns ==
  /\ At("global")
  /\ Pop
  /\ UNCHANGED <<front, frame, fresh>>

(* Mutant of DeciderNext: break leaves the walk instead of the switch.     *)
DeciderNextBreaks ==
  /\ At("decider")
  /\ Goto([stack[top] EXCEPT !.pc = "walk", !.f = NULL])
  /\ UNCHANGED <<front, frame, fresh>>

(* sig_decision_next_decider, or sig_decision_call_recovery of a frame     *)
(* without recovery: the walk goes on outwards.                            *)
DeciderNext ==
  /\ At("decider")
  /\ Goto([stack[top] EXCEPT !.pc = "walk", !.f = frame[stack[top].f].prev])
  /\ UNCHANGED <<front, frame, fresh>>

(* sig_decision_resume_execution.                                          *)
DeciderResumes ==
  /\ At("decider")
  /\ Pop
  /\ UNCHANGED <<front, frame, fresh>>

(* sig_decision_call_recovery: longjmp() into the frame's sigguarded().    *)
DeciderRecovers ==
  /\ At("decider") /\ frame[stack[top].f].recovery
  /\ \E i \in Guards :
       /\ stack[i].f = stack[top].f
       /\ stack' = [SubSeq(stack, 1, i) EXCEPT ![i].pc = "landed"]
  /\ UNCHANGED <<front, frame, fresh>>

-----------------------------------------------------------------------------
(* Mutant of Abandon: the frame stays in the chain.                        *)
AbandonKept ==
  /\ At("decider") /\ front = stack[top].f
  /\ Goto([stack[top] EXCEPT !.pc = "abandoned"])
  /\ UNCHANGED <<front, frame, fresh>>

(* sigdecider_abandon() of the topmost guard, as its contract demands: the *)
(* frame is popped, and a client that breaks the contract is aborted.      *)
Abandon ==
  /\ At("decider") /\ front = stack[top].f
  /\ front' = frame[stack[top].f].prev
  /\ Goto([stack[top] EXCEPT !.pc = "abandoned"])
  /\ UNCHANGED <<frame, fresh>>

(* sigdecider_abandon_resume(): push the frame back, or abort if it would  *)
(* not be the topmost.                                                     *)
AbandonResume ==
  /\ At("abandoned")
  /\ IF front = frame[stack[top].f].prev
     THEN /\ front' = stack[top].f
          /\ Goto([stack[top] EXCEPT !.pc = "decider"])
     ELSE /\ Goto([stack[top] EXCEPT !.pc = "aborted"])
          /\ UNCHANGED front
  /\ UNCHANGED <<frame, fresh>>

(* A raise further in has abandoned guard i and not resumed it.            *)
Abandoned(i) == \E j \in (i + 1) .. top :
                  stack[j].pc = "abandoned" /\ stack[j].f = stack[i].f

(* The decider never returns: it jumps to a buffer set further out, in any *)
(* code of the application that is still on the stack, and takes with it   *)
(* no sigguarded() that is still linked.  A client that jumps "outside"    *)
(* also leaves, with a decider that has abandoned, the sigguarded() it     *)
(* abandoned; "any" may jump back into the deciders and guarded functions  *)
(* inside it.                                                              *)
LeaveAbandoned ==
  /\ At("abandoned")
  /\ \E k \in 0 .. top - 1 :
       /\ k > 0 => stack[k].pc \notin LibraryPCs
       /\ \A i \in k + 1 .. top : stack[i].pc \in ActivePCs => Abandoned(i)
       /\ Jumps = "outside" =>
            \A i \in Guards, j \in k + 1 .. top :
              stack[j].pc = "abandoned" /\ stack[j].f = stack[i].f => i > k
       /\ stack' = SubSeq(stack, 1, k)
  /\ UNCHANGED <<front, frame, fresh>>

(* Undefined behaviour, or abort().                                        *)
Stopped ==
  /\ DeadFrameInHand \/ \E i \in 1 .. top : stack[i].pc = "aborted"
  /\ UNCHANGED vars

-----------------------------------------------------------------------------
Next == \/ Sigguarded \/ GuardEntered \/ GuardedReturns \/ GuardLanded
        \/ RecoveryReturns
        \/ StdcRaise \/ WalkSkip \/ WalkCall \/ WalkEnd \/ RaiseReturns
        \/ DeciderNext \/ DeciderResumes \/ DeciderRecovers
        \/ Abandon \/ AbandonResume \/ LeaveAbandoned
        \/ Stopped

Spec == Init /\ [][Next]_vars

-----------------------------------------------------------------------------
(* Properties.                                                             *)

(* Guard i is active for the activations below position n: its guarded     *)
(* function runs, or has just been left by a longjmp(), and no raise below *)
(* n has abandoned it.                                                     *)
ActiveBelow(n) ==
  {i \in Guards : /\ i < n /\ stack[i].pc \in ActivePCs
                  /\ \A j \in (i + 1) .. (n - 1) :
                       ~(stack[j].pc = "abandoned" /\ stack[j].f = stack[i].f)}

InnermostBelow(n) ==
  LET A == ActiveBelow(n) IN
  IF A = {} THEN NULL ELSE stack[CHOOSE i \in A : \A j \in A : j <= i].f

(* tss->front is the innermost active sigguarded() of the C stack, and     *)
(* each frame's prev the innermost one around it, whatever raises,         *)
(* recoveries, abandons and resumes are nested; only between a longjmp()   *)
(* and the store that follows it may front be a dead frame instead.        *)
FrontIsInnermost ==
  /\ \/ front = InnermostBelow(top + 1)
     \/ top > 0 /\ stack[top].pc = "landed" /\ Dead(front)
     \/ DeadFrameInHand
  /\ \A i \in Guards : frame[stack[i].f].prev = InnermostBelow(i)

(* The only raise that ever reads the frame of a sigguarded() that has     *)
(* returned or was jumped over is a signal delivered between the longjmp() *)
(* of a recovery and the store of tss->front that follows it, and it does  *)
(* so with the very first frame it looks at.                               *)
DeadFrameOnlyInWindow ==
  DeadFrameInHand =>
    /\ top > 1 /\ stack[top].pc = "walk" /\ stack[top - 1].pc = "landed"
    /\ stack[top].f = front /\ stack[top].called = {}
    /\ \A i \in 1 .. top - 1 :
         stack[i].pc \in {"walk", "decider", "abandoned"} => ~Dead(stack[i].f)

(* No raise has a pointer to the frame of a sigguarded() that has returned *)
(* or was jumped over.                                                     *)
NoDeadFrame == ~DeadFrameInHand

(* A raise reaches the global deciders only after the decider of every     *)
(* active sigguarded() around it that guards the signal has been called.   *)
LocalDecidersFirst ==
  \A n \in 1 .. top : stack[n].pc = "global" =>
    \A i \in ActiveBelow(n) :
      stack[n].signo \in frame[stack[i].f].guarded
        => stack[i].f \in stack[n].called

(* sigdecider_abandon_resume() undoes the abandonment of a decider that    *)
(* abandoned the topmost guard: it does not abort.                         *)
NoAbort == \A i \in 1 .. top : stack[i].pc # "aborted"
=============================================================================
