--------------------------- MODULE WindowsDispatch ---------------------------
(***************************************************************************)
(* The Windows backend: signals as structured exceptions.  stdc_raise()    *)
(* raises one, the filter of every sigguarded() on the stack may claim it, *)
(* and the global deciders run from the unhandled exception filter or from *)
(* the vectored continue handler, which share one per-thread memory of the *)
(* last decision so that no exception is decided twice.                    *)
(*                                                                         *)
(* Dispatch is per thread.  act is the stack of one thread: activations of *)
(* sigguarded() and stdc_raise(), and exceptions being dispatched; the     *)
(* last one runs, and user code (a guarded function, a decider) may push   *)
(* more on it.  Other threads appear as signals becoming installed and     *)
(* uninstalled at any moment.  How deciders are listed and counted is the  *)
(* subject of DeciderRegistry, whose code this backend shares.             *)
(*                                                                         *)
(* The order in which the system calls filters and handlers is external,   *)
(* taken from the comments at lines 447-465 and 969-999 of the backend.    *)
(***************************************************************************)
EXTENDS Integers, Sequences, FiniteSets, SequencesExt

CONSTANTS
  Signals,        \* signals that get installed, within 1 .. NSIG - 1
  GuardSets,      \* the signal sets sigguarded() is called with
  RaiseSignos,    \* arguments of stdc_raise()
  RaiseParams,    \* the parameters stdc_raise() is given to pass on
  FaultCodes,     \* exception codes of genuine faults
  FaultParams,    \* the parameters of genuine faults
  Deciders,       \* how many global deciders an installed signal has
  Debuggers,      \* a subset of BOOLEAN: does the thread run under a debugger
  KeepInstalled,  \* under a debugger: is everything installed throughout
  MarksSoftware,  \* does the system set EXCEPTION_SOFTWARE_ORIGINATE
  AbandonRule,    \* "never", "once" or "any", see MayAbandon
  MaxDepth        \* bound on the activations of the thread

ASSUME SignalsAssumption == Signals \subseteq 1 .. 31
ASSUME BoundsAssumption == Deciders \in Nat /\ MaxDepth \in Nat
ASSUME RulesAssumption == /\ KeepInstalled \in BOOLEAN
                          /\ MarksSoftware \in BOOLEAN
                          /\ Debuggers \subseteq BOOLEAN
                          /\ AbandonRule \in {"never", "once", "any"}

VARIABLES
  act,        \* the activations, outermost first
  front,      \* tss->front: the position of a stdc_raise() in act, or 0
  win,        \* tss->stdc_raise_initiated_exception, likewise
  decision,   \* wg14_last_global_decider_record and _result
  mapped,     \* the signals with a container in the map
  handlers,   \* are the unhandled filter and the continue handler installed
  debugger,
  ended       \* how the process ended, "no" while it runs

vars == <<act, front, win, decision, mapped, handlers, debugger, ended>>

-----------------------------------------------------------------------------
(* Exception codes.                                                        *)

SIGILL == 4
SIGBUS == 7
SIGFPE == 8
SIGSEGV == 11
SIGABRT == 22

Native(name) == [native |-> name, low |-> 0]
User(n) == [native |-> "no", low |-> n]

(* win32_exception_code_from_signal(): a native code, or the low 30 bits   *)
(* of the signal in the range of user-defined codes.                       *)
CodeFromSignal(c) ==
  CASE c = SIGABRT -> Native("NONCONTINUABLE_EXCEPTION")
    [] c = SIGBUS  -> Native("IN_PAGE_ERROR")
    [] c = SIGILL  -> Native("ILLEGAL_INSTRUCTION")
    [] c = SIGSEGV -> Native("ACCESS_VIOLATION")
    [] c = SIGFPE  -> Native("FLT_INVALID_OPERATION")
    [] OTHER -> User(c % 2^30)

(* signal_from_win32_exception_code(): several native codes make one       *)
(* signal, an unknown one makes 0, which is no signal.                     *)
SignalFromCode(c) ==
  CASE c.native = "no" -> c.low
    [] c.native = "NONCONTINUABLE_EXCEPTION" -> SIGABRT
    [] c.native = "IN_PAGE_ERROR" -> SIGBUS
    [] c.native = "ILLEGAL_INSTRUCTION" -> SIGILL
    [] c.native \in {"ACCESS_VIOLATION", "STACK_OVERFLOW"} -> SIGSEGV
    [] c.native \in {"FLT_DENORMAL_OPERAND", "FLT_DIVIDE_BY_ZERO",
                     "FLT_INEXACT_RESULT", "FLT_INVALID_OPERATION",
                     "FLT_OVERFLOW", "FLT_STACK_CHECK", "FLT_UNDERFLOW",
                     "INT_DIVIDE_BY_ZERO", "INT_OVERFLOW"} -> SIGFPE
    [] OTHER -> 0

(* An EXCEPTION_RECORD: code, the software-originate flag, and its         *)
(* parameters with the other flags, "none" for no parameters.              *)
ExceptionRecord(c, s, p) == [code |-> c, software |-> s, params |-> p]
NoRecord == ExceptionRecord(Native("zero"), FALSE, "none")
NoDecision == [record |-> NoRecord, result |-> "SEARCH"]

(* Mutant of RecordMatches: the software-originate flag is compared too.   *)
RecordMatchesFlags(snapshot, e) == snapshot = e

(* win32_exception_record_matches().                                       *)
RecordMatches(snapshot, e) == /\ snapshot.code = e.code
                              /\ snapshot.params = e.params

-----------------------------------------------------------------------------
(* Activations.                                                            *)

(* The parts of a stdc_siginfo that sigdecider_abandon() works with:       *)
(* internal_local_decider, internal_win_state, internal_decider_is_abandoned. *)
Rsi(l) == [local |-> l, saved |-> 0, abandoned |-> FALSE]

(* struct win32_exception_filter_state of a sigguarded().                  *)
Guard(g) == [kind |-> "guard", guarded |-> g,
             front |-> front, win |-> win, rsi |-> Rsi(0)]

(* The two frames of a stdc_raise(): the former heads, and the snapshot.   *)
Raised(e) == [kind |-> "raise", record |-> e, front |-> front, win |-> win,
              claimed |-> FALSE, unclaimed |-> FALSE]

(* An exception being dispatched.  own: raised by the stdc_raise() below.  *)
(* at: the guard whose filter was called last; n, by: the global decider   *)
(* running and the handler it runs from; continued: a handler has said to  *)
(* continue execution.  History: calls, did a decider call the library;    *)
(* gone, has the decider that runs abandoned; who claimed the exception;   *)
(* passes, how often the global pass ran.                                  *)
Dispatch(e, own, at) ==
  [kind |-> "dispatch", e |-> e, own |-> own, phase |-> "search", at |-> at,
   n |-> 0, by |-> "unhandled", continued |-> FALSE, rsi |-> Rsi(0),
   calls |-> FALSE, gone |-> FALSE, who |-> "nobody", passes |-> 0]

Top == act[Len(act)]
Running(p) == /\ ended = "no" /\ act # <<>>
              /\ Top.kind = "dispatch" /\ Top.phase = p
SetTop(d) == act' = [act EXCEPT ![Len(act)] = d]
RaisesIn(a) == {i \in DOMAIN a : a[i].kind = "raise"}

(* Where the rsi of the decider that runs is: a filter's is the guard's.   *)
RsiAt == IF Top.phase = "filter" THEN Top.at ELSE Len(act)

(* User code runs: no guard yet, a guarded function, or a decider.  Under  *)
(* the rule "once", see MayAbandon, a decider that has abandoned makes no  *)
(* further calls.                                                          *)
Deciding == Running("filter") \/ Running("decider")
UserCode ==
  /\ ended = "no"
  /\ \/ act = <<>>
     \/ act # <<>> /\ Top.kind = "guard"
     \/ Deciding /\ (AbandonRule = "once" => ~Top.gone)
Push(a) == act' = (IF Deciding THEN [act EXCEPT ![Len(act)].calls = TRUE]
                               ELSE act) \o a

(* One type invariant: the chains refer to activations of stdc_raise(),    *)
(* and everything else has a value of its C type.                          *)
TypeOK ==
  /\ \A i \in DOMAIN act : act[i].kind \in {"guard", "raise", "dispatch"}
  /\ {front, win} \subseteq RaisesIn(act) \cup {0}
  /\ decision.result \in {"SEARCH", "EXECUTION"}
  /\ mapped \subseteq Signals /\ handlers \in BOOLEAN /\ debugger \in BOOLEAN
  /\ ended \in {"no", "terminated", "aborted", "undefined"}

Init ==
  /\ act = <<>> /\ front = 0 /\ win = 0
  /\ decision = NoDecision
  /\ debugger \in Debuggers
  /\ mapped = IF debugger /\ KeepInstalled THEN Signals ELSE {}
  /\ handlers = (mapped # {})
  /\ ended = "no"

-----------------------------------------------------------------------------
(* Other threads: install_sighandler_impl() before the first signal is     *)
(* installed, uninstall_sighandler_impl() after the last one is gone.  A   *)
(* failure of AddVectoredContinueHandler() leaves everything as it was.    *)

Install(s) ==
  /\ ended = "no" /\ s \notin mapped
  /\ handlers' = IF mapped = {} THEN TRUE ELSE handlers
  /\ mapped' = mapped \cup {s}
  /\ UNCHANGED <<act, front, win, decision, debugger, ended>>

Uninstall(s) ==
  /\ ended = "no" /\ s \in mapped /\ ~(debugger /\ KeepInstalled)
  /\ mapped' = mapped \ {s}
  /\ handlers' = IF mapped = {s} THEN FALSE ELSE handlers
  /\ UNCHANGED <<act, front, win, decision, debugger, ended>>

-----------------------------------------------------------------------------
(* User code.                                                              *)

(* sigguarded() remembers the heads of both chains and pushes nothing.     *)
Sigguarded ==
  /\ UserCode /\ Len(act) + 3 <= MaxDepth
  /\ \E g \in GuardSets : Push(<<Guard(g)>>)
  /\ UNCHANGED <<front, win, decision, mapped, handlers, debugger, ended>>

GuardedReturns ==
  /\ UserCode /\ act # <<>> /\ Top.kind = "guard"
  /\ act' = Front(act)
  /\ UNCHANGED <<front, win, decision, mapped, handlers, debugger, ended>>

(* stdc_raise() pushes its frames and calls RaiseException().              *)
StdcRaise ==
  /\ UserCode /\ Len(act) + 2 <= MaxDepth
  /\ \E c \in RaiseSignos, p \in RaiseParams :
       LET snapshot == ExceptionRecord(CodeFromSignal(c), FALSE, p)
           e == ExceptionRecord(CodeFromSignal(c), MarksSoftware, p)
           r == Len(act) + 1
       IN  /\ Push(<<Raised(snapshot), Dispatch(e, TRUE, r)>>)
           /\ front' = r /\ win' = r
  /\ UNCHANGED <<decision, mapped, handlers, debugger, ended>>

(* User code faults.                                                       *)
Fault ==
  /\ UserCode /\ Len(act) + 1 <= MaxDepth
  /\ \E c \in FaultCodes, p \in FaultParams :
       Push(<<Dispatch(ExceptionRecord(c, FALSE, p), FALSE, Len(act) + 1)>>)
  /\ UNCHANGED <<front, win, decision, mapped, handlers, debugger, ended>>

-----------------------------------------------------------------------------
(* The frame filters, innermost guard first: win32_exception_filter().     *)

GuardsBelow(d) == {j \in 1 .. d.at - 1 : act[j].kind = "guard"}

(* A guard whose set has the signal gets its decider called, with a fresh  *)
(* rsi in the guard's own state.                                           *)
FilterSearch ==
  /\ Running("search") /\ GuardsBelow(Top) # {}
  /\ LET j == CHOOSE i \in GuardsBelow(Top) : \A k \in GuardsBelow(Top) : k <= i
         found == SignalFromCode(Top.e.code) \in act[j].guarded
     IN  act' = [act EXCEPT
           ![Len(act)] = [Top EXCEPT !.at = j,
                            !.phase = IF found THEN "filter" ELSE "search"],
           ![j].rsi = IF found THEN Rsi(front) ELSE @]
  /\ UNCHANGED <<front, win, decision, mapped, handlers, debugger, ended>>

(* sig_decision_next_decider, or a recovery from a guard that has none.    *)
FilterNext ==
  /\ Running("filter") /\ ~Top.gone
  /\ SetTop([Top EXCEPT !.phase = "search"])
  /\ UNCHANGED <<front, win, decision, mapped, handlers, debugger, ended>>

(* Mutant of MatchingRaiseFrame: any exception while a raise is in flight. *)
MatchingRaiseFrameAny(e) == win # 0

(* win32_matching_raise_frame() looks at the innermost raise only.         *)
MatchingRaiseFrame(e) == win # 0 /\ RecordMatches(act[win].record, e)

(* sig_decision_resume_execution: mark the raise claimed, and leave the    *)
(* decision for the continue handler.                                      *)
FilterResume ==
  /\ Running("filter") /\ ~Top.gone
  /\ act' = [i \in DOMAIN act |->
       IF i = Len(act) THEN [Top EXCEPT !.phase = "continue", !.who = "frame",
                                        !.continued = TRUE]
       ELSE IF i = win /\ MatchingRaiseFrame(Top.e)
            THEN [act[i] EXCEPT !.claimed = TRUE] ELSE act[i]]
  /\ decision' = [record |-> Top.e, result |-> "EXECUTION"]
  /\ UNCHANGED <<front, win, mapped, handlers, debugger, ended>>

(* Mutant of FilterRecover: both chains are emptied.                       *)
FilterRecoverNulls ==
  /\ Running("filter") /\ ~Top.gone
  /\ front' = 0 /\ win' = 0
  /\ act' = SubSeq(act, 1, Top.at - 1)
  /\ UNCHANGED <<decision, mapped, handlers, debugger, ended>>

(* sig_decision_call_recovery: the heads go back to what they were at      *)
(* entry, the stack is unwound to the guard, and recovery() runs there.    *)
FilterRecover ==
  /\ Running("filter") /\ ~Top.gone
  /\ front' = act[Top.at].front /\ win' = act[Top.at].win
  /\ act' = SubSeq(act, 1, Top.at - 1)
  /\ UNCHANGED <<decision, mapped, handlers, debugger, ended>>

-----------------------------------------------------------------------------
(* The global pass: win32_global_decider_pass(), called by one of the two  *)
(* handlers (by).                                                          *)

(* The handler returns result.  The unhandled filter leaves it recorded    *)
(* for the continue handler, which forgets it.  A search that no handler   *)
(* ends terminates the process.                                            *)
HandlerReturns(a, d, result) ==
  LET last == d.by = "continue"
      goesOn == result = "EXECUTION" \/ d.continued
  IN  /\ decision' = IF last \/ SignalFromCode(d.e.code) = 0 THEN NoDecision
                     ELSE [record |-> d.e, result |-> result]
      /\ ended' = IF goesOn THEN "no" ELSE "terminated"
      /\ act' = [a EXCEPT ![Len(a)] =
           [d EXCEPT !.phase = IF last THEN "resume" ELSE "continue",
                     !.continued = goesOn]]

(* win32_unclaimed_software_raise(): a raise of ours goes on, marked       *)
(* unclaimed unless a frame has claimed it; a fault goes on searching.     *)
Unclaimed(d) ==
  IF MatchingRaiseFrame(d.e)
  THEN HandlerReturns([act EXCEPT ![win].unclaimed = @ \/ ~act[win].claimed],
                      d, "EXECUTION")
  ELSE HandlerReturns(act, d, "SEARCH")

(* Look the signal up.  Without a container, or deciders in it, the raise  *)
(* is unclaimed; a code that is no signal is not even recorded.            *)
GlobalPass(by) ==
  LET d == [Top EXCEPT !.by = by, !.passes = @ + 1, !.rsi = Rsi(0)]
      signo == SignalFromCode(Top.e.code)
  IN  IF signo \in mapped /\ Deciders > 0
      THEN /\ SetTop([d EXCEPT !.phase = "decider", !.n = 1])
           /\ decision' = IF by = "unhandled" THEN NoDecision ELSE decision
           /\ UNCHANGED ended
      ELSE IF signo = 0 THEN HandlerReturns(act, d, "SEARCH")
      ELSE Unclaimed(d)

(* The search ends.  Without a debugger the system calls our unhandled     *)
(* exception filter, which forgets the last decision and runs the pass;    *)
(* without ours, the system's own terminates the process.  Under a         *)
(* debugger only the continue handler is called.                           *)
UnhandledExceptionFilter ==
  /\ Running("search") /\ GuardsBelow(Top) = {}
  /\ CASE debugger -> SetTop([Top EXCEPT !.phase = "continue"])
                      /\ UNCHANGED <<decision, ended>>
       [] ~debugger /\ handlers -> GlobalPass("unhandled")
       [] ~debugger /\ ~handlers -> ended' = "terminated"
                                   /\ UNCHANGED <<act, decision>>
  /\ UNCHANGED <<front, win, mapped, handlers, debugger>>

(* Mutant of VectoredContinueHandler: the entry is not consumed.           *)
VectoredContinueHandlerKeeps ==
  /\ Running("continue")
  /\ LET match == RecordMatches(decision.record, Top.e)
         result == IF handlers /\ match THEN decision.result ELSE "SEARCH"
     IN  IF handlers /\ ~match THEN GlobalPass("continue")
         ELSE /\ ended' = IF Top.continued \/ result = "EXECUTION" THEN "no"
                          ELSE "terminated"
              /\ SetTop([Top EXCEPT !.phase = "resume"])
              /\ UNCHANGED decision
  /\ UNCHANGED <<front, win, mapped, handlers, debugger>>

(* win32_vectored_continue_handler(), the last handler to be called: reuse *)
(* the decision recorded for this exception and consume it, or run the     *)
(* pass.                                                                   *)
VectoredContinueHandler ==
  /\ Running("continue")
  /\ LET match == RecordMatches(decision.record, Top.e)
         result == IF handlers /\ match THEN decision.result ELSE "SEARCH"
     IN  IF handlers /\ ~match THEN GlobalPass("continue")
         ELSE /\ ended' = IF Top.continued \/ result = "EXECUTION" THEN "no"
                          ELSE "terminated"
              /\ SetTop([Top EXCEPT !.phase = "resume"])
              /\ decision' = IF handlers THEN NoDecision ELSE decision
  /\ UNCHANGED <<front, win, mapped, handlers, debugger>>

(* A decider says next: the next one, or nobody wants the exception.       *)
DeciderNext ==
  /\ Running("decider") /\ ~Top.gone
  /\ IF Top.n < Deciders
     THEN SetTop([Top EXCEPT !.n = @ + 1]) /\ UNCHANGED <<decision, ended>>
     ELSE Unclaimed(Top)
  /\ UNCHANGED <<front, win, mapped, handlers, debugger>>

(* The longjmp() to the innermost raise, which returns true: its setjmp()  *)
(* branch puts both heads back.                                            *)
ReturnTo(r) == /\ act' = SubSeq(act, 1, r - 1)
               /\ front' = act[r].front /\ win' = act[r].win

(* Mutant of DeciderClaims: the raise that is left stays the head.         *)
DeciderClaimsKeeps ==
  /\ Running("decider") /\ ~Top.gone
  /\ IF front # 0
     THEN /\ act' = SubSeq(act, 1, front - 1)
          /\ front' = act[front].front
          /\ UNCHANGED <<win, decision, ended>>
     ELSE /\ HandlerReturns(act, [Top EXCEPT !.who = "global"], "EXECUTION")
          /\ UNCHANGED <<front, win>>
  /\ UNCHANGED <<mapped, handlers, debugger>>

(* A decider claims the exception: back to the innermost raise if there is *)
(* one, else execution continues.                                          *)
DeciderClaims ==
  /\ Running("decider") /\ ~Top.gone
  /\ IF front # 0 THEN ReturnTo(front) /\ UNCHANGED <<decision, ended>>
     ELSE /\ HandlerReturns(act, [Top EXCEPT !.who = "global"], "EXECUTION")
          /\ UNCHANGED <<front, win>>
  /\ UNCHANGED <<mapped, handlers, debugger>>

(* Execution continues after the exception: RaiseException() returns into  *)
(* stdc_raise(), which pops its frames and returns; a fault is retried.    *)
Resume ==
  /\ Running("resume")
  /\ IF Top.own THEN ReturnTo(Len(act) - 1)
     ELSE act' = Front(act) /\ UNCHANGED <<front, win>>
  /\ UNCHANGED <<decision, mapped, handlers, debugger, ended>>

-----------------------------------------------------------------------------
(* sigdecider_abandon() and sigdecider_abandon_resume().                   *)

(* The code asks nothing of when a decider abandons: "any".  The rule      *)
(* "once" narrows the clients to those whose deciders abandon at most      *)
(* once, before any other call of the library and none after it, for the   *)
(* exception of the innermost raise, or for a fault with no raise in       *)
(* flight.  No document asks this of a client.  Outside it a frame's rsi   *)
(* may be that of a nested exception, and a fault's decider pops a raise   *)
(* that is not its own, so the chains no longer follow the stack.          *)
MayAbandon ==
  \/ AbandonRule = "any"
  \/ /\ AbandonRule = "once" /\ ~Top.calls /\ (Top.own \/ front = 0)
     /\ act[RsiAt].rsi.saved = 0

SetRsi(r) == act' = [act EXCEPT ![RsiAt].rsi = r,
                               ![Len(act)].gone = r.abandoned]

(* Pop the raise from both chains, and remember it in the rsi.  A global   *)
(* decider's rsi has no local decider, so its pop comes last.              *)
Abandon ==
  LET r == act[RsiAt].rsi
      popped == IF r.local # 0 THEN act[r.local].front ELSE front
      global == Top.phase = "decider" /\ popped # 0
  IN  IF r.local # 0 /\ front # r.local
      THEN ended' = "aborted" /\ UNCHANGED <<act, front, win>>
      ELSE /\ SetRsi([local |-> IF global THEN popped ELSE r.local,
                      saved |-> IF win # 0 THEN win ELSE r.saved,
                      abandoned |-> TRUE])
           /\ front' = IF global THEN act[popped].front ELSE popped
           /\ win' = IF win # 0 THEN act[win].win ELSE win
           /\ UNCHANGED ended

SigdeciderAbandon ==
  /\ Deciding /\ ~Top.gone /\ ~act[RsiAt].rsi.abandoned /\ MayAbandon
  /\ Abandon
  /\ UNCHANGED <<decision, mapped, handlers, debugger>>

(* Link the raise again, or abort if it would not be linked where it was.  *)
(* Reading a raise that has been left is undefined.                        *)
SigdeciderAbandonResume ==
  /\ Deciding /\ Top.gone /\ act[RsiAt].rsi.abandoned
  /\ LET r == act[RsiAt].rsi
         live == {r.saved, r.local} \subseteq RaisesIn(act) \cup {0}
         fits == /\ r.saved # 0 => act[r.saved].win = win
                 /\ r.local # 0 => act[r.local].front = front
     IN  IF ~live \/ ~fits
         THEN /\ ended' = IF live THEN "aborted" ELSE "undefined"
              /\ UNCHANGED <<act, front, win>>
         ELSE /\ win' = IF r.saved # 0 THEN r.saved ELSE win
              /\ front' = IF r.local # 0 THEN r.local ELSE front
              /\ SetRsi([r EXCEPT !.abandoned = FALSE])
              /\ UNCHANGED ended
  /\ UNCHANGED <<decision, mapped, handlers, debugger>>

(* The decider that abandoned leaves by a jump of its own, to user code    *)
(* that is still on the stack, and takes with it no raise that is linked.  *)
JumpOut ==
  /\ Deciding /\ Top.gone
  /\ \E k \in 0 .. Len(act) - 1 :
       /\ k > 0 => \/ act[k].kind = "guard"
                   \/ act[k].kind = "dispatch" /\ act[k].phase \in {"filter", "decider"}
       /\ front = 0 \/ k > front
       /\ win = 0 \/ k > win
       /\ act' = SubSeq(act, 1, k)
  /\ UNCHANGED <<front, win, decision, mapped, handlers, debugger, ended>>

-----------------------------------------------------------------------------
(* The process is over.                                                    *)
Ended == ended # "no" /\ UNCHANGED vars

Next ==
  \/ \E s \in Signals : Install(s) \/ Uninstall(s)
  \/ Sigguarded \/ GuardedReturns \/ StdcRaise \/ Fault
  \/ FilterSearch \/ FilterNext \/ FilterResume \/ FilterRecover
  \/ UnhandledExceptionFilter \/ VectoredContinueHandler
  \/ DeciderNext \/ DeciderClaims \/ Resume
  \/ SigdeciderAbandon \/ SigdeciderAbandonResume \/ JumpOut
  \/ Ended

Spec == Init /\ [][Next]_vars

-----------------------------------------------------------------------------
(* Properties.                                                             *)

AbandonedRaise ==
  IF Deciding /\ Top.own /\ Top.gone THEN {Len(act) - 1} ELSE {}
InnermostRaise ==
  LET r == RaisesIn(act) \ AbandonedRaise
  IN  IF r = {} THEN 0 ELSE CHOOSE i \in r : \A j \in r : j <= i

(* Both per-thread chains start at the innermost stdc_raise() that is      *)
(* still on the stack, however raises, guards, faults and deciders nest    *)
(* and however they are left: by return, by a recovery's unwinding, by a   *)
(* claim's longjmp(), or abandoned.                                        *)
ChainsMatchStack == ended = "no" => front = InnermostRaise /\ win = InnermostRaise

(* An exception that execution continues after was decided exactly once:   *)
(* by a frame, or by one run of the global pass, from whichever handler    *)
(* came first, and never by a decision recorded for another exception.     *)
DecidedOnce ==
  Running("resume") => Top.passes + (IF Top.who = "frame" THEN 1 ELSE 0) = 1

(* The marks of a raise are its own: when its RaiseException() returns, it *)
(* is marked unclaimed exactly when no decider claimed its own exception,  *)
(* whatever the raises and faults dispatched meanwhile marked.  This is    *)
(* the exit on which stdc_raise() returns the mark; a claim's longjmp()    *)
(* makes it return true unmarked, also when the claim was of a fault       *)
(* inside one of its deciders.                                             *)
UnclaimedMarkIsOwn ==
  Running("resume") /\ Top.own =>
    act[Len(act) - 1].unclaimed = (Top.who = "nobody")

(* "If it returns, it returns true if at least one signal decider was      *)
(* called": a raise for which a global decider was called is not about to  *)
(* return false.                                                           *)
TrueIfDeciderCalled ==
  Running("resume") /\ Top.own /\ Top.n > 0 => ~act[Len(act) - 1].unclaimed

(* "On Windows the frame rsi is a fresh local": the rsi a frame's decider  *)
(* works with stays that of its own exception while exceptions nested in   *)
(* the decider come and go, so it names the innermost raise.               *)
FrameRsiIsOwn ==
  Running("filter") /\ ~Top.gone => act[Top.at].rsi.local = front

(* "stdc_raise() then returns false instead of the exception reaching      *)
(* Windows Error Reporting": while handlers are installed a raise of ours  *)
(* does not terminate the process, installed or not the signal, in range   *)
(* or not its argument, except when the cut to 30 bits has left signal 0.  *)
RaiseSurvives ==
  [][ended = "no" /\ ended' = "terminated" /\ handlers =>
       ~Top.own \/ SignalFromCode(Top.e.code) = 0]_vars

(* A decider may abandon, and "if after abandonment you realise that you   *)
(* actually shall return", resume: neither call aborts the process.        *)
NoAbort == ended # "aborted"
=============================================================================
