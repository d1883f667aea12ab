-------------------------- MODULE MCWindowsDispatch --------------------------
(* A small instance of WindowsDispatch for TLC: a signal with a native     *)
(* code that faults share, an argument that is no signal, one whose low 30 *)
(* bits are 0 (-2^30), and a fault that maps to none.                      *)
EXTENDS WindowsDispatch

MCSignals == {SIGSEGV}
MCGuardSets == {{SIGSEGV}}
MCRaiseSignos == {SIGSEGV, -1, -1073741824}
MCFaultCodes == {Native("ACCESS_VIOLATION"), Native("UNKNOWN")}
=============================================================================
