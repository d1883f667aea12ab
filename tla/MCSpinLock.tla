----------------------------- MODULE MCSpinLock ------------------------------
(* Small instances of SpinLock for TLC.                                    *)
EXTENDS SpinLock
=============================================================================
