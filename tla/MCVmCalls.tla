----------------------------- MODULE MCVmCalls -----------------------------
(* Small instances of VmCalls for TLC.                                     *)
EXTENDS VmCalls, TLC

CONSTANTS t1, t2

Threads == {t1, t2}

\* The first call can use up its iterators; the others scan and move.
CallGas == <<3, 2, 1>>

Symmetry == Permutations(Threads)
============================================================================
