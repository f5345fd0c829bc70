----------------------------- MODULE MCScanMemory -----------------------------
(***************************************************************************)
(* Model checking of ScanMemory: processes, reasons and forms of a finding *)
(* are interchangeable.                                                    *)
(***************************************************************************)
EXTENDS ScanMemory, TLC

CONSTANTS q1, q2, p1, p2, r1, r2, f1, f2, v1, v2

Symm == Permutations(Procs) \cup Permutations(Reasons) \cup Permutations(Forms)
=============================================================================
