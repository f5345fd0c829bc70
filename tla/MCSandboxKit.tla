---------------------------- MODULE MCSandboxKit ----------------------------
(***************************************************************************)
(* Model checking of SandboxKit: one sandbox name, one terminal.           *)
(***************************************************************************)
EXTENDS SandboxKit, TLC

CONSTANTS h1, h2

TwoHosts == {h1, h2}
HostSymmetry == Permutations(TwoHosts)
=============================================================================
