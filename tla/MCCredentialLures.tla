-------------------------- MODULE MCCredentialLures --------------------------
(***************************************************************************)
(* Model checking of CredentialLures, and of DeceptionBus in it.           *)
(***************************************************************************)
EXTENDS CredentialLures, TLC

CONSTANTS w1, w2, i1, l1, l2, l3

Symm == Permutations(Workers) \cup Permutations(Lures)
=============================================================================
