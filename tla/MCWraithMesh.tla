----------------------------- MODULE MCWraithMesh -----------------------------
(***************************************************************************)
(* Model checking of WraithMesh: all sessions run the same commands, so    *)
(* that nodes, sessions and handler threads are interchangeable.           *)
(***************************************************************************)
EXTENDS WraithMesh, TLC

CONSTANTS n1, n2, s1, s2, t1, t2, k1, trap

MeshKeyOf == [s \in Sessions |-> k1]
Symm == Permutations(Threads) \cup Permutations(Nodes) \cup Permutations(Sessions)
=============================================================================
