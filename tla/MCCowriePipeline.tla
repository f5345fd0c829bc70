-------------------------- MODULE MCCowriePipeline --------------------------
(***************************************************************************)
(* Small instances of CowriePipeline: every session comes from one         *)
(* address, so that sessions are interchangeable, as workers are.          *)
(***************************************************************************)
EXTENDS CowriePipeline, TLC

CONSTANTS s1, s2, ls, wget, w1, w2

TwoSessions == {s1, s2}
OneSession  == {s1}
OneAddress  == [s \in Sessions |-> "ip"]
Symmetry    == Permutations(Workers) \cup Permutations(Sessions)
=============================================================================
