--------------------------- MODULE MCCowrieAlerts ---------------------------
(***************************************************************************)
(* Model checking of CowrieAlerts.  Workers, addresses and campaigns are   *)
(* interchangeable, except in a liveness run.                              *)
(***************************************************************************)
EXTENDS CowrieAlerts, TLC

CONSTANTS w1, w2, i1, i2, g1, g2

OneWorker  == {w1}
TwoWorkers == {w1, w2}
OneIp      == {i1}
TwoIps     == {i1, i2}
OneSig     == {g1}
TwoSigs    == {g1, g2}
AllScores  == {40, 60, 70, 90}
HighScores == {70}
WorkerSymmetry == Permutations(Workers)
=============================================================================
