---------------------------- MODULE MCCowrieShip ----------------------------
(***************************************************************************)
(* Model checking of CowrieShip.  Which slot a post takes is immaterial.   *)
(***************************************************************************)
EXTENDS CowrieShip, TLC

CONSTANTS p1, p2, p3

TwoSlots   == {p1, p2}
ThreeSlots == {p1, p2, p3}
SlotSymmetry == Permutations(Slots)
=============================================================================
