------------------------ MODULE MCResponseGovernance ------------------------
(***************************************************************************)
(* Instances of ResponseGovernance: two actions, which may target the same *)
(* device, two responders, one or two cases.                               *)
(***************************************************************************)
EXTENDS ResponseGovernance, TLC

CONSTANTS r1, r2, c1, d1, d2, a1, a2, u1, u2

MCSymmetry == Permutations(Actions) \cup Permutations(Users) \cup Permutations(Devices)
=============================================================================
