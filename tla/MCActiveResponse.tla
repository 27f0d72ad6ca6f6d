--------------------------- MODULE MCActiveResponse ---------------------------
(***************************************************************************)
(* Instances of ActiveResponse: two actions, so that an isolate and a      *)
(* release, or two isolates, follow each other on the Mac.                 *)
(***************************************************************************)
EXTENDS ActiveResponse, TLC

CONSTANTS a1, a2, u1, u2, c1

MCSymmetry == Permutations(Actions) \cup Permutations(Users)
=============================================================================
