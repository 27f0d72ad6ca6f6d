------------------------ MODULE MCApplianceLifecycle ------------------------
(***************************************************************************)
(* Two processes, a first installation or an upgrade of one migration, one *)
(* crash or failed step, and one restore that an operator asks for.  The   *)
(* processes are interchangeable and every property is a safety property.  *)
(***************************************************************************)
EXTENDS ApplianceLifecycle

ProcSymmetry == Permutations(Procs)
=============================================================================
