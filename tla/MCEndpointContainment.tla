------------------------ MODULE MCEndpointContainment ------------------------
(***************************************************************************)
(* Instances of EndpointContainment: enough tokens for every reference     *)
(* that the bounded failures can leak.                                     *)
(***************************************************************************)
EXTENDS EndpointContainment

MCTokens == 1..7
=============================================================================
