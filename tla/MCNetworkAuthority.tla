------------------------- MODULE MCNetworkAuthority -------------------------
(* Two networks, three people and one endpoint account.                      *)
EXTENDS NetworkAuthority
=============================================================================
