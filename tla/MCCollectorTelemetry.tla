------------------------ MODULE MCCollectorTelemetry ------------------------
(***************************************************************************)
(* Instances of CollectorTelemetry.                                        *)
(***************************************************************************)
EXTENDS CollectorTelemetry
=============================================================================
