------------------------- MODULE MCDeviceEnrollment -------------------------
(***************************************************************************)
(* Instances of DeviceEnrollment.                                          *)
(***************************************************************************)
EXTENDS DeviceEnrollment
=============================================================================
