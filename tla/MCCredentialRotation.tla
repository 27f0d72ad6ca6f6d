------------------------ MODULE MCCredentialRotation ------------------------
(***************************************************************************)
(* Instances of CredentialRotation.                                        *)
(***************************************************************************)
EXTENDS CredentialRotation
=============================================================================
