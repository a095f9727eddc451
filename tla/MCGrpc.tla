------------------------------- MODULE MCGrpc -------------------------------
(***************************************************************************)
(* Instances of GrpcProvisioner for TLC.                                   *)
(***************************************************************************)
EXTENDS GrpcProvisioner
=============================================================================
