---------------------------- MODULE MCHostStream ----------------------------
(***************************************************************************)
(* The instance of HostStream that TLC checks.                             *)
(***************************************************************************)
EXTENDS HostStream
=============================================================================
