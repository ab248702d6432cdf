---------------------------- MODULE MCHostControl ----------------------------
(***************************************************************************)
(* The instance of HostControl that TLC checks.                            *)
(***************************************************************************)
EXTENDS HostControl
=============================================================================
