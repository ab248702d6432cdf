------------------------- MODULE MCControlEndpoint -------------------------
(***************************************************************************)
(* The instance of ControlEndpoint that TLC checks.                        *)
(***************************************************************************)
EXTENDS ControlEndpoint
=============================================================================
