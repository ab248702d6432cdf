--------------------------- MODULE MCButtonHandoff ---------------------------
(***************************************************************************)
(* The instance of ButtonHandoff that TLC checks.                          *)
(***************************************************************************)
EXTENDS ButtonHandoff

MCOptions == {0, 1, 2, 3}
=============================================================================
