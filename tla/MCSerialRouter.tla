--------------------------- MODULE MCSerialRouter ---------------------------
(***************************************************************************)
(* The instance of SerialRouter that TLC checks: frames of two bytes, a    *)
(* buffer that a line can fill, and a port that overflows.                 *)
(***************************************************************************)
EXTENDS SerialRouter

MCFrameKinds == {"eight", "char", "raw"}
=============================================================================
