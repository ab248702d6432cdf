---------------------------- MODULE MCReportPath ----------------------------
(***************************************************************************)
(* The instance of ReportPath that TLC checks.                             *)
(***************************************************************************)
EXTENDS ReportPath
=============================================================================
