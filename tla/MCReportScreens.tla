-------------------------- MODULE MCReportScreens --------------------------
(* Small instances of ReportScreens for TLC.                               *)
EXTENDS ReportScreens
=============================================================================
