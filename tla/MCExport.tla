------------------------------- MODULE MCExport -------------------------------
(* Two exports and two workers; each job may be tried twice, and three      *)
(* things may go wrong.                                                     *)
EXTENDS ExportJobs
=============================================================================
