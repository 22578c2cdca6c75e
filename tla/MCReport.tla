------------------------------- MODULE MCReport -------------------------------
(* Three views and two publishes of one report by two authors.              *)
EXTENDS ReportCache
=============================================================================
