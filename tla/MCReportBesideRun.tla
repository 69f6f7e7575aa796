-------------------------- MODULE MCReportBesideRun --------------------------
(* ReportBesideRun for TLC: the scheduled run and the manual one do the same. *)
EXTENDS ReportBesideRun, TLC

Interchangeable == Permutations(Runs)
=============================================================================
