---------------------------- MODULE MC_ReportCheck ----------------------------
(* Two parts of the TCB version, two levels each.                          *)
EXTENDS ReportCheck
===============================================================================
