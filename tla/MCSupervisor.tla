---------------------------- MODULE MCSupervisor ----------------------------
(***************************************************************************)
(* Small instances of Supervisor: a driver that makes every call, may      *)
(* crash and be restarted once, and whom the boot thread moves, and a      *)
(* neighbour that cannot be started.                                       *)
(***************************************************************************)
EXTENDS Supervisor

MCBudget == <<1, 0>>
MCOps == <<OpTypes, {}>>
MCReports == <<ReportTypes, {}>>

MCOutcomes == <<BOOLEAN, {FALSE}>>

OneOutcomes == <<{TRUE}>>
OneBudget == <<1>>
OneOps == <<{}>>
OneReports == <<ReportTypes>>
=============================================================================
