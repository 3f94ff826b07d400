---------------------------- MODULE MCPlanScan ----------------------------
(* PlanScan for TLC.                                                       *)
EXTENDS PlanScan

MCBlank == NothingStored
=============================================================================
