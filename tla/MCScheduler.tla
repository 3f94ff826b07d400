---------------------------- MODULE MCScheduler ----------------------------
(* Scheduler for TLC: a sync every four units, another job every six, in a *)
(* day of eleven; a backup takes up to two units, another job one.         *)
EXTENDS Scheduler

MCEvery  == [j \in Jobs \ {"backup"} |-> IF j = "sync" THEN 4 ELSE 6]
MCMaxRun == [j \in Jobs |-> IF j = "backup" THEN 2 ELSE 1]
=============================================================================
