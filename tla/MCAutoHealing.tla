--------------------------- MODULE MCAutoHealing ---------------------------
(* An instance of AutoHealing: four of the services, in health-check order, *)
(* two of them after the scheduler, the container the watchdog runs in.     *)
EXTENDS AutoHealing

MCChecks == <<"redis", "scheduler", "workers", "queues">>
MCAlerting == {"postgres", "redis", "scheduler", "workers"}
=============================================================================
