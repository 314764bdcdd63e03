----------------------------- MODULE MCCronJobs ------------------------------
(* Instances of CronJobs for TLC. *)
EXTENDS CronJobs
==============================================================================
