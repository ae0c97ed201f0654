------------------------------- MODULE MCCron -------------------------------
(* Instances of Cron: a job that recurs and one that runs once. *)
EXTENDS Cron
=============================================================================
