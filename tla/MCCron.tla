------------------------------- MODULE MCCron -------------------------------
(* Instance of Cron for TLC.                                               *)
EXTENDS Cron
=============================================================================
