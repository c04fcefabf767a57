---------------------------- MODULE MCScheduler ----------------------------
(* The scheduler on a small pool: the cfg gives the constants.              *)
EXTENDS Scheduler
=============================================================================
