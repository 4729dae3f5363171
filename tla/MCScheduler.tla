----------------------------- MODULE MCScheduler ----------------------------
EXTENDS Scheduler
=============================================================================
