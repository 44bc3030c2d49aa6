------------------------------ MODULE MCScheduler ------------------------------
EXTENDS Scheduler
=============================================================================
