---------------------------- MODULE MCScheduler -----------------------------
EXTENDS Scheduler
CONSTANTS main, t1, t2
=============================================================================
