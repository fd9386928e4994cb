--------------------------- MODULE MCScheduler ---------------------------
EXTENDS Scheduler
CONSTANTS r1, r2, s1
MCRequests == {r1, r2, s1}
MCStreams == {s1}
==========================================================================
