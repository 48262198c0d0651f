---------------------------- MODULE MCScheduler -----------------------------
EXTENDS Scheduler
MCNet         == {1, 2}
MCCompletions == {3, 4, 5, 6}
MCTimeless    == {2}
MCClearing    == {2}
=============================================================================
