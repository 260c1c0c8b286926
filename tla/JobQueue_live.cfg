\* A database that works; one pool may be stopped or die, the other one lives.
CONSTANTS
    Jobs = {j1, j2}
    Handled = {j1}
    Pools = {p1, p2}
    MaxWorkers = 1
    MaxAttempts = 2
    Delays = {0, 1}
    Migrations <- MCDurable
    StoreFaults = FALSE
    Overlap = FALSE
    Stoppable = {p1}
    Mortal = {p1}
    Own = p1
    j1 = j1
    MaxTime = 1
SPECIFICATION MCFairSpec
INVARIANTS LostJobsHaveACause WorkersEndFirst
PROPERTIES JobsEnd StopReturns SignalEndsProcess
\* Every job may be done: the system stops there.
CHECK_DEADLOCK FALSE
