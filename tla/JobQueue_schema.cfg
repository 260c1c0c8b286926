\* The table the migrations leave.
CONSTANTS
    Jobs = {j1, j2}
    Handled = {j1, j2}
    Pools = {p1, p2}
    MaxWorkers = 2
    MaxAttempts = 2
    Delays = {0, 1}
    Migrations <- MCDeployed
    StoreFaults = FALSE
    Overlap = FALSE
    Stoppable = {}
    Mortal = {}
    MaxTime = 2
SPECIFICATION Spec
INVARIANTS JobsCanBeScheduled
\* Every job may be done: the system stops there.
CHECK_DEADLOCK FALSE
