\* Two pools, one of which may be stopped and one may die, against an unreliable database.
CONSTANTS
    Jobs = {j1, j2}
    Handled = {j1}
    Pools = {p1, p2}
    MaxWorkers = 2
    MaxAttempts = 2
    Delays = {0, 1}
    Migrations <- MCDurable
    StoreFaults = TRUE
    Overlap = TRUE
    Stoppable = {p1}
    Mortal = {p2}
    MaxTime = 1
SPECIFICATION Spec
INVARIANTS TypeOK HoldersOwnTheirJob OneHolder AttemptsAreUsed WorkersAreBounded
PROPERTIES EndedIsFinal RefinesLifecycle
\* Every job may be done: the system stops there.
CHECK_DEADLOCK FALSE
