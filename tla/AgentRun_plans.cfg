\* Two runs of one user, the second of which may follow up on the first, with plans
\* up to and beyond the limits and step records that may be lost.
CONSTANTS
    Runs = {r1, r2}
    Cmds = {}
    alice = alice
    root = root
    Users <- MCUsers
    Admins <- MCAdmins
    Owner <- MCOwner
    Scopes = {"", "channel-auto"}
    MaxPlan = 3
    MaxSteps = 4
    MaxToolCalls = 2
    MaxLLMCalls = 1
    HasAnswerer = TRUE
    StoreFaults = TRUE
    StepFaults = TRUE
    Tools <- MCTools
    Spellings <- MCSpellings
    MaxPlanned = 1
    MaxCrashes = 0
SPECIFICATION Spec
SYMMETRY Symmetric
INVARIANTS WritesWait UsageIsAccurate SnapshotIsComplete
\* Every request may have been served: the system stops there.
CHECK_DEADLOCK FALSE
