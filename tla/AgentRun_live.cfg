\* A process that lives, on a database that may fail.
CONSTANTS
    Runs = {r1}
    Cmds = {c1}
    alice = alice
    root = root
    Users <- MCUsers
    Admins <- MCAdmins
    Owner <- MCOwner
    Scopes = {"channel", "channel-auto"}
    MaxPlan = 1
    MaxSteps = 0
    MaxToolCalls = 1
    MaxLLMCalls = 0
    HasAnswerer = TRUE
    StoreFaults = TRUE
    StepFaults = TRUE
    Tools <- MCTools
    Spellings <- MCSpellings
    MaxPlanned = 1
    MaxCrashes = 0
SPECIFICATION FairSpec
PROPERTIES CancelTakesEffect EveryRunReturns
\* Every request may have been served: the system stops there.
CHECK_DEADLOCK FALSE
