\* Nothing fails: a run that needs a confirmation.
CONSTANTS
    Runs = {r1}
    Cmds = {}
    alice = alice
    root = root
    Users <- MCUsers
    Admins <- MCAdmins
    Owner <- MCOwner
    Scopes = {"channel-auto"}
    MaxPlan = 1
    MaxSteps = 0
    MaxToolCalls = 1
    MaxLLMCalls = 0
    HasAnswerer = TRUE
    StoreFaults = FALSE
    StepFaults = FALSE
    Tools <- MCTools
    Spellings <- MCSpellings
    MaxPlanned = 1
    MaxCrashes = 0
SPECIFICATION Spec
INVARIANTS ConfirmationCanBeGiven
\* Every request may have been served: the system stops there.
CHECK_DEADLOCK FALSE
