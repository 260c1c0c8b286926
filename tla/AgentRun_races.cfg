\* One run against two commands and a crash, with a database that may fail.
CONSTANTS
    Runs = {r1}
    Cmds = {c1, c2}
    alice = alice
    root = root
    Users <- MCUsers
    Admins <- MCAdmins
    Owner <- MCOwner
    Scopes = {"none", "channel", "channel-auto"}
    MaxPlan = 2
    MaxSteps = 0
    MaxToolCalls = 2
    MaxLLMCalls = 0
    HasAnswerer = TRUE
    StoreFaults = TRUE
    StepFaults = FALSE
    Tools <- MCTools
    Spellings <- MCSpellings
    MaxPlanned = 1
    MaxCrashes = 1
SYMMETRY Symmetric
SPECIFICATION Spec
INVARIANTS LifecycleInv StepsAreKept CancelWins AtMostOneLateEffect
    HintHasConfirmation OneResolution ResponseIsTruthful
PROPERTIES FinishedIsFinal ResolutionIsFinal RefinesLifecycle
\* Every request may have been served: the system stops there.
CHECK_DEADLOCK FALSE
