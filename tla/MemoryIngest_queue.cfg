\* Two messages, one of them blank, in a queue of two, with a repeated creation,
\* two changes of the settings, failing statements and a crash.
CONSTANTS
    Messages = {m1, m2}
    lounge = lounge
    Channels <- MCChannels
    Home <- MCHome
    Blank = {m2}
    QueueSize = 2
    Copies = 2
    MaxChanges = 2
    StoreFaults = TRUE
    MaxCrashes = 1
SPECIFICATION FairSpec
INVARIANTS AtMostOneLateRecord DeletedIsAccountedFor
PROPERTIES TombstoneIsFinal QueuedDeletionForgets
\* Every message may have been handled: the system stops there.
CHECK_DEADLOCK FALSE
