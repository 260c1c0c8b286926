\* A working database and a process that lives; each event is handed out once.
CONSTANTS
    Messages = {m1, m2}
    lounge = lounge
    Channels <- MCChannels
    Home <- MCHome
    Blank = {}
    QueueSize = 1
    Copies = 1
    MaxChanges = 1
    StoreFaults = FALSE
    MaxCrashes = 0
SPECIFICATION Spec
INVARIANT DeletedIsNotKept
\* Every message may have been handled: the system stops there.
CHECK_DEADLOCK FALSE
