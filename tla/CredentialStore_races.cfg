\* Five requests of any kind for one label, two providers and two purposes.
CONSTANTS
    Requests = {r1, r2, r3, r4, r5}
    Labels = {main}
    Providers = {openai, google}
    Purposes = {chat, routing}
SYMMETRY Symmetric
SPECIFICATION Spec
INVARIANTS RevokedIsNotUsed
PROPERTIES RevokedIsFinal ModelIsKept
\* Every request may be done: the system stops there.
CHECK_DEADLOCK FALSE
