\* A model is selected while its credential is being revoked.
CONSTANTS
    Requests = {r1, r2, r3}
    Labels = {main}
    Providers = {openai}
    Purposes = {chat}
SYMMETRY Symmetric
SPECIFICATION Spec
INVARIANTS RevokedHasNoModel
\* Every request may be done: the system stops there.
CHECK_DEADLOCK FALSE
