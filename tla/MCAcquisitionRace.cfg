\* A reconciliation races the submission it is about; nothing else goes wrong.
SPECIFICATION Spec
CONSTANTS
    Calls = {c1}
    Reconcilers = {r1}
    Keys = {k1}
    Tokens = {t1}
    Modules = {m1}
    Faults = {}
    None = None
CHECK_DEADLOCK FALSE
INVARIANTS
    AcceptedNeverFails
