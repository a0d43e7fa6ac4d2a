\* A policy that is missing in one run and back in the next.
SPECIFICATION Spec
CONSTANTS
    Items = {i1}
    Ids = {r1, r2}
    Readers = {}
    None = None
    RefreshAfter = 2
    ExpiresAfter = 5
    Day = 1
    Faults = {"policy"}
INVARIANTS
    LeftAlone
